------------------------ MODULE ActivationLockProofs ------------------------
(***************************************************************************)
(* Theorems about ActivationLock for any number of runs and processes, any *)
(* lease length and any clock.  Nothing is assumed of when processes       *)
(* acquire or how long they hold: the theorems say what the runs that are  *)
(* not exposed may rely on, whatever the exposed ones do to the file.      *)
(***************************************************************************)
EXTENDS ActivationLock, TLAPS

USE DEF MoveTo, EndRun, Acquiring, ThreadFree, Payload, LeaseLive, OwnerGone, Deciding

Phases == {"idle", "look", "probe", "write", "fill", "holding"}

(* The initial state has the declared types. *)
LEMMA InitTypes == LockInit => LockTypeOK
BY ClockAssumption DEF LockInit, LockTypeOK

(* Every step keeps the declared types. *)
LEMMA NextTypes == LockTypeOK /\ [LockNext]_lockVars => LockTypeOK'
<1> SUFFICES ASSUME LockTypeOK, [LockNext]_lockVars PROVE LockTypeOK'
  OBVIOUS
<1> USE OwnerOfAssumption DEF LockTypeOK, Meets, Behind
<1>1. ASSUME NEW r \in Run, StartAcquire(r) \/ LookFree(r) \/ LookLive(r)
      PROVE  LockTypeOK'
  BY <1>1 DEF StartAcquire, LookFree, LookLive
<1>2. ASSUME NEW r \in Run,
             RefuseUnprobed(r) \/ Reclaim(r) \/ RefuseProbed(r) \/ RefuseUncertain(r)
      PROVE  LockTypeOK'
  BY <1>2 DEF RefuseUnprobed, Reclaim, RefuseProbed, RefuseUncertain
<1>3. ASSUME NEW r \in Run, Truncate(r) \/ PayloadFault(r) \/ Release(r) \/ ReleaseFault(r)
      PROVE  LockTypeOK'
  BY <1>3 DEF Truncate, PayloadFault, Release, ReleaseFault
<1>4. ASSUME NEW r \in Run, Fill(r) PROVE LockTypeOK'
  <2>1. Payload(r) \in Lease
    BY DEF Lease
  <2> QED BY <1>4, <2>1 DEF Fill
<1>5. ASSUME NEW p \in Owner, Dies(p) PROVE LockTypeOK'
  BY <1>5 DEF Dies
<1>6. CASE Tick
  BY <1>6 DEF Tick
<1>7. CASE UNCHANGED lockVars
  BY <1>7 DEF lockVars
<1> QED BY <1>1, <1>2, <1>3, <1>4, <1>5, <1>6, <1>7 DEF LockNext, RunStep

(* LockTypeOK holds in every reachable state, for every choice of constants. *)
THEOREM TypeCorrect == LockSpec => []LockTypeOK
<1> QED BY InitTypes, NextTypes, PTL DEF LockSpec

-----------------------------------------------------------------------------
(* The initial state satisfies the inductive invariant. *)
LEMMA InitInv == LockInit => LockInv
<1> SUFFICES ASSUME LockInit PROVE LockInv
  OBVIOUS
<1>1. LockTypeOK
  BY InitTypes
<1>2. file \notin Lease /\ exposed = {} /\ \A r \in Run : phase[r] = "idle"
  BY FileAssumption DEF LockInit
<1> QED
  BY <1>1, <1>2 DEF LockInv, Holders, RunsAreFresh, WindowsMet, HolderAlone, WriterAlone,
     ProbesSeeLease, LeasesAccounted

(* Nobody passes the checks of acquire() while an unexposed run holds the   *)
(* lock, because its lease is live and its owner too. *)
LEMMA HolderBlocks ==
  ASSUME LockInv, NEW h \in Holders \ exposed, NEW r \in Run
  PROVE  ~LookFree(r) /\ ~Reclaim(r) /\ phase[r] \notin {"write", "fill"}
<1>1. /\ h \in Run /\ phase[h] = "holding" /\ file = Payload(h)
      /\ OwnerOf[h] \in alive
      /\ clock < stamp[h] + LeaseMs
  BY DEF LockInv, Holders, HolderAlone, RunsAreFresh
<1>2. phase[r] \notin {"write", "fill"} /\ (phase[r] = "probe" => seen[r].owner = OwnerOf[h])
  BY DEF LockInv, HolderAlone
<1>3. ~LookFree(r)
  <2> SUFFICES ASSUME LookFree(r) PROVE FALSE
    OBVIOUS
  <2>1. stamp[r] <= clock /\ stamp[r] \in Nat /\ clock \in Nat /\ stamp[h] \in Nat
    BY <1>1 DEF LookFree, LockInv, RunsAreFresh, LockTypeOK
  <2>2. file \in Lease /\ file.at = stamp[h]
    BY <1>1, <2>1, OwnerOfAssumption DEF Lease
  <2> QED BY <1>1, <2>1, <2>2, ClockAssumption DEF LookFree
<1>4. ~Reclaim(r)
  BY <1>1, <1>2 DEF Reclaim
<1> QED BY <1>2, <1>3, <1>4

(* Who passes the checks unexposed finds the lock free. *)
LEMMA PassesAlone ==
  ASSUME LockInv, NEW r \in Run, LookFree(r) \/ Reclaim(r), r \notin exposed'
  PROVE  Holders = {}
<1>1. Holders \cap exposed = {}
  BY DEF LookFree, Reclaim, Behind
<1>2. Holders \ exposed = {}
  BY HolderBlocks
<1> QED BY <1>1, <1>2

-----------------------------------------------------------------------------
(* A call of acquire() stamps its payload and decides nothing yet. *)
LEMMA StartKeeps ==
  ASSUME LockInv, LockTypeOK', NEW r \in Run, StartAcquire(r)
  PROVE  LockInv'
<1>1. /\ UNCHANGED <<clock, alive, file, seen, attached, exposed>>
      /\ phase[r] = "idle" /\ phase'[r] = "look"
      /\ stamp'[r] = clock /\ OwnerOf[r] \in alive
      /\ \A q \in Run \ {r} : phase'[q] = phase[q] /\ stamp'[q] = stamp[q]
  BY DEF LockInv, LockTypeOK, StartAcquire
<1>2. Holders' = Holders /\ r \notin Holders
  BY <1>1 DEF Holders
<1>3. \A h \in Holders : Payload(h)' = Payload(h)
  BY <1>1, <1>2 DEF Holders
<1>4. RunsAreFresh'
  BY <1>1, ClockAssumption DEF LockInv, RunsAreFresh, LockTypeOK
<1>5. WindowsMet' /\ WriterAlone' /\ ProbesSeeLease'
  BY <1>1, <1>2 DEF LockInv, WindowsMet, WriterAlone, ProbesSeeLease
<1>6. HolderAlone'
  BY <1>1, <1>2, <1>3 DEF LockInv, HolderAlone, Holders
<1>7. LeasesAccounted'
  BY <1>1, <1>2, <1>3 DEF LockInv, LeasesAccounted
<1> QED BY <1>4, <1>5, <1>6, <1>7 DEF LockInv

(* A look at the file and a probe that passes: the runs they meet are       *)
(* exposed, and an unexposed one passes only to a free lock. *)
LEMMA LookKeeps ==
  ASSUME LockInv, LockTypeOK', NEW r \in Run, LookFree(r) \/ LookLive(r) \/ Reclaim(r)
  PROVE  LockInv'
<1>1. /\ UNCHANGED <<clock, alive, file, stamp, attached>>
      /\ phase[r] \in {"look", "probe"} /\ phase'[r] \in {"probe", "write"}
      /\ \A q \in Run \ {r} : phase'[q] = phase[q] /\ seen'[q] = seen[q]
      /\ exposed \subseteq exposed'
  BY DEF LockInv, LockTypeOK, LookFree, LookLive, Reclaim
<1>2. Holders' = Holders /\ r \notin Holders
  BY <1>1 DEF Holders
<1>3. \A h \in Holders : Payload(h)' = Payload(h)
  BY <1>1
<1>4. RunsAreFresh'
  <2>1. \A q \in exposed' \ exposed : phase[q] # "idle"
    BY <1>1 DEF LookFree, LookLive, Reclaim, Meets, Behind
  <2> QED BY <1>1, <2>1 DEF LockInv, LockTypeOK, RunsAreFresh
<1>5. WindowsMet'
  <2>1. CASE phase[r] = "look"
    <3>1. \A q \in Run \ {r} : Deciding(q) => {q, r} \subseteq exposed'
      BY <2>1 DEF LookFree, LookLive, Reclaim, Meets
    <3> QED BY <1>1, <3>1 DEF LockInv, WindowsMet
  <2>2. CASE phase[r] = "probe"
    BY <1>1, <2>2 DEF LockInv, WindowsMet
  <2> QED BY <1>1, <2>1, <2>2
<1>6. WriterAlone'
  <2>1. ASSUME r \notin exposed', phase'[r] = "write" PROVE Holders = {}
    <3>1. LookFree(r) \/ Reclaim(r)
      BY <2>1 DEF LockInv, LockTypeOK, LookLive
    <3> QED BY <2>1, <3>1, PassesAlone
  <2> QED BY <1>1, <1>2, <2>1 DEF LockInv, WriterAlone
<1>7. HolderAlone' /\ ProbesSeeLease'
  <2>1. ASSUME NEW h \in Holders \ exposed
        PROVE  phase'[r] = "probe" /\ seen'[r].owner = OwnerOf[h]
    <3>1. LookLive(r)
      BY HolderBlocks
    <3>2. file = Payload(h)
      BY DEF LockInv, HolderAlone
    <3> QED BY <3>1, <3>2 DEF LookLive, LockInv, LockTypeOK
  <2>2. phase'[r] = "probe" => seen'[r] \in Lease
    BY DEF LookFree, LookLive, Reclaim, LockInv, LockTypeOK
  <2>3. HolderAlone'
    BY <1>1, <1>2, <1>3, <2>1 DEF LockInv, HolderAlone
  <2>4. ProbesSeeLease'
    BY <1>1, <2>2 DEF LockInv, ProbesSeeLease
  <2> QED BY <2>3, <2>4
<1>8. LeasesAccounted'
  BY <1>1, <1>2, <1>3 DEF LockInv, LeasesAccounted
<1> QED BY <1>4, <1>5, <1>6, <1>7, <1>8 DEF LockInv

(* A run that ends without having held the lock. *)
LEMMA GiveUpKeeps ==
  ASSUME LockInv, LockTypeOK', NEW r \in Run,
         RefuseUnprobed(r) \/ RefuseProbed(r) \/ RefuseUncertain(r) \/ PayloadFault(r)
  PROVE  LockInv'
<1>1. /\ UNCHANGED <<clock, alive, file>>
      /\ phase[r] # "holding" /\ phase'[r] = "idle" /\ exposed' = exposed \ {r}
      /\ \A q \in Run \ {r} : /\ phase'[q] = phase[q] /\ stamp'[q] = stamp[q]
                              /\ seen'[q] = seen[q] /\ (q \in attached => q \in attached')
  BY DEF LockInv, LockTypeOK, RefuseUnprobed, RefuseProbed, RefuseUncertain, PayloadFault
<1>2. Holders' = Holders /\ r \notin Holders
  BY <1>1 DEF Holders
<1>3. \A h \in Holders : Payload(h)' = Payload(h)
  BY <1>1, <1>2 DEF Holders
<1>4. RunsAreFresh' /\ WindowsMet' /\ ProbesSeeLease'
  BY <1>1 DEF LockInv, LockTypeOK, RunsAreFresh, WindowsMet, ProbesSeeLease
<1>5. WriterAlone'
  BY <1>1, <1>2 DEF LockInv, WriterAlone
<1>6. HolderAlone'
  BY <1>1, <1>2, <1>3 DEF LockInv, HolderAlone, Holders
<1>7. LeasesAccounted'
  BY <1>1, <1>2, <1>3 DEF LockInv, LeasesAccounted
<1> QED BY <1>4, <1>5, <1>6, <1>7 DEF LockInv

(* The write that ends acquire(): an unexposed writer is the only one, and  *)
(* becomes the only holder, with its own lease in the file. *)
LEMMA WriteKeeps ==
  ASSUME LockInv, LockTypeOK', NEW r \in Run, Truncate(r) \/ Fill(r)
  PROVE  LockInv'
<1>1. /\ UNCHANGED <<clock, alive, stamp, seen, exposed>>
      /\ phase[r] \in {"write", "fill"} /\ phase'[r] \in {"fill", "holding"}
      /\ \A q \in Run \ {r} : phase'[q] = phase[q] /\ (q \in attached => q \in attached')
  BY DEF LockInv, LockTypeOK, Truncate, Fill
<1>2. Holders \ exposed = {}
  BY <1>1, HolderBlocks
<1>3. \A q \in Run \ {r} : phase[q] \in {"write", "fill"} => {q, r} \subseteq exposed
  BY <1>1 DEF LockInv, WindowsMet
<1>4. r \notin exposed => Holders = {}
  BY <1>1 DEF LockInv, WriterAlone
<1>5. Holders' = IF phase'[r] = "holding" THEN Holders \cup {r} ELSE Holders
  BY <1>1 DEF Holders
<1>6. RunsAreFresh' /\ WindowsMet' /\ ProbesSeeLease'
  BY <1>1 DEF LockInv, LockTypeOK, RunsAreFresh, WindowsMet, ProbesSeeLease
<1>7. WriterAlone'
  <2>1. phase'[r] = "fill" => Truncate(r)
    BY DEF Truncate, Fill, LockInv, LockTypeOK
  <2>2. phase'[r] = "fill" => r \in attached' /\ file' = Blank
    BY <2>1 DEF Truncate
  <2> QED BY <1>1, <1>3, <1>4, <1>5, <2>2 DEF WriterAlone
<1>8. HolderAlone'
  <2> SUFFICES ASSUME NEW h \in Holders', h \notin exposed
               PROVE  /\ Holders' = {h} /\ file' = Payload(h)'
                      /\ \A q \in Run : phase'[q] \notin {"probe", "write", "fill"}
    BY <1>1 DEF HolderAlone
  <2>1. h = r /\ phase'[r] = "holding" /\ Holders' = {r}
    BY <1>2, <1>4, <1>5
  <2>2. Fill(r) /\ phase[r] = "fill" /\ r \in attached /\ file = Blank
    BY <2>1 DEF Truncate, Fill, LockInv, LockTypeOK, WriterAlone
  <2>3. file' = Payload(r)'
    BY <1>1, <2>2 DEF Fill
  <2>4. \A q \in Run \ {r} : ~Deciding(q)
    BY <1>1, <2>1 DEF LockInv, WindowsMet
  <2> QED BY <1>1, <2>1, <2>3, <2>4
<1>9. LeasesAccounted'
  <2>1. ASSUME file' \in Lease, file' # file PROVE r \in Holders' /\ file' = Payload(r)'
    <3>1. Fill(r) /\ file' = Payload(r)
      BY <2>1, FileAssumption DEF Truncate, Fill
    <3> QED BY <1>1, <1>5, <3>1 DEF Fill, LockInv, LockTypeOK
  <2>2. Holders \subseteq Holders' /\ \A h \in Holders : Payload(h)' = Payload(h)
    BY <1>1, <1>5
  <2> QED BY <1>1, <2>1, <2>2 DEF LockInv, LeasesAccounted
<1> QED BY <1>6, <1>7, <1>8, <1>9 DEF LockInv

(* release(): the file it unlinks, or leaves behind.  An unexposed writer   *)
(* or another unexposed holder excludes it. *)
LEMMA ReleaseKeeps ==
  ASSUME LockInv, LockTypeOK', NEW r \in Run, Release(r) \/ ReleaseFault(r)
  PROVE  LockInv'
<1>1. /\ UNCHANGED <<clock, alive>>
      /\ phase[r] = "holding" /\ phase'[r] = "idle" /\ exposed' = exposed \ {r}
      /\ \A q \in Run \ {r} : /\ phase'[q] = phase[q] /\ stamp'[q] = stamp[q]
                              /\ seen'[q] = seen[q]
  BY DEF LockInv, LockTypeOK, Release, ReleaseFault
<1>2. r \in Holders /\ Holders' = Holders \ {r}
  BY <1>1 DEF Holders
<1>3. \A h \in Holders' : Payload(h)' = Payload(h)
  BY <1>1, <1>2 DEF Holders
<1>4. RunsAreFresh' /\ WindowsMet' /\ ProbesSeeLease'
  BY <1>1 DEF LockInv, LockTypeOK, RunsAreFresh, WindowsMet, ProbesSeeLease
<1>5. WriterAlone'
  BY <1>1, <1>2 DEF LockInv, WriterAlone
<1>6. HolderAlone'
  BY <1>1, <1>2 DEF LockInv, HolderAlone
<1>7. LeasesAccounted'
  <2>1. CASE Release(r)
    BY <2>1, FileAssumption DEF Release, LeasesAccounted
  <2>2. CASE ReleaseFault(r)
    <3>1. UNCHANGED <<file, alive>> /\ OwnerOf[r] \in Unreliable
      BY <2>2 DEF ReleaseFault
    <3>2. file = Payload(r) => file.owner \in Unreliable
      BY <3>1
    <3> QED BY <1>2, <1>3, <3>1, <3>2 DEF LockInv, LeasesAccounted
  <2> QED BY <2>1, <2>2
<1> QED BY <1>4, <1>5, <1>6, <1>7 DEF LockInv

(* A crash ends runs; the lease it leaves names a dead process. *)
LEMMA DiesKeeps ==
  ASSUME LockInv, LockTypeOK', NEW p \in Owner, Dies(p)
  PROVE  LockInv'
<1> DEFINE mine == {r \in Run : OwnerOf[r] = p}
<1>1. /\ UNCHANGED <<clock, file>>
      /\ alive' = alive \ {p} /\ exposed' = exposed \ mine /\ attached' = attached \ mine
      /\ \A r \in mine : phase'[r] = "idle"
      /\ \A r \in Run \ mine : phase'[r] = phase[r] /\ stamp'[r] = stamp[r] /\ seen'[r] = seen[r]
  BY DEF Dies
<1>2. Holders' = Holders \ mine
  BY <1>1 DEF Holders
<1>3. \A h \in Holders' : Payload(h)' = Payload(h)
  BY <1>1, <1>2 DEF Holders
<1>4. RunsAreFresh'
  BY <1>1 DEF LockInv, LockTypeOK, RunsAreFresh
<1>5. WindowsMet' /\ ProbesSeeLease'
  BY <1>1 DEF LockInv, WindowsMet, ProbesSeeLease
<1>6. WriterAlone'
  BY <1>1, <1>2 DEF LockInv, WriterAlone
<1>7. HolderAlone'
  BY <1>1, <1>2, <1>3 DEF LockInv, HolderAlone, Holders
<1>8. LeasesAccounted'
  <2>1. \A h \in Holders : h \in mine /\ file = Payload(h) => file.owner \notin alive'
    BY <1>1
  <2> QED BY <1>1, <1>2, <1>3, <2>1 DEF LockInv, LeasesAccounted
<1> QED BY <1>4, <1>5, <1>6, <1>7, <1>8 DEF LockInv

(* Time passes; the runs that outlive their lease are exposed. *)
LEMMA TickKeeps ==
  ASSUME LockInv, LockTypeOK', Tick
  PROVE  LockInv'
<1>1. /\ UNCHANGED <<alive, file, phase, stamp, seen, attached>>
      /\ exposed \subseteq exposed' /\ clock' = clock + 1
      /\ \A r \in Run : r \notin exposed' /\ phase[r] # "idle" => ~(clock' >= stamp[r] + LeaseMs)
      /\ \A r \in exposed' \ exposed : phase[r] # "idle"
  BY DEF Tick
<1>2. Holders' = Holders /\ \A r \in Run : Payload(r)' = Payload(r)
  BY <1>1 DEF Holders
<1>3. RunsAreFresh'
  BY <1>1, ClockAssumption DEF LockInv, RunsAreFresh, LockTypeOK
<1>4. WindowsMet' /\ ProbesSeeLease' /\ WriterAlone'
  BY <1>1, <1>2 DEF LockInv, WindowsMet, ProbesSeeLease, WriterAlone
<1>5. HolderAlone' /\ LeasesAccounted'
  BY <1>1, <1>2 DEF LockInv, HolderAlone, LeasesAccounted, Holders
<1> QED BY <1>3, <1>4, <1>5 DEF LockInv

(* LockInv is inductive. *)
LEMMA NextInv == LockInv /\ [LockNext]_lockVars => LockInv'
<1> SUFFICES ASSUME LockInv, [LockNext]_lockVars PROVE LockInv'
  OBVIOUS
<1>1. LockTypeOK'
  BY NextTypes DEF LockInv
<1>2. ASSUME NEW r \in Run, RunStep(r) PROVE LockInv'
  BY <1>1, <1>2, StartKeeps, LookKeeps, GiveUpKeeps, WriteKeeps, ReleaseKeeps DEF RunStep
<1>3. ASSUME NEW p \in Owner, Dies(p) PROVE LockInv'
  BY <1>1, <1>3, DiesKeeps
<1>4. CASE Tick
  BY <1>1, <1>4, TickKeeps
<1>5. CASE UNCHANGED lockVars
  BY <1>5 DEF lockVars, LockInv, LockTypeOK, RunsAreFresh, WindowsMet, HolderAlone,
     WriterAlone, ProbesSeeLease, LeasesAccounted, Holders
<1> QED BY <1>2, <1>3, <1>4, <1>5 DEF LockNext

(* The inductive invariant holds in every reachable state. *)
LEMMA Inductive == LockSpec => []LockInv
<1> QED BY InitInv, NextInv, PTL DEF LockSpec

-----------------------------------------------------------------------------
(* Whoever holds the lock unexposed is its only holder, by its own          *)
(* unexpired lease in the file: whatever crashes, expiries and other        *)
(* processes do, two runs hold the lock together only in the documented     *)
(* gaps, and release(), which compares no owner, unlinks no lease of an     *)
(* unexposed run but the releaser's. *)
THEOREM Exclusive == LockSpec => []MutualExclusion
<1>1. LockInv => MutualExclusion
  BY DEF LockInv, MutualExclusion, HolderAlone, RunsAreFresh, Holders
<1> QED BY <1>1, Inductive, PTL

(* A probing process is refused only by a run that holds the lock, unless   *)
(* the unlink of an earlier release() failed. *)
THEOREM RefusedOnlyWhenHeld == LockSpec => BusyMeansHeld
<1>1. ASSUME LockInv, NEW r \in Run, RefuseProbed(r), file = seen[r],
             seen[r].owner \notin Unreliable
      PROVE  \E h \in Holders : seen[r] = Payload(h)
  <2>1. file \in Lease /\ file.owner \in alive
    BY <1>1 DEF LockInv, ProbesSeeLease, RefuseProbed
  <2> QED BY <1>1, <2>1 DEF LockInv, LeasesAccounted
<1>2. LockInv /\ [LockNext]_lockVars =>
        [\A r \in Run :
           RefuseProbed(r) /\ file = seen[r] /\ seen[r].owner \notin Unreliable
             => \E h \in Holders : seen[r] = Payload(h)]_lockVars
  BY <1>1
<1> QED BY <1>2, Inductive, PTL DEF LockSpec, BusyMeansHeld

(* The lease file implements the mutex for the runs that are not exposed: a *)
(* step is an entry of one of them into an empty mutex, an exit, or         *)
(* invisible. *)
THEOREM Implements == LockSpec => ImplementsMutex
<1> DEFINE mutex == Holders \ exposed
<1>1. LockInit => Lock!MutexInit
  BY DEF LockInit, Lock!MutexInit, Holders
<1>2. ASSUME LockInv, LockInv', [LockNext]_lockVars, mutex' # mutex
      PROVE  Lock!MutexNext
  <2>1. mutex \subseteq Run /\ mutex' \subseteq Run
    BY DEF Holders
  <2>2. (\A h \in mutex : mutex = {h}) /\ (\A h \in mutex' : mutex' = {h})
    BY <1>2 DEF LockInv, HolderAlone
  <2>3. CASE mutex' = {}
    <3>1. PICK h \in mutex : TRUE
      BY <1>2, <2>3
    <3>2. Lock!Leave(h)
      BY <2>2, <2>3, <3>1 DEF Lock!Leave
    <3> QED BY <2>1, <3>2 DEF Lock!MutexNext
  <2>4. ASSUME NEW h \in mutex' PROVE mutex = {}
    <3> SUFFICES ASSUME NEW g \in mutex PROVE FALSE
      OBVIOUS
    <3>1. h # g /\ h \in Holders' /\ h \notin exposed' /\ g \in Run /\ h \in Run
      BY <1>2, <2>1, <2>2, <2>4
    <3>2. phase[h] # "holding"
      <4>1. Holders = {g}
        BY <1>2 DEF LockInv, HolderAlone
      <4> QED BY <3>1, <4>1 DEF Holders
    <3>3. phase[h] \notin {"write", "fill"}
      BY <1>2, <3>1, HolderBlocks
    <3>4. phase'[h] = "holding" /\ phase \in [Run -> Phases]
      BY <1>2, <3>1 DEF Holders, LockInv, LockTypeOK, Phases
    <3>5. ~\E r \in Run : RunStep(r)
      BY <3>2, <3>3, <3>4, <3>1 DEF RunStep, StartAcquire, LookFree, LookLive,
         RefuseUnprobed, Reclaim, RefuseProbed, RefuseUncertain, Truncate, Fill,
         PayloadFault, Release, ReleaseFault
    <3>6. phase' = phase \/ \E p \in Owner : Dies(p)
      BY <1>2, <3>5 DEF LockNext, Tick, lockVars
    <3> QED BY <3>1, <3>2, <3>4, <3>6 DEF Dies
  <2>5. ASSUME NEW h \in mutex' PROVE Lock!Enter(h)
    BY <2>2, <2>4, <2>5 DEF Lock!Enter
  <2> QED BY <2>1, <2>3, <2>5 DEF Lock!MutexNext
<1>3. LockInv /\ LockInv' /\ [LockNext]_lockVars => [Lock!MutexNext]_(Holders \ exposed)
  BY <1>2
<1>4. [][LockNext]_lockVars /\ []LockInv => [][Lock!MutexNext]_(Holders \ exposed)
  BY <1>3, PTL
<1> QED BY <1>1, <1>4, Inductive, PTL DEF LockSpec, ImplementsMutex, Lock!MutexSpec
=============================================================================
