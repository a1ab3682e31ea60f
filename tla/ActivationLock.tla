--------------------------- MODULE ActivationLock ---------------------------
(***************************************************************************)
(* The lease file locks/activation.lock (packages/core/src/lock.ts), as    *)
(* the CLI and the sidecar wire it.  Every operating system process runs   *)
(* one JavaScript thread, and acquire() does all its file accesses in one  *)
(* turn, so the runs of one process (activations, benchmarks, unloads) do  *)
(* not interleave inside it; those of two processes do, at every access.   *)
(* A process may die anywhere; its lease stays.                            *)
(*                                                                         *)
(* The code says that looking at the file and writing it are two steps,    *)
(* and a lease may end under its holder.  A history variable says which    *)
(* runs are exposed to either: the rest are what the lock protects.        *)
(***************************************************************************)
EXTENDS Naturals, FiniteSets

CONSTANTS
  Run,            \* acquire ... release cycles that may be in progress at once
  Owner,          \* operating system processes; a restart is another process
  OwnerOf,        \* the process a run belongs to
  Prober,         \* processes wired with isOwnerAlive (the sidecar; not the CLI)
  LeaseMs,        \* lease length, in clock ticks (30 minutes in the code)
  MaxClock,       \* bound on the clock
  Unreliable,     \* processes whose unlink in release() may fail
  NoLease,        \* no lock file
  Blank, Garbled  \* a lock file that is empty, or that two writers have mixed

Lease == [owner : Owner, at : Nat]

ASSUME OwnerOfAssumption == OwnerOf \in [Run -> Owner]
ASSUME ProberAssumption  == Prober \subseteq Owner
ASSUME ClockAssumption   == LeaseMs \in Nat \ {0} /\ MaxClock \in Nat
ASSUME UnreliableAssumption == Unreliable \subseteq Owner
ASSUME FileAssumption    == /\ NoLease \notin {Blank, Garbled} /\ Blank # Garbled
                            /\ {NoLease, Blank, Garbled} \cap Lease = {}

VARIABLES
  clock,    \* options.now(), the same clock for every process
  alive,    \* the processes that still exist
  file,     \* content of activation.lock
  phase,    \* where each run is in acquire()
  stamp,    \* payload.acquiredAt of each run in progress
  seen,     \* the lease a run read before it asks whether its owner lives
  attached, \* the runs whose open file is still the one at the path
  exposed   \* history: the runs in progress the lease may fail

lockVars == <<clock, alive, file, phase, stamp, seen, attached, exposed>>

Acquiring(r) == phase[r] \in {"look", "probe", "write", "fill"}
ThreadFree(p) == \A r \in Run : OwnerOf[r] = p => ~Acquiring(r)
Holders == {r \in Run : phase[r] = "holding"}

(* Between its look at the file and its write. *)
Deciding(r) == phase[r] \in {"probe", "write", "fill"}

LockTypeOK ==
  /\ clock \in Nat
  /\ alive \in SUBSET Owner
  /\ file \in Lease \cup {NoLease, Blank, Garbled}
  /\ phase \in [Run -> {"idle", "look", "probe", "write", "fill", "holding"}]
  /\ stamp \in [Run -> Nat]
  /\ seen \in [Run -> Lease \cup {NoLease}]
  /\ {attached, exposed} \subseteq SUBSET Run

LockInit ==
  /\ clock = 0
  /\ alive = Owner
  /\ file = NoLease
  /\ phase = [r \in Run |-> "idle"]
  /\ stamp = [r \in Run |-> 0]
  /\ seen = [r \in Run |-> NoLease]
  /\ attached = {} /\ exposed = {}

-----------------------------------------------------------------------------
(* isLeaseLive (and a faulty variant, which ends the lease a tick early) *)
LeaseLiveTooShort(lease, now) == now + 1 < lease.at + LeaseMs
LeaseLive(lease, now) == now < lease.at + LeaseMs

(* isOwnerAlive(owner) === false, for a probe that answers (after two  *)
(* faulty variants: one never reclaims, one always does) *)
OwnerAssumedAlive(lease) == FALSE
OwnerAssumedGone(lease) == lease.owner \in Owner
OwnerGone(lease) == lease.owner \notin alive

(* The lease a run writes. *)
Payload(r) == [owner |-> OwnerOf[r], at |-> stamp[r]]

MoveTo(r, label) == phase' = [phase EXCEPT ![r] = label]

(* The run is over, and its variables go. *)
EndRun(r) == /\ MoveTo(r, "idle")
             /\ stamp' = [stamp EXCEPT ![r] = 0]
             /\ seen' = [seen EXCEPT ![r] = NoLease]
             /\ exposed' = exposed \ {r}

(* Two runs that decide at once expose each other: the time between the     *)
(* check and the write (lock.ts). *)
Meets(r) == LET others == {q \in Run \ {r} : Deciding(q)}
            IN  IF others = {} THEN {} ELSE others \cup {r}

(* Who passes the checks while an exposed run holds the lock is exposed too. *)
Behind(r) == IF Holders \cap exposed = {} THEN {} ELSE {r}

(* acquire() is called: the payload takes its time stamp. *)
StartAcquire(r) ==
  /\ phase[r] = "idle"
  /\ OwnerOf[r] \in alive
  /\ ThreadFree(OwnerOf[r])
  /\ stamp' = [stamp EXCEPT ![r] = clock]
  /\ MoveTo(r, "look")
  /\ UNCHANGED <<clock, alive, file, seen, attached, exposed>>

(* exists + read + parse: no file, an unreadable one and an expired lease   *)
(* are residue.  One step, since a file that vanishes between exists and    *)
(* read makes read throw, which is the same branch as no file at all.       *)
LookFree(r) ==
  /\ phase[r] = "look"
  /\ file \in Lease => ~LeaseLive(file, stamp[r])
  /\ MoveTo(r, "write")
  /\ exposed' = exposed \cup Meets(r) \cup Behind(r)
  /\ UNCHANGED <<clock, alive, file, stamp, seen, attached>>

(* A live lease, in a process with a liveness probe. *)
LookLive(r) ==
  /\ phase[r] = "look"
  /\ OwnerOf[r] \in Prober
  /\ file \in Lease /\ LeaseLive(file, stamp[r])
  /\ seen' = [seen EXCEPT ![r] = file]
  /\ MoveTo(r, "probe")
  /\ exposed' = exposed \cup Meets(r)
  /\ UNCHANGED <<clock, alive, file, stamp, attached>>

(* A live lease, in a process without one: false, another holder. *)
RefuseUnprobed(r) ==
  /\ phase[r] = "look"
  /\ OwnerOf[r] \notin Prober
  /\ file \in Lease /\ LeaseLive(file, stamp[r])
  /\ EndRun(r)
  /\ UNCHANGED <<clock, alive, file, attached>>

(* The probe proves that the lease is crash residue. *)
Reclaim(r) ==
  /\ phase[r] = "probe"
  /\ OwnerGone(seen[r])
  /\ MoveTo(r, "write")
  /\ seen' = [seen EXCEPT ![r] = NoLease]
  /\ exposed' = exposed \cup Behind(r)
  /\ UNCHANGED <<clock, alive, file, stamp, attached>>

(* The probe finds the owner alive. *)
RefuseProbed(r) ==
  /\ phase[r] = "probe"
  /\ ~OwnerGone(seen[r])
  /\ EndRun(r)
  /\ UNCHANGED <<clock, alive, file, attached>>

(* The probe throws or has no answer, which counts as alive. *)
RefuseUncertain(r) ==
  /\ phase[r] = "probe"
  /\ EndRun(r)
  /\ UNCHANGED <<clock, alive, file, attached>>

(* writeFileUtf8 truncates the file, or creates it ... *)
Truncate(r) ==
  /\ phase[r] = "write"
  /\ file' = Blank
  /\ attached' = attached \cup {r}
  /\ MoveTo(r, "fill")
  /\ UNCHANGED <<clock, alive, stamp, seen, exposed>>

(* ... and fills it, and acquire() resolves with true.  A file that was     *)
(* unlinked meanwhile is filled in vain, and over the bytes of another      *)
(* writer the payload may leave their tail.                                 *)
Fill(r) ==
  /\ phase[r] = "fill"
  /\ \/ r \in attached /\ file' = Payload(r)
     \/ r \in attached /\ file # Blank /\ file' = Garbled
     \/ r \notin attached /\ file' = file
  /\ attached' = attached \ {r}
  /\ MoveTo(r, "holding")
  /\ UNCHANGED <<clock, alive, stamp, seen, exposed>>

(* Either half of the write throws: acquire() rejects. *)
PayloadFault(r) ==
  /\ phase[r] \in {"write", "fill"}
  /\ EndRun(r)
  /\ attached' = attached \ {r}
  /\ UNCHANGED <<clock, alive, file>>

(* release() unlinks whatever file is there. *)
Release(r) ==
  /\ phase[r] = "holding"
  /\ ThreadFree(OwnerOf[r])
  /\ file' = NoLease
  /\ attached' = {}
  /\ EndRun(r)
  /\ UNCHANGED <<clock, alive>>

(* The unlink throws; the callers swallow it and the lease stays. *)
ReleaseFault(r) ==
  /\ OwnerOf[r] \in Unreliable
  /\ phase[r] = "holding"
  /\ ThreadFree(OwnerOf[r])
  /\ EndRun(r)
  /\ UNCHANGED <<clock, alive, file, attached>>

(* A process ends, with every run in it. *)
Dies(p) ==
  LET mine == {r \in Run : OwnerOf[r] = p}
  IN  /\ p \in alive
      /\ alive' = alive \ {p}
      /\ phase' = [r \in Run |-> IF r \in mine THEN "idle" ELSE phase[r]]
      /\ stamp' = [r \in Run |-> IF r \in mine THEN 0 ELSE stamp[r]]
      /\ seen' = [r \in Run |-> IF r \in mine THEN NoLease ELSE seen[r]]
      /\ attached' = attached \ mine
      /\ exposed' = exposed \ mine
      /\ UNCHANGED <<clock, file>>

(* Time passes; a run whose lease ends before it does is exposed. *)
Tick ==
  /\ clock < MaxClock
  /\ clock' = clock + 1
  /\ exposed' = exposed \cup {r \in Run : phase[r] # "idle" /\ clock' >= stamp[r] + LeaseMs}
  /\ UNCHANGED <<alive, file, phase, stamp, seen, attached>>

RunStep(r) ==
  \/ StartAcquire(r)
  \/ LookFree(r) \/ LookLive(r) \/ RefuseUnprobed(r)
  \/ Reclaim(r) \/ RefuseProbed(r) \/ RefuseUncertain(r)
  \/ Truncate(r) \/ Fill(r) \/ PayloadFault(r)
  \/ Release(r) \/ ReleaseFault(r)

LockNext ==
  \/ \E r \in Run : RunStep(r)
  \/ \E p \in Owner : Dies(p)
  \/ Tick

LockSpec == LockInit /\ [][LockNext]_lockVars

-----------------------------------------------------------------------------
(* "All three entry points serialize through the same cross-process         *)
(* activation.lock" (README.md): whoever holds the lock is its only holder, *)
(* and the lease in the file is its own, unexpired, of a living process, so *)
(* that release(), which checks no owner, removes nobody else's.  Two runs  *)
(* hold the lock together only if each is exposed: it looked at the file    *)
(* while another run was between its look and its write, it outlived its    *)
(* lease, or it followed such a run.                                        *)
MutualExclusion ==
  \A r \in Holders \ exposed :
    /\ Holders = {r}
    /\ file = Payload(r)
    /\ LeaseLive(file, clock)
    /\ OwnerOf[r] \in alive

(* A process with a liveness probe that answers is refused only while some  *)
(* run of the lease's owner really holds the lock: residue of a crash never *)
(* blocks it, as long as the unlink of the owner's release() works.         *)
BusyMeansHeld ==
  [][\A r \in Run :
       RefuseProbed(r) /\ file = seen[r] /\ seen[r].owner \notin Unreliable
         => \E h \in Holders : seen[r] = Payload(h)]_lockVars

(* The lease file implements the mutex the runs rely on, for the runs that  *)
(* are not exposed: an exposed one has left the mutex before its end.       *)
Lock == INSTANCE Mutex WITH Actor <- Run, holders <- Holders \ exposed
ImplementsMutex == Lock!MutexSpec

(* Not kept by the code, and refuted by TLC on the instance of MCFiles:     *)
(* "A failed release leaves a lease that the next acquire treats as         *)
(* residue" (safeReleaseLock, packages/core/src/runner.ts): with no lock    *)
(* holder at all, no lease makes an acquire() of a probing process fail.    *)
FailedReleaseIsResidue ==
  [][\A r \in Run : RefuseProbed(r) /\ file = seen[r] => Holders # {}]_lockVars

-----------------------------------------------------------------------------
(* The inductive invariant behind the properties above. *)

(* Every run in progress belongs to a living process; it is younger than    *)
(* its lease, unless it is exposed. *)
RunsAreFresh ==
  /\ \A r \in Run : phase[r] # "idle" =>
       /\ OwnerOf[r] \in alive
       /\ stamp[r] <= clock
       /\ r \notin exposed => clock < stamp[r] + LeaseMs
  /\ \A r \in exposed : phase[r] # "idle"

(* Of two runs between their look and their write each is exposed. *)
WindowsMet ==
  \A r, q \in Run : r # q /\ Deciding(r) /\ Deciding(q) => {r, q} \subseteq exposed

(* Whoever holds the lock unexposed holds it alone, by the lease in the     *)
(* file; a probing run asks about its process, and nobody is past the       *)
(* checks. *)
HolderAlone ==
  \A h \in Holders \ exposed :
    /\ Holders = {h}
    /\ file = Payload(h)
    /\ \A r \in Run : /\ phase[r] \notin {"write", "fill"}
                      /\ phase[r] = "probe" => seen[r].owner = OwnerOf[h]

(* Past the checks of an unexposed run nobody holds the lock, and the file  *)
(* it fills is the one at the path, as it left it. *)
WriterAlone ==
  \A r \in Run \ exposed :
    /\ phase[r] \in {"write", "fill"} => Holders = {}
    /\ phase[r] = "fill" => r \in attached /\ file = Blank

ProbesSeeLease == \A r \in Run : phase[r] = "probe" => seen[r] \in Lease

(* A lease in the file is a holder's, or residue of a process that ended or *)
(* whose unlink failed. *)
LeasesAccounted ==
  file \in Lease => \/ \E h \in Holders : file = Payload(h)
                    \/ file.owner \notin alive
                    \/ file.owner \in Unreliable

LockInv ==
  /\ LockTypeOK
  /\ RunsAreFresh
  /\ WindowsMet
  /\ HolderAlone
  /\ WriterAlone
  /\ ProbesSeeLease
  /\ LeasesAccounted
=============================================================================
