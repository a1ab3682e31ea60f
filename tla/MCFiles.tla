------------------------------- MODULE MCFiles -------------------------------
(* The two files that processes share, in one run: the lease of the lock,   *)
(* and a profile with its backups.  They have no state in common, so that a *)
(* behaviour is about one of them, and the other part stays as it began.    *)
(* The lock: two runs in the sidecar s1, one in its restart s2, one in a    *)
(* CLI process.  The store: a CLI and a sidecar process.                    *)
EXTENDS ActivationLock, ProfileStore, TLC

CONSTANTS s1, s2, c1, sA, sB, sC, cA, p1, p2

MCRun == {sA, sB, sC, cA}
MCOwner == {s1, s2, c1}
MCOwnerOf == sA :> s1 @@ sB :> s1 @@ sC :> s2 @@ cA :> c1
MCProber == {s1, s2}
MCUnreliable == {c1}

MCProc == {p1, p2}

VARIABLE part   \* the file a behaviour is about

FilesInit == part \in {"lease", "profile"} /\ LockInit /\ Init

FilesNext ==
  \/ part = "lease" /\ LockNext /\ UNCHANGED <<part, vars>>
  \/ part = "profile" /\ Next /\ UNCHANGED <<part, lockVars>>

FilesSpec == FilesInit /\ [][FilesNext]_<<part, lockVars, vars>>
=============================================================================
