------------------------------- MODULE Mutex -------------------------------
(***************************************************************************)
(* What every entry point of LM Profile Switcher expects of the activation *)
(* lock (ActivationLock in packages/core/src/ports.ts): at any time at     *)
(* most one activation, benchmark or unload is between a successful        *)
(* acquire() and its release().  ActivationLock.tla shows when the lease   *)
(* file implements this; Activation.tla and Benchmark.tla build on it.     *)
(***************************************************************************)
CONSTANT Actor      \* the runs that compete for the lock

VARIABLE holders    \* the runs between acquire() = true and release()

MutexInit == holders = {}

(* acquire() resolved with true *)
Enter(a) == /\ holders = {}
            /\ holders' = {a}

(* release(), or the end of the process that held the lock *)
Leave(a) == /\ a \in holders
            /\ holders' = holders \ {a}

MutexNext == \E a \in Actor : Enter(a) \/ Leave(a)

MutexSpec == MutexInit /\ [][MutexNext]_holders
=============================================================================
