------------------------- MODULE ProfileStoreProofs -------------------------
(***************************************************************************)
(* Theorems about ProfileStore for any number of processes, documents and  *)
(* backups.                                                                *)
(***************************************************************************)
EXTENDS ProfileStore, FiniteSetTheorems, TLAPS

USE DEF Goto, own, past

(* A number is no mark of a missing or unreadable file. *)
LEMMA ContentKinds ==
  /\ Absent \notin Version /\ Torn \notin Version
  /\ Absent # Torn
BY VersionAssumption, ContentAssumption DEF Version

(* The number of the next document is within the bound. *)
LEMMA NextNumber ==
  ASSUME NEW n \in 0 .. MaxVersion, n < MaxVersion
  PROVE  n + 1 \in 0 .. MaxVersion /\ n + 1 \in Version
BY VersionAssumption DEF Version

USE DEF Readable

(* Operations that start read a document that exists, and number a new one. *)
LEMMA StartTypes ==
  ASSUME TypeOK, DocsKnown, NEW p \in Proc,
         Create(p) \/ Update(p) \/ Recover(p) \/ RecoverNothing(p) \/ Delete(p)
  PROVE  TypeOK' /\ DocsKnown'
<1> USE DEF TypeOK
<1>1. CASE Create(p) \/ Update(p)
  <2>1. last \in 0 .. MaxVersion /\ last < MaxVersion /\ last' = last + 1
    BY <1>1 DEF Create, Update
  <2>2. last' \in 0 .. MaxVersion /\ last' \in Version
    BY <2>1, NextNumber
  <2>3. CASE Create(p)
    BY <2>2, <2>3 DEF Create, DocsKnown
  <2>4. CASE Update(p)
    BY <2>2, <2>4 DEF Update, DocsKnown
  <2> QED BY <1>1, <2>3, <2>4
<1>2. CASE Recover(p)
  BY <1>2 DEF Recover, DocsKnown
<1>3. CASE RecoverNothing(p)
  BY <1>3 DEF RecoverNothing, DocsKnown
<1>4. CASE Delete(p)
  <2>1. at' \in [Proc -> {"none", "temp", "main"}]
    BY <1>4 DEF Delete, Follow
  <2> QED BY <1>4, <2>1 DEF Delete, DocsKnown, Content
<1> QED BY <1>1, <1>2, <1>3, <1>4

(* Backups hold the document an update has read, or are torn. *)
LEMMA BackupTypes ==
  ASSUME TypeOK, DocsKnown, NEW p \in Proc,
         OpenBackup(p) \/ FillBackup(p) \/ BackupFault(p) \/ Rotate(p)
  PROVE  TypeOK' /\ DocsKnown'
<1> USE DEF TypeOK
<1>1. CASE OpenBackup(p)
  BY <1>1, ContentKinds DEF OpenBackup, DocsKnown, Content
<1>2. CASE FillBackup(p)
  BY <1>2, ContentKinds DEF FillBackup, DocsKnown, Content
<1>3. CASE BackupFault(p)
  BY <1>3 DEF BackupFault, Return, DocsKnown
<1>4. CASE Rotate(p)
  <2>1. PICK removed \in SUBSET Excess :
          backups' = [w \in DOMAIN backups \ removed |-> backups[w]]
    BY <1>4 DEF Rotate
  <2> QED BY <1>4, <2>1 DEF Rotate, DocsKnown
<1> QED BY <1>1, <1>2, <1>3, <1>4

(* A write moves a document from the process to the temporary and the main  *)
(* file. *)
LEMMA WriteTypes ==
  ASSUME TypeOK, DocsKnown, NEW p \in Proc,
         \/ OpenTemp(p) \/ FillTemp(p) \/ WriteFault(p) \/ Rename(p)
         \/ Sweep(p) \/ Crash(p)
  PROVE  TypeOK' /\ DocsKnown'
<1> USE DEF TypeOK
<1>1. CASE OpenTemp(p)
  BY <1>1 DEF OpenTemp, StepAfter, DocsKnown, Content
<1>2. CASE FillTemp(p)
  <2>1. main' \in Content /\ temp' \in Content
    BY <1>2 DEF FillTemp, DocsKnown, Content
  <2> QED BY <1>2, <2>1 DEF FillTemp, StepAfter, DocsKnown
<1>3. CASE WriteFault(p)
  <2>1. temp' \in Content /\ at' \in [Proc -> {"none", "temp", "main"}]
    BY <1>3 DEF WriteFault, Follow, Content
  <2>2. /\ main' = main /\ backups' = backups /\ last' = last
        /\ cur' = cur /\ prev' = prev
    BY <1>3 DEF WriteFault
  <2>3. CASE pc[p] \in {"open", "fill", "rename"} /\ Return(p)
    BY <2>1, <2>2, <2>3 DEF Return, DocsKnown
  <2>4. CASE Goto(p, "sweep")
    BY <2>1, <2>2, <2>4 DEF DocsKnown
  <2> QED BY <1>3, <2>3, <2>4 DEF WriteFault
<1>4. CASE Rename(p)
  <2>1. at' \in [Proc -> {"none", "temp", "main"}]
    BY <1>4 DEF Rename
  <2>2. cur' \in Version \cup {0} /\ prev' \in Version \cup {0}
    BY <1>4 DEF Rename
  <2>3. main' \in Content /\ temp' \in Content
    BY <1>4 DEF Rename, Content
  <2>4. CASE pc[p] = "rename"
    <3>1. /\ pc' = [pc EXCEPT ![p] = "idle"] /\ doc' = [doc EXCEPT ![p] = 0]
          /\ base' = [base EXCEPT ![p] = 0] /\ swept' = [swept EXCEPT ![p] = FALSE]
          /\ backups' = backups /\ last' = last
      BY <1>4, <2>4 DEF Rename, Return
    <3> QED BY <2>1, <2>2, <2>3, <3>1 DEF DocsKnown
  <2>5. CASE pc[p] = "rename restore"
    <3>1. /\ pc' = [pc EXCEPT ![p] = "sweep"]
          /\ doc' = doc /\ base' = base /\ swept' = swept
          /\ backups' = backups /\ last' = last
      BY <1>4, <2>5 DEF Rename
    <3> QED BY <2>1, <2>2, <2>3, <3>1 DEF DocsKnown
  <2> QED BY <1>4, <2>4, <2>5 DEF Rename
<1>5. CASE Sweep(p)
  <2>1. temp' \in Content /\ at' \in [Proc -> {"none", "temp", "main"}]
    BY <1>5 DEF Sweep, Follow, Content
  <2> QED BY <1>5, <2>1 DEF Sweep, Return, DocsKnown
<1>6. CASE Crash(p)
  BY <1>6 DEF Crash, Return, DocsKnown
<1> QED BY <1>1, <1>2, <1>3, <1>4, <1>5, <1>6

(* No file and no operation to begin with. *)
LEMMA InitTypes == Init => TypeOK /\ DocsKnown
<1> SUFFICES ASSUME Init PROVE TypeOK /\ DocsKnown
  OBVIOUS
<1>1. DOMAIN backups = {} /\ last \in 0 .. MaxVersion
  BY VersionAssumption DEF Init
<1> QED BY <1>1 DEF Init, TypeOK, DocsKnown, Content

(* Every step keeps the types. *)
LEMMA NextTypes == TypeOK /\ DocsKnown /\ [Next]_vars => TypeOK' /\ DocsKnown'
<1> SUFFICES ASSUME TypeOK, DocsKnown, [Next]_vars PROVE TypeOK' /\ DocsKnown'
  OBVIOUS
<1>1. ASSUME NEW p \in Proc, Step(p) PROVE TypeOK' /\ DocsKnown'
  BY <1>1, StartTypes, BackupTypes, WriteTypes DEF Step
<1>2. CASE Spoil
  BY <1>2 DEF Spoil, TypeOK, DocsKnown, Content
<1>3. CASE UNCHANGED vars
  BY <1>3 DEF vars, TypeOK, DocsKnown
<1> QED BY <1>1, <1>2, <1>3 DEF Next

(* The files and the processes keep their types, also when operations of    *)
(* two processes overlap. *)
THEOREM TypeCorrect == Spec => []TypeOK
<1>1. Spec => [](TypeOK /\ DocsKnown)
  BY InitTypes, NextTypes, PTL DEF Spec
<1> QED BY <1>1, PTL

-----------------------------------------------------------------------------
(* Operations that do not overlap. *)

(* A process that has nothing open follows nothing. *)
LEMMA NothingToFollow ==
  ASSUME NEW q \in Proc, at[q] = "none", NEW from
  PROVE  Follow(from, "none")[q] = "none"
BY DEF Follow

(* A step of process p leaves the others idle, with nothing open. *)
LEMMA OthersIdle ==
  ASSUME ~Overlap, IInv, NEW p \in Proc, Step(p), NEW q \in Proc, q # p
  PROVE  pc[q] = "idle" /\ pc'[q] = "idle" /\ at[q] = "none" /\ at'[q] = "none"
<1> USE DEF IInv, TypeOK, OneActs, TempFits
<1>1. pc[q] = "idle"
  BY DEF Step, CanStart, Create, Update, Delete, OpenBackup, FillBackup, BackupFault, Rotate,
     OpenTemp, FillTemp, WriteFault, Rename, Recover, RecoverNothing, Sweep, Crash
<1>2. at[q] = "none"
  BY <1>1
<1>3. CASE Create(p) \/ Update(p) \/ Recover(p) \/ RecoverNothing(p)
  BY <1>1, <1>2, <1>3 DEF Create, Update, Recover, RecoverNothing
<1>4. CASE OpenBackup(p) \/ FillBackup(p) \/ BackupFault(p) \/ Rotate(p)
  BY <1>1, <1>2, <1>4 DEF OpenBackup, FillBackup, BackupFault, Rotate, Return
<1>5. CASE OpenTemp(p) \/ FillTemp(p) \/ WriteFault(p) \/ Crash(p)
  BY <1>1, <1>2, <1>5 DEF OpenTemp, FillTemp, WriteFault, Crash, Return, Follow
<1>6. CASE Rename(p)
  BY <1>1, <1>2, <1>6 DEF Rename, Return
<1>7. CASE Sweep(p) \/ Delete(p)
  <2>1. at' = at \/ at' = Follow("temp", "none") \/ at' = Follow("main", "none")
    BY <1>7 DEF Sweep, Delete
  <2>2. at'[q] = "none"
    <3>1. CASE at' = at
      BY <1>2, <3>1
    <3>2. CASE at' = Follow("temp", "none")
      BY <1>2, <3>2, NothingToFollow
    <3>3. CASE at' = Follow("main", "none")
      BY <1>2, <3>3, NothingToFollow
    <3> QED BY <2>1, <3>1, <3>2, <3>3
  <2>3. pc'[q] = "idle"
    BY <1>1, <1>7 DEF Sweep, Delete, Return
  <2> QED BY <1>1, <1>2, <2>2, <2>3
<1> QED BY <1>1, <1>2, <1>3, <1>4, <1>5, <1>6, <1>7 DEF Step

(* What recover() would restore depends on the backups alone. *)
LEMMA SameBackups ==
  ASSUME backups' = backups
  PROVE  NewestReadable' = NewestReadable
BY DEF NewestReadable, Readable

(* A step keeps what the acting process knows of the files. *)
LEMMA ActorFits ==
  ASSUME ~Overlap, IInv, NEW p \in Proc, Step(p)
  PROVE  /\ at'[p] = IF pc'[p] \in {"fill", "fill restore"} THEN "temp" ELSE "none"
         /\ pc'[p] \in {"rename", "rename restore"} => temp' = doc'[p]
         /\ MainIsLastWrite'
         /\ pc'[p] \in {"restore", "fill restore", "rename restore"} =>
              main' = Torn /\ doc'[p] = NewestReadable'
<1> USE ContentKinds DEF IInv, TypeOK, TempFits, MainIsLastWrite, RestoresTorn
<1>1. CASE Create(p) \/ Update(p) \/ RecoverNothing(p)
  BY <1>1 DEF Create, Update, RecoverNothing, CanStart
<1>8. CASE Recover(p)
  BY <1>8, SameBackups DEF Recover, CanStart
<1>2. CASE OpenBackup(p) \/ FillBackup(p) \/ BackupFault(p) \/ Rotate(p)
  BY <1>2 DEF OpenBackup, FillBackup, BackupFault, Rotate, Return
<1>3. CASE OpenTemp(p)
  BY <1>3, SameBackups DEF OpenTemp, StepAfter
<1>4. CASE FillTemp(p)
  BY <1>4, SameBackups DEF FillTemp, StepAfter
<1>5. CASE WriteFault(p) \/ Crash(p)
  <2>1. /\ at'[p] = "none" /\ main' = main /\ cur' = cur
        /\ pc'[p] \in {"idle", "sweep"}
    BY <1>5 DEF WriteFault, Crash, Return, Follow
  <2> QED BY <2>1
<1>6. CASE Rename(p)
  BY <1>6 DEF Rename, Return, DocsKnown
<1>7. CASE Sweep(p)
  <2>1. pc'[p] = "idle" /\ main' = main /\ cur' = cur
    BY <1>7 DEF Sweep, Return
  <2>2. at[p] = "none"
    BY <1>7 DEF Sweep
  <2>3. at' = at \/ at' = Follow("temp", "none")
    BY <1>7 DEF Sweep
  <2>4. Follow("temp", "none")[p] = "none"
    BY <2>2, NothingToFollow
  <2>5. at'[p] = "none"
    BY <2>2, <2>3, <2>4, Zenon
  <2> QED BY <2>1, <2>5
<1>9. CASE Delete(p)
  <2>1. pc[p] = "idle" /\ pc' = pc /\ main' = Absent
    BY <1>9 DEF Delete, CanStart
  <2>2. at[p] = "none"
    BY <2>1
  <2>3. at' = Follow("main", "none")
    BY <1>9 DEF Delete
  <2>4. Follow("main", "none")[p] = "none"
    BY <2>2, NothingToFollow
  <2>5. at'[p] = "none"
    BY <2>3, <2>4, Zenon
  <2> QED BY <2>1, <2>5
<1> QED BY <1>1, <1>2, <1>3, <1>4, <1>5, <1>6, <1>7, <1>8, <1>9 DEF Step

(* The invariant behind atomic writes is kept by every step. *)
LEMMA NextIInv ==
  ASSUME ~Overlap
  PROVE  IInv /\ [Next]_vars => IInv'
<1> SUFFICES ASSUME IInv, [Next]_vars PROVE IInv'
  OBVIOUS
<1>1. TypeOK' /\ DocsKnown'
  BY NextTypes DEF IInv
<1>2. ASSUME NEW p \in Proc, Step(p) PROVE IInv'
  <2>1. \A q \in Proc : q # p => pc'[q] = "idle" /\ at'[q] = "none"
    BY <1>2, OthersIdle
  <2>2. OneActs'
    BY <2>1 DEF OneActs
  <2>3. TempFits' /\ MainIsLastWrite' /\ RestoresTorn'
    BY <1>2, <2>1, ActorFits DEF TempFits, RestoresTorn
  <2> QED BY <1>1, <2>2, <2>3 DEF IInv
<1>3. CASE Spoil
  BY <1>1, <1>3, ContentKinds, SameBackups DEF Spoil, IInv, OneActs, TempFits, MainIsLastWrite,
     RestoresTorn
<1>4. CASE UNCHANGED vars
  BY <1>1, <1>4, SameBackups DEF vars, IInv, OneActs, TempFits, MainIsLastWrite, RestoresTorn
<1> QED BY <1>2, <1>3, <1>4 DEF Next

(* The invariant holds in every reachable state. *)
LEMMA Inductive ==
  ASSUME ~Overlap
  PROVE  Spec => []IInv
<1>1. Init => IInv
  BY InitTypes, ContentKinds DEF Init, IInv, OneActs, TempFits, MainIsLastWrite, RestoresTorn
<1>2. IInv /\ [Next]_vars => IInv'
  BY NextIInv
<1> QED BY <1>1, <1>2, PTL DEF Spec

(* The main file never is a left-over of an earlier write, whatever process *)
(* died or failed where, if operations do not overlap. *)
THEOREM LastWriteWins ==
  ASSUME ~Overlap
  PROVE  Spec => []MainIsLastWrite
<1>1. IInv => MainIsLastWrite
  BY DEF IInv
<1> QED BY <1>1, Inductive, PTL

(* No crash and no failing file access of the program tears the main file.  *)
THEOREM WritesAreAtomic ==
  ASSUME ~Overlap
  PROVE  Spec => OnlyOutsideTears
<1>1. ASSUME IInv, Next, main' = Torn, main # Torn
      PROVE  Spoil
  <2>1. ASSUME NEW p \in Proc, Step(p) PROVE main' # Torn
    <3> USE <1>1, <2>1, ContentKinds DEF IInv, TypeOK
    <3>1. CASE FillTemp(p)
      BY <3>1 DEF FillTemp, TempFits
    <3>2. CASE Rename(p)
      <4>1. main' = doc[p] /\ doc[p] \in Version
        BY <3>2 DEF Rename, TempFits, DocsKnown
      <4> QED BY <4>1
    <3>3. CASE Delete(p)
      BY <3>3 DEF Delete
    <3>4. CASE ~(FillTemp(p) \/ Rename(p) \/ Delete(p))
      <4>1. main' = main
        BY <3>4 DEF Step, Create, Update, OpenBackup, FillBackup, BackupFault, Rotate,
           OpenTemp, WriteFault, Recover, RecoverNothing, Sweep, Crash
      <4> QED BY <4>1
    <3> QED BY <3>1, <3>2, <3>3, <3>4
  <2> QED BY <1>1, <2>1 DEF Next
<1>2. IInv /\ [Next]_vars => [main' = Torn /\ main # Torn => Spoil]_vars
  BY <1>1
<1> QED BY <1>2, Inductive, PTL DEF Spec, OnlyOutsideTears

(* What recover() puts in place is the newest backup that can be read, and  *)
(* at the time of the rename the main file still is not readable: no        *)
(* profile that could be read is lost to a recovery. *)
THEOREM RecoverySavesOnly ==
  ASSUME ~Overlap
  PROVE  Spec => RecoverySavesNewest
<1>1. ASSUME IInv, NEW p \in Proc, pc[p] = "rename restore", Rename(p)
      PROVE  ~Readable(main) /\ main' = NewestReadable
  <2>1. main = Torn /\ doc[p] = NewestReadable /\ temp = doc[p]
    BY <1>1 DEF IInv, RestoresTorn, TempFits
  <2> QED BY <1>1, <2>1, ContentKinds DEF Rename, Readable
<1>2. IInv /\ [Next]_vars =>
        [\A p \in Proc : pc[p] = "rename restore" /\ Rename(p)
                         => ~Readable(main) /\ main' = NewestReadable]_vars
  BY <1>1
<1> QED BY <1>2, Inductive, PTL DEF Spec, RecoverySavesNewest

-----------------------------------------------------------------------------
(* What recover() would restore. *)

(* Documents are numbered by naturals. *)
LEMMA Numbers ==
  ASSUME TypeOK
  PROVE  last \in Nat /\ DOMAIN backups \subseteq Nat
<1>1. Version \subseteq Nat /\ 0 .. MaxVersion \subseteq Nat
  BY VersionAssumption DEF Version
<1>2. DOMAIN backups \subseteq Version /\ last \in 0 .. MaxVersion
  BY DEF TypeOK
<1> QED BY <1>1, <1>2

(* restoreNewestValidBackup finds the newest backup that can be read. *)
LEMMA NewestIs ==
  ASSUME TypeOK, NEW w, Newest(w)
  PROVE  NewestReadable = backups[w]
<1> DEFINE readable == {v \in DOMAIN backups : Readable(backups[v])}
<1>1. w \in readable /\ \A v \in readable : v <= w
  BY DEF Newest
<1>2. readable \subseteq Nat
  BY Numbers
<1>3. Max(readable) = w
  <2>1. \A x \in readable : (\A y \in readable : x >= y) => x = w
    BY <1>1, <1>2
  <2>2. \A y \in readable : w >= y
    BY <1>1, <1>2
  <2> HIDE DEF readable
  <2> QED BY <1>1, <2>1, <2>2 DEF Max
<1>4. NewestReadable = IF readable = {} THEN Absent ELSE backups[Max(readable)]
  BY DEF NewestReadable
<1> HIDE DEF readable
<1> QED BY <1>1, <1>3, <1>4

(* Rotation never removes the newest backup. *)
LEMMA NewestStays ==
  ASSUME TypeOK, \A w \in DOMAIN backups : w <= last
  PROVE  last \notin Excess
<1>1. {v \in DOMAIN backups : v > last} = {}
  BY Numbers
<1>2. Cardinality({}) = 0
  BY FS_EmptySet
<1> QED BY <1>1, <1>2, RotationAssumption DEF Excess

(* Steps that touch neither the backups nor the main file's history. *)
LEMMA CoverKept ==
  ASSUME UpdateCovered, backups' = backups, prev' = prev \/ prev' = 0, cur' = cur
  PROVE  UpdateCovered'
BY DEF UpdateCovered, Newest

(* What a step of p has to keep. *)
Fits(p) ==
  /\ pc[p] \notin {"backup", "fill backup", "rotate", "open", "fill", "rename"} => base[p] = 0
  /\ pc[p] \in {"backup", "fill backup"} \/ Updating(p) => doc[p] = last /\ base[p] = cur
  /\ pc[p] = "backup" => last \notin DOMAIN backups
  /\ pc[p] = "fill backup" => last \in DOMAIN backups /\ backups[last] = Torn
  /\ pc[p] = "rotate" => base[p] # 0
  /\ Updating(p) => Newest(last) /\ backups[last] = cur

Ordered == \A w \in DOMAIN backups : w <= last

(* UpdatesFit, process by process. *)
LEMMA SplitUpdates == UpdatesFit <=> Ordered /\ \A p \in Proc : Fits(p)
BY DEF UpdatesFit, Ordered, Fits

(* An operation that starts has the last number. *)
LEMMA StartFits ==
  ASSUME ~Overlap, BackupInv, NEW p \in Proc,
         Create(p) \/ Update(p) \/ Recover(p) \/ RecoverNothing(p) \/ Delete(p)
  PROVE  Ordered' /\ Fits(p)' /\ UpdateCovered'
<1>1. TypeOK /\ MainIsLastWrite /\ Ordered /\ Fits(p) /\ UpdateCovered
  BY SplitUpdates DEF BackupInv, IInv
<1>2. base[p] = 0 /\ backups' = backups /\ cur' = cur
  BY <1>1 DEF Fits, CanStart, Create, Update, Recover, RecoverNothing, Delete
<1>3. UpdateCovered'
  BY <1>1, <1>2, CoverKept DEF Create, Update, Recover, RecoverNothing, Delete
<1>4. last \in Nat /\ DOMAIN backups \subseteq Nat
  BY <1>1, Numbers
<1>5. CASE Create(p) \/ Update(p)
  <2>1. last' = last + 1 /\ doc'[p] = last'
    BY <1>1, <1>5 DEF Create, Update, TypeOK
  <2>2. Ordered' /\ last' \notin DOMAIN backups'
    BY <1>1, <1>2, <1>4, <2>1 DEF Ordered
  <2>3. CASE Create(p)
    <3>1. pc'[p] = "open" /\ base'[p] = 0
      BY <1>1, <1>2, <2>3 DEF Create, TypeOK
    <3> QED BY <1>3, <2>2, <3>1 DEF Fits, Updating
  <2>4. CASE Update(p)
    <3>1. pc'[p] = "backup" /\ base'[p] = main /\ main = cur
      BY <1>1, <2>4 DEF Update, TypeOK, MainIsLastWrite
    <3> QED BY <1>2, <1>3, <2>1, <2>2, <3>1 DEF Fits, Updating
  <2> QED BY <1>5, <2>3, <2>4
<1>6. CASE Recover(p) \/ RecoverNothing(p) \/ Delete(p)
  <2>1. base'[p] = 0 /\ last' = last /\ pc'[p] \in {"restore", "sweep", "idle"}
    BY <1>1, <1>2, <1>6 DEF Recover, RecoverNothing, Delete, CanStart, TypeOK
  <2> QED BY <1>1, <1>2, <1>3, <2>1 DEF Fits, Updating, Ordered
<1> QED BY <1>5, <1>6

(* The backup of an update is torn until it is the newest readable one. *)
LEMMA BackupFits ==
  ASSUME ~Overlap, BackupInv, NEW p \in Proc,
         OpenBackup(p) \/ FillBackup(p) \/ BackupFault(p) \/ Rotate(p)
  PROVE  Ordered' /\ Fits(p)' /\ UpdateCovered'
<1>1. TypeOK /\ DocsKnown /\ Ordered /\ Fits(p) /\ UpdateCovered
  BY SplitUpdates DEF BackupInv, IInv
<1>2. last' = last /\ cur' = cur /\ prev' = prev
  BY DEF OpenBackup, FillBackup, BackupFault, Rotate
<1>3. last \in Nat /\ DOMAIN backups \subseteq Nat
  BY <1>1, Numbers
<1>4. CASE OpenBackup(p)
  <2>1. /\ doc[p] = last /\ base[p] = cur /\ last \notin DOMAIN backups
        /\ pc'[p] = "fill backup" /\ base' = base /\ doc' = doc
    BY <1>1, <1>4 DEF OpenBackup, Fits, TypeOK
  <2>2. /\ DOMAIN backups' = DOMAIN backups \cup {last}
        /\ backups'[last] = Torn
        /\ \A w \in DOMAIN backups : backups'[w] = backups[w]
    BY <1>4, <2>1 DEF OpenBackup
  <2>3. Ordered'
    BY <1>1, <1>2, <1>3, <2>2 DEF Ordered
  <2>4. \A w \in DOMAIN backups : Newest(w) => Newest(w)'
    BY <2>2, ContentKinds DEF Newest
  <2>5. UpdateCovered'
    BY <1>1, <1>2, <2>2, <2>4 DEF UpdateCovered
  <2> QED BY <1>2, <2>1, <2>2, <2>3, <2>5 DEF Fits, Updating
<1>5. CASE FillBackup(p)
  <2>1. /\ doc[p] = last /\ base[p] = cur /\ last \in DOMAIN backups
        /\ base[p] \in Version
        /\ pc'[p] = "rotate" /\ base' = base /\ doc' = doc
    BY <1>1, <1>5 DEF FillBackup, Fits, DocsKnown, TypeOK
  <2>2. DOMAIN backups' = DOMAIN backups /\ backups'[last] = cur
    BY <1>5, <2>1 DEF FillBackup
  <2>3. Ordered'
    BY <1>1, <1>2, <2>2 DEF Ordered
  <2>4. Newest(last)'
    BY <1>2, <2>1, <2>2, <2>3 DEF Newest, Ordered
  <2>5. UpdateCovered'
    BY <1>2, <2>1, <2>2, <2>4 DEF UpdateCovered
  <2>6. base[p] # 0
    BY <2>1 DEF Version
  <2> QED BY <1>2, <2>1, <2>2, <2>3, <2>4, <2>5, <2>6 DEF Fits, Updating
<1>6. CASE BackupFault(p)
  <2>1. pc'[p] = "idle" /\ base'[p] = 0 /\ backups' = backups
    BY <1>1, <1>6 DEF BackupFault, Return, TypeOK
  <2> QED BY <1>1, <1>2, <2>1, CoverKept DEF Fits, Updating, Ordered
<1>7. CASE Rotate(p)
  <2>1. PICK removed \in SUBSET Excess :
          backups' = [w \in DOMAIN backups \ removed |-> backups[w]]
    BY <1>7 DEF Rotate
  <2>2. /\ doc[p] = last /\ base[p] = cur /\ base[p] # 0
        /\ Newest(last) /\ backups[last] = cur
        /\ pc'[p] = "open" /\ base' = base /\ doc' = doc
    BY <1>1, <1>7 DEF Rotate, Fits, Updating, TypeOK
  <2>3. last \notin removed
    BY <1>1, <2>1, NewestStays DEF Ordered
  <2>4. Ordered' /\ Newest(last)' /\ backups'[last] = cur
    BY <1>1, <1>2, <2>1, <2>2, <2>3 DEF Ordered, Newest
  <2>5. UpdateCovered'
    BY <1>2, <2>4 DEF UpdateCovered, Newest
  <2> QED BY <1>2, <2>2, <2>4, <2>5 DEF Fits, Updating
<1> QED BY <1>4, <1>5, <1>6, <1>7

(* The rename of an update makes its backup the document it replaced. *)
LEMMA WriteFits ==
  ASSUME ~Overlap, BackupInv, NEW p \in Proc,
         \/ OpenTemp(p) \/ FillTemp(p) \/ WriteFault(p) \/ Rename(p)
         \/ Sweep(p) \/ Crash(p)
  PROVE  Ordered' /\ Fits(p)' /\ UpdateCovered'
<1>1. TypeOK /\ Ordered /\ Fits(p) /\ UpdateCovered
  BY SplitUpdates DEF BackupInv, IInv
<1>2. last' = last /\ backups' = backups
  BY DEF OpenTemp, FillTemp, WriteFault, Rename, Sweep, Crash
<1>3. Ordered'
  BY <1>1, <1>2 DEF Ordered
<1>4. CASE OpenTemp(p) \/ FillTemp(p)
  <2>1. /\ base' = base /\ doc' = doc /\ cur' = cur /\ prev' = prev
        /\ \/ pc[p] \in {"open", "fill"} /\ pc'[p] \in {"fill", "rename"}
           \/ pc[p] \in {"restore", "fill restore"} /\ pc'[p] \in {"fill restore", "rename restore"}
    BY <1>1, <1>4 DEF OpenTemp, FillTemp, StepAfter, TypeOK
  <2> QED BY <1>1, <1>2, <1>3, <2>1, CoverKept DEF Fits, Updating, Newest
<1>5. CASE WriteFault(p) \/ Sweep(p) \/ Crash(p)
  <2>1. pc'[p] \in {"idle", "sweep"} /\ base'[p] = 0 /\ cur' = cur /\ prev' = prev
    BY <1>1, <1>5 DEF WriteFault, Sweep, Crash, Return, Fits, TypeOK
  <2> QED BY <1>1, <1>2, <1>3, <2>1, CoverKept DEF Fits, Updating
<1>6. CASE Rename(p)
  <2>1. CASE pc[p] = "rename restore"
    <3>1. pc'[p] = "sweep" /\ base'[p] = 0 /\ prev' = 0
      BY <1>1, <1>6, <2>1 DEF Rename, Fits, TypeOK
    <3> QED BY <1>3, <3>1 DEF Fits, Updating, UpdateCovered
  <2>2. CASE pc[p] = "rename"
    <3>1. pc'[p] = "idle" /\ base'[p] = 0 /\ prev' = base[p]
      BY <1>1, <1>6, <2>2 DEF Rename, Return, TypeOK
    <3>2. base[p] # 0 => Newest(last) /\ backups[last] = base[p]
      BY <1>1, <2>2 DEF Fits, Updating
    <3>3. UpdateCovered'
      BY <1>2, <3>1, <3>2 DEF UpdateCovered, Newest
    <3> QED BY <1>3, <3>1, <3>3 DEF Fits, Updating
  <2> QED BY <1>6, <2>1, <2>2 DEF Rename
<1> QED BY <1>4, <1>5, <1>6

(* Idle processes have no document to back up. *)
LEMMA OthersFit ==
  ASSUME ~Overlap, BackupInv, NEW p \in Proc, Step(p), NEW q \in Proc, q # p
  PROVE  Fits(q)'
<1>1. pc[q] = "idle" /\ pc'[q] = "idle"
  BY OthersIdle DEF BackupInv
<1>2. base[q] = 0 /\ TypeOK
  BY <1>1, SplitUpdates DEF BackupInv, IInv, Fits
<1>3. base'[q] = base[q]
  BY <1>2 DEF TypeOK, Step, Create, Update, Delete, OpenBackup, FillBackup, BackupFault, Rotate,
     OpenTemp, FillTemp, WriteFault, Rename, Recover, RecoverNothing, Sweep, Crash, Return
<1> QED BY <1>1, <1>2, <1>3 DEF Fits, Updating

(* Every step keeps the backups in step with the updates. *)
LEMMA NextBackups ==
  ASSUME ~Overlap
  PROVE  BackupInv /\ [Next]_vars => BackupInv'
<1> SUFFICES ASSUME BackupInv, [Next]_vars PROVE BackupInv'
  OBVIOUS
<1>1. IInv'
  BY NextIInv DEF BackupInv
<1>2. ASSUME NEW p \in Proc, Step(p) PROVE BackupInv'
  <2>1. Ordered' /\ Fits(p)' /\ UpdateCovered'
    BY <1>2, StartFits, BackupFits, WriteFits DEF Step
  <2>2. \A q \in Proc : Fits(q)'
    BY <1>2, <2>1, OthersFit
  <2>3. UpdatesFit'
    BY <2>1, <2>2 DEF UpdatesFit, Ordered, Fits
  <2> QED BY <1>1, <2>1, <2>3 DEF BackupInv
<1>3. CASE Spoil
  BY <1>1, <1>3 DEF Spoil, BackupInv, UpdatesFit, UpdateCovered, Updating, Newest
<1>4. CASE UNCHANGED vars
  BY <1>1, <1>4 DEF vars, BackupInv, UpdatesFit, UpdateCovered, Updating, Newest
<1> QED BY <1>2, <1>3, <1>4 DEF Next

(* recover() loses at most one update: the newest readable backup is the    *)
(* document the last update replaced, or the present one, in spite of       *)
(* rotation, torn backups and crashes. *)
THEOREM RecoveryLosesOneUpdate ==
  ASSUME ~Overlap
  PROVE  Spec => []BackupCoversUpdate
<1>1. Init => BackupInv
  <2> SUFFICES ASSUME Init PROVE BackupInv
    OBVIOUS
  <2>1. IInv
    BY InitTypes, ContentKinds DEF Init, IInv, OneActs, TempFits, MainIsLastWrite,
       RestoresTorn
  <2>2. DOMAIN backups = {} /\ prev = 0 /\ \A p \in Proc : pc[p] = "idle" /\ base[p] = 0
    BY DEF Init
  <2> QED BY <2>1, <2>2 DEF BackupInv, UpdatesFit, UpdateCovered, Updating
<1>2. BackupInv => BackupCoversUpdate
  BY NewestIs DEF BackupInv, IInv, UpdateCovered, BackupCoversUpdate
<1>3. BackupInv /\ [Next]_vars => BackupInv'
  BY NextBackups
<1> QED BY <1>1, <1>2, <1>3, PTL DEF Spec
=============================================================================
