---------------------------- MODULE ProfileStore ----------------------------
(***************************************************************************)
(* One profile in the store of packages/profile-store: its main file, the  *)
(* temporary file next to it, and its backups.  The CLI and the sidecar    *)
(* are processes that create, update, delete and recover it (doctor), one  *)
(* file access at a time.  A process may die between any two accesses, and *)
(* most accesses may fail.  Every process uses the same temporary name     *)
(* (<id>.json.tmp-1), and a file that is renamed while another process has *)
(* it open stays open under its new name.                                  *)
(*                                                                         *)
(* A document is the number of the operation that wrote it.  No caller of  *)
(* create() passes overwrite, so it always starts from a missing file.     *)
(***************************************************************************)
EXTENDS Naturals, FiniteSets, FiniteSetsExt

CONSTANTS
  Proc,
  MaxVersion,   \* bound on the documents written
  BackupCount,  \* backups kept by rotation (20 in the code)
  Overlap,      \* may operations of two processes overlap in time?
  Absent, Torn  \* no file; a file that cannot be read as a profile

Version == 1 .. MaxVersion

ASSUME VersionAssumption == MaxVersion \in Nat
ASSUME RotationAssumption == BackupCount \in Nat \ {0}
ASSUME OverlapAssumption == Overlap \in BOOLEAN
ASSUME ContentAssumption == Absent # Torn /\ {Absent, Torn} \cap Nat = {}

VARIABLES
  main, temp,  \* content of <id>.json and of <id>.json.tmp-1
  backups,     \* content of each backup, by the version whose write it preceded
  pc,
  doc,         \* the document an operation is writing
  base,        \* the document update() has read
  at,          \* where the temporary file a process has open is by now
  swept,       \* did recover() list the temporary file?
  last,        \* number of the last document
  cur,         \* history: the document the last rename put in place
  prev         \* history: the one it replaced, if it was an update

vars == <<main, temp, backups, pc, doc, base, at, swept, last, cur, prev>>
own  == <<doc, base, at, swept>>
past == <<cur, prev>>

Content == Version \cup {Absent, Torn}

TypeOK ==
  /\ {main, temp} \subseteq Content
  /\ DOMAIN backups \subseteq Version /\ \A w \in DOMAIN backups : backups[w] \in Content \ {Absent}
  /\ pc \in [Proc -> {"idle", "backup", "fill backup", "rotate", "open", "fill", "rename",
                      "restore", "fill restore", "rename restore", "sweep"}]
  /\ doc \in [Proc -> Version \cup {0}]
  /\ base \in [Proc -> Version \cup {0}]
  /\ at \in [Proc -> {"none", "temp", "main"}]
  /\ swept \in [Proc -> BOOLEAN]
  /\ last \in 0 .. MaxVersion
  /\ {cur, prev} \subseteq Version \cup {0}

Init ==
  /\ main = Absent /\ temp = Absent
  /\ backups = [w \in {} |-> Absent]
  /\ pc = [p \in Proc |-> "idle"]
  /\ doc = [p \in Proc |-> 0] /\ base = [p \in Proc |-> 0]
  /\ at = [p \in Proc |-> "none"]
  /\ swept = [p \in Proc |-> FALSE]
  /\ last = 0 /\ cur = 0 /\ prev = 0

-----------------------------------------------------------------------------
Readable(content) == content \in Version

Goto(p, label) == /\ pc' = [pc EXCEPT ![p] = label]
                  /\ UNCHANGED <<doc, base, swept>>

(* The call returns, or its process dies, and its variables go. *)
Return(p) == /\ pc' = [pc EXCEPT ![p] = "idle"]
             /\ doc' = [doc EXCEPT ![p] = 0]
             /\ base' = [base EXCEPT ![p] = 0]
             /\ swept' = [swept EXCEPT ![p] = FALSE]

CanStart(p) == pc[p] = "idle" /\ (Overlap \/ \A q \in Proc : pc[q] = "idle")

(* Open handles follow a temporary file that is renamed over the main file, *)
(* and lose a file that is replaced or unlinked. *)
Follow(from, to) == [q \in Proc |-> IF at[q] = from THEN to ELSE at[q]]

(* create(): no file yet. *)
Create(p) ==
  /\ CanStart(p) /\ main = Absent
  /\ last < MaxVersion /\ last' = last + 1
  /\ doc' = [doc EXCEPT ![p] = last']
  /\ pc' = [pc EXCEPT ![p] = "open"]
  /\ UNCHANGED <<main, temp, backups, base, at, swept, past>>

(* (Faulty variant: a main file that cannot be read is updated all the same.) *)
UpdateUnreadable(p) ==
  /\ CanStart(p) /\ main # Absent
  /\ last < MaxVersion /\ last' = last + 1
  /\ doc' = [doc EXCEPT ![p] = last'] /\ base' = [base EXCEPT ![p] = main]
  /\ pc' = [pc EXCEPT ![p] = "backup"]
  /\ UNCHANGED <<main, temp, backups, at, swept, past>>
(* update(): the document is read before anything is written. *)
Update(p) ==
  /\ CanStart(p) /\ Readable(main)
  /\ last < MaxVersion /\ last' = last + 1
  /\ doc' = [doc EXCEPT ![p] = last'] /\ base' = [base EXCEPT ![p] = main]
  /\ pc' = [pc EXCEPT ![p] = "backup"]
  /\ UNCHANGED <<main, temp, backups, at, swept, past>>

(* writeBackup: the file name is the time stamp of the update. *)
OpenBackup(p) ==
  /\ pc[p] = "backup"
  /\ backups' = [w \in DOMAIN backups \cup {doc[p]} |-> IF w = doc[p] THEN Torn ELSE backups[w]]
  /\ Goto(p, "fill backup")
  /\ UNCHANGED <<main, temp, at, last, past>>

(* (Faulty variant: the backup holds the new document.) *)
FillBackupWithNew(p) ==
  /\ pc[p] = "fill backup"
  /\ backups' = [w \in DOMAIN backups \cup {doc[p]} |-> IF w = doc[p] THEN doc[p] ELSE backups[w]]
  /\ Goto(p, "rotate")
  /\ UNCHANGED <<main, temp, at, last, past>>
FillBackup(p) ==
  /\ pc[p] = "fill backup"
  /\ backups' = [w \in DOMAIN backups \cup {doc[p]} |-> IF w = doc[p] THEN base[p] ELSE backups[w]]
  /\ Goto(p, "rotate")
  /\ UNCHANGED <<main, temp, at, last, past>>

(* A backup that cannot be written ends the update. *)
BackupFault(p) ==
  /\ pc[p] \in {"backup", "fill backup"}
  /\ Return(p)
  /\ UNCHANGED <<main, temp, backups, at, last, past>>

(* The backups rotation removes: all but the newest BackupCount. *)
Excess == {w \in DOMAIN backups :
             Cardinality({v \in DOMAIN backups : v > w}) >= BackupCount}

(* Each of them is unlinked if that works. *)
Rotate(p) ==
  /\ pc[p] = "rotate"
  /\ \E removed \in SUBSET Excess :
       backups' = [w \in DOMAIN backups \ removed |-> backups[w]]
  /\ Goto(p, "open")
  /\ UNCHANGED <<main, temp, at, last, past>>

-----------------------------------------------------------------------------
(* writeFileAtomic, by create(), update() and recover() *)

(* (Faulty variant: the rename does not wait for the data.) *)
StepAfterTooSoon(label) ==
  CASE label \in {"open", "fill"} -> "rename"
    [] label \in {"restore", "fill restore"} -> "rename restore"
StepAfter(label) ==
  CASE label = "open" -> "fill"            [] label = "fill" -> "rename"
    [] label = "restore" -> "fill restore" [] label = "fill restore" -> "rename restore"

(* (Faulty variant: a temporary file that is there already is kept.) *)
OpenTempIfAbsent(p) ==
  /\ pc[p] \in {"open", "restore"}
  /\ IF temp = Absent THEN temp' = Torn /\ at' = [at EXCEPT ![p] = "temp"]
                      ELSE UNCHANGED <<temp, at>>
  /\ Goto(p, StepAfter(pc[p]))
  /\ UNCHANGED <<main, backups, last, past>>
OpenTemp(p) ==
  /\ pc[p] \in {"open", "restore"}
  /\ temp' = Torn
  /\ at' = [at EXCEPT ![p] = "temp"]
  /\ Goto(p, StepAfter(pc[p]))
  /\ UNCHANGED <<main, backups, last, past>>

(* The data goes to the open file, whatever its name is by now. *)
FillTemp(p) ==
  /\ pc[p] \in {"fill", "fill restore"}
  /\ temp' = IF at[p] = "temp" THEN doc[p] ELSE temp
  /\ main' = IF at[p] = "main" THEN doc[p] ELSE main
  /\ at' = [at EXCEPT ![p] = "none"]
  /\ Goto(p, StepAfter(pc[p]))
  /\ UNCHANGED <<backups, last, past>>

(* A write, fsync or rename fails, and the temporary file is unlinked if    *)
(* that works.  recover() goes on. *)
WriteFault(p) ==
  /\ \/ pc[p] \in {"open", "fill", "rename"} /\ Return(p)
     \/ pc[p] \in {"restore", "fill restore", "rename restore"} /\ Goto(p, "sweep")
  /\ \/ temp' = Absent /\ at' = [Follow("temp", "none") EXCEPT ![p] = "none"]
     \/ temp' = temp   /\ at' = [at EXCEPT ![p] = "none"]
  /\ UNCHANGED <<main, backups, last, past>>

Rename(p) ==
  /\ pc[p] \in {"rename", "rename restore"}
  /\ temp # Absent
  /\ main' = temp /\ temp' = Absent
  /\ at' = [q \in Proc |-> IF at[q] = "temp" THEN "main" ELSE "none"]
  /\ cur' = doc[p]
  /\ IF pc[p] = "rename"
     THEN Return(p) /\ prev' = base[p]
     ELSE Goto(p, "sweep") /\ prev' = 0
  /\ UNCHANGED <<backups, last>>

Delete(p) ==
  /\ CanStart(p) /\ main # Absent
  /\ main' = Absent
  /\ at' = Follow("main", "none")
  /\ prev' = 0
  /\ UNCHANGED <<temp, backups, pc, doc, base, swept, last, cur>>

-----------------------------------------------------------------------------
(* recover() *)

(* restoreNewestValidBackup *)
NewestReadable ==
  LET readable == {w \in DOMAIN backups : Readable(backups[w])}
  IN  IF readable = {} THEN Absent ELSE backups[Max(readable)]

(* (Faulty variant: the main file is not looked at.) *)
RecoverAlways(p) ==
  /\ CanStart(p)
  /\ Readable(NewestReadable)
  /\ doc' = [doc EXCEPT ![p] = NewestReadable]
  /\ swept' = [swept EXCEPT ![p] = temp # Absent]
  /\ pc' = [pc EXCEPT ![p] = "restore"]
  /\ UNCHANGED <<main, temp, backups, base, at, last, past>>
(* A main file that cannot be read is restored.  One that is missing is not:
   the loop that would re-create it lists the directory of backups, whose
   entries are directories, and the file system of production lists files
   only (index.ts). *)
Recover(p) ==
  /\ CanStart(p)
  /\ main = Torn /\ Readable(NewestReadable)
  /\ doc' = [doc EXCEPT ![p] = NewestReadable]
  /\ swept' = [swept EXCEPT ![p] = temp # Absent]
  /\ pc' = [pc EXCEPT ![p] = "restore"]
  /\ UNCHANGED <<main, temp, backups, base, at, last, past>>

(* It is left as it is when it is healthy, missing or has no readable backup. *)
RecoverNothing(p) ==
  /\ CanStart(p)
  /\ main # Torn \/ ~Readable(NewestReadable)
  /\ swept' = [swept EXCEPT ![p] = temp # Absent]
  /\ pc' = [pc EXCEPT ![p] = "sweep"]
  /\ UNCHANGED <<main, temp, backups, doc, base, at, last, past>>

(* The temporary file that recover() listed is unlinked if that works. *)
Sweep(p) ==
  /\ pc[p] = "sweep"
  /\ \/ swept[p] /\ temp' = Absent /\ at' = Follow("temp", "none")
     \/ UNCHANGED <<temp, at>>
  /\ Return(p)
  /\ UNCHANGED <<main, backups, last, past>>

-----------------------------------------------------------------------------
Crash(p) ==
  /\ pc[p] # "idle"
  /\ Return(p)
  /\ at' = [at EXCEPT ![p] = "none"]
  /\ UNCHANGED <<main, temp, backups, last, past>>

(* A disk error or an editor leaves a main file that cannot be read, or one *)
(* of a schema version this program does not know. *)
Spoil ==
  /\ Readable(main)
  /\ main' = Torn
  /\ UNCHANGED <<temp, backups, pc, own, last, past>>

Step(p) ==
  \/ Create(p) \/ Update(p) \/ Delete(p)
  \/ OpenBackup(p) \/ FillBackup(p) \/ BackupFault(p) \/ Rotate(p)
  \/ OpenTemp(p) \/ FillTemp(p) \/ WriteFault(p) \/ Rename(p)
  \/ Recover(p) \/ RecoverNothing(p) \/ Sweep(p)
  \/ Crash(p)

Next == (\E p \in Proc : Step(p)) \/ Spoil

Spec == Init /\ [][Next]_vars

-----------------------------------------------------------------------------
(* Only something outside the program makes a profile unreadable: neither a *)
(* crash nor a failing file access leaves a torn main file, which is what   *)
(* the temporary file and the rename are for. *)
OnlyOutsideTears == [][main' = Torn /\ main # Torn => Spoil]_vars

(* The main file is the document of the last write that was put in place:   *)
(* no left-over of an earlier write is ever renamed into place. *)
MainIsLastWrite == Readable(main) => main = cur

(* The newest backup that can be read is the document the last update       *)
(* replaced, or the present one if an update failed after its backup: so    *)
(* recover() never loses more than one update, in spite of rotation, torn   *)
(* backups and crashes. *)
BackupCoversUpdate == prev # 0 => NewestReadable \in {prev, cur}

(* recover() never writes over a document that can be read, also at the     *)
(* time of its rename, and what it puts in place is the newest backup that  *)
(* can be read, not an older one and not a half of it.  (That it does so    *)
(* for missing mains too, as the comments of store.ts have it, is not       *)
(* claimed: it restores none of those, see Recover.)                        *)
RecoverySavesNewest ==
  [][\A p \in Proc : pc[p] = "rename restore" /\ Rename(p)
                      => ~Readable(main) /\ main' = NewestReadable]_vars

-----------------------------------------------------------------------------
(* The inductive invariant behind the properties above, for operations of   *)
(* two processes that do not overlap. *)

(* A process that writes has a document to write, and an update has read    *)
(* one to back up. *)
DocsKnown ==
  \A p \in Proc :
    /\ pc[p] \notin {"idle", "sweep"} => doc[p] \in Version
    /\ pc[p] \in {"backup", "fill backup"} => base[p] \in Version

OneActs == \A p, q \in Proc : pc[p] # "idle" /\ pc[q] # "idle" => p = q

(* The temporary file of a write is open while it is filled, under its own  *)
(* name, and whole when it is renamed. *)
TempFits ==
  \A p \in Proc :
    /\ at[p] = IF pc[p] \in {"fill", "fill restore"} THEN "temp" ELSE "none"
    /\ pc[p] \in {"rename", "rename restore"} => temp = doc[p]

(* recover() writes the newest backup, where there is nothing to lose. *)
RestoresTorn ==
  \A p \in Proc :
    pc[p] \in {"restore", "fill restore", "rename restore"} =>
      main = Torn /\ doc[p] = NewestReadable

IInv ==
  /\ TypeOK
  /\ DocsKnown
  /\ OneActs
  /\ TempFits
  /\ MainIsLastWrite
  /\ RestoresTorn

(* The newest backup that can be read. *)
Newest(w) ==
  /\ w \in DOMAIN backups /\ Readable(backups[w])
  /\ \A v \in DOMAIN backups : Readable(backups[v]) => v <= w

Updating(p) == pc[p] \in {"rotate", "open", "fill", "rename"} /\ base[p] # 0

(* No backup is newer than the last document; an update first backs up the  *)
(* present document, under its own number, and then replaces it. *)
UpdatesFit ==
  /\ \A w \in DOMAIN backups : w <= last
  /\ \A p \in Proc :
       /\ pc[p] \notin {"backup", "fill backup", "rotate", "open", "fill", "rename"} => base[p] = 0
       /\ pc[p] \in {"backup", "fill backup"} \/ Updating(p) => doc[p] = last /\ base[p] = cur
       /\ pc[p] = "backup" => last \notin DOMAIN backups
       /\ pc[p] = "fill backup" => last \in DOMAIN backups /\ backups[last] = Torn
       /\ pc[p] = "rotate" => base[p] # 0
       /\ Updating(p) => Newest(last) /\ backups[last] = cur

(* The document an update replaced, or the present one, is in the newest    *)
(* readable backup. *)
UpdateCovered ==
  prev # 0 => \E w \in DOMAIN backups : Newest(w) /\ backups[w] \in {prev, cur}

BackupInv == IInv /\ UpdatesFit /\ UpdateCovered

=============================================================================
