------------------------------ MODULE Hardware ------------------------------
(***************************************************************************)
(* The probe of the host (packages/hardware): what is made of the answers  *)
(* of nvidia-smi and of the WMI queries, each of which may be missing,     *)
(* time out, fail or print garbage, and the fingerprint that ties evidence *)
(* to the machine.                                                         *)
(*                                                                         *)
(* A process prints a sequence of rows, or Garbage that does not parse; a  *)
(* row is Nothing where it is no object, and so is each of its fields that *)
(* is absent or of the wrong type.  Names of GPUs are numbers in the order *)
(* that sorts them.                                                        *)
(***************************************************************************)
EXTENDS Integers, Sequences, SequencesExt

CONSTANTS
  Nothing,   \* null
  Garbage    \* output that is no JSON

Present(seq) == SelectSeq(seq, LAMBDA x : x # Nothing)
Mapped(Op(_), seq) == [i \in DOMAIN seq |-> Op(seq[i])]
Or(x, y) == IF x = Nothing THEN y ELSE x

-----------------------------------------------------------------------------
(* exec.ts: what a collector sees of a process. *)

Run(process) ==
  CASE process.end = "missing" -> Nothing
    [] process.end = "late" -> [ok |-> FALSE, rows |-> <<>>]
    [] process.end = "failed" -> [ok |-> FALSE, rows |-> process.rows]
    [] process.end = "done" -> [ok |-> TRUE, rows |-> process.rows]

Ok(result) == result # Nothing /\ result.ok
Stdout(result) == IF result = Nothing THEN <<>> ELSE result.rows

(* parse.ts *)
parseCimJson(rows, Pick(_)) == IF rows = Garbage THEN Nothing ELSE Present(Mapped(Pick, rows))
IfOk(result, Pick(_)) == IF Ok(result) THEN parseCimJson(result.rows, Pick) ELSE Nothing

-----------------------------------------------------------------------------
(* gpu.ts: figures only of nvidia-smi, names of whatever was seen. *)

AsSet(names) == SetToSortSeq(ToSet(names), LAMBDA a, b : a < b)
Sorted(names) == SortSeq(names, LAMBDA a, b : a < b)
NamesIn(rows) == Present(Mapped(LAMBDA r : r.name, rows))

genericGpuNames(env) ==
  LET cim == parseCimJson(Stdout(Run(env.controllers)), LAMBDA r : r)
      registry == parseCimJson(Stdout(Run(env.registry)), LAMBDA r : r)
  IN  AsSet(Or(cim, <<>>) \o Or(registry, <<>>))

probeGpus(env) ==
  LET smi == Run(env.smi)
      gpus == SelectSeq(smi.rows, LAMBDA r : Nothing \notin {r.name, r.total, r.free})
  IN  IF ~Ok(smi) THEN [gpus |-> Nothing, names |-> genericGpuNames(env)]
      ELSE IF gpus # <<>> THEN [gpus |-> gpus, names |-> Sorted(NamesIn(gpus))]
      ELSE [gpus |-> Nothing, names |-> AsSet(NamesIn(smi.rows) \o genericGpuNames(env))]

-----------------------------------------------------------------------------
(* The join of the four disk tables. *)

toVolumeFromCim(row) ==
  IF row = Nothing \/ Nothing \in {row.id, row.size, row.free} THEN Nothing
  ELSE [row EXCEPT !.driveType = IF row.driveType \in {2, 3} THEN row.driveType ELSE Nothing]
toDiskDriveFromCim(row) == IF row = Nothing \/ row.id = Nothing THEN Nothing ELSE row

(* One end of an association row, whichever side it stands on. *)
endpoint(target, class) == IF target # Nothing /\ target.class = class THEN target.id ELSE Nothing
End(pair, class) == Or(endpoint(pair.antecedent, class), endpoint(pair.dependent, class))

(* The last row of a key wins, as in a Map that is filled row by row. *)
LastWhere(seq, Test(_)) ==
  LET found == SelectSeq(seq, Test) IN IF found = <<>> THEN Nothing ELSE Last(found)
Across(pairs, from, id, to) ==
  IF id = Nothing THEN Nothing
  ELSE LET pair == LastWhere(pairs, LAMBDA p : End(p, from) = id /\ End(p, to) # Nothing)
       IN  IF pair = Nothing THEN Nothing ELSE End(pair, to)

classifyExternal(driveType, drive) ==
  CASE driveType = 2 -> TRUE
    [] driveType # 2 /\ (driveType # 3 \/ drive = Nothing) -> Nothing
    [] OTHER ->
         IF drive.interface = "USB" \/ drive.pnp = "USBSTOR" THEN TRUE
         ELSE IF drive.media \in {"EXTERNAL", "REMOVABLE"} THEN TRUE
         ELSE IF drive.media \notin {Nothing, "UNKNOWN"} THEN FALSE
         ELSE IF drive.interface \notin {Nothing, "UNKNOWN"} \/ drive.pnp # Nothing THEN FALSE
         ELSE Nothing

joinVolumeDetails(disks, drives, diskToPartition, logicalToPartition) ==
  LET Drive(volume) ==
        LET partition == Across(logicalToPartition, "LogicalDisk", volume.id, "Partition")
            disk == Across(diskToPartition, "Partition", partition, "DiskDrive")
        IN  IF disk = Nothing THEN Nothing ELSE LastWhere(drives, LAMBDA d : d.id = disk)
      Joined(volume) ==
        LET drive == Drive(volume)
        IN  [mount |-> volume.id, total |-> volume.size, available |-> volume.free,
             driveType |-> volume.driveType,
             bus |-> IF drive = Nothing THEN Nothing ELSE drive.interface,
             model |-> IF drive = Nothing THEN Nothing ELSE drive.model,
             external |-> classifyExternal(volume.driveType, drive)]
  IN  Mapped(Joined, disks)

(* volumes.ts: the joined rows, or the volume of the home directory alone. *)
probeVolumes(env) ==
  LET rows == IfOk(Run(env.logical), toVolumeFromCim)
      Table(process, Pick(_)) == Or(IfOk(Run(process), Pick), <<>>)
  IN  IF rows \notin {Nothing, <<>>} THEN
        joinVolumeDetails(rows, Table(env.drives, toDiskDriveFromCim),
                          Table(env.diskToPartition, LAMBDA r : r),
                          Table(env.logicalToPartition, LAMBDA r : r))
      ELSE IF Nothing \in {env.homeRoot, env.statfs} THEN Nothing
      ELSE <<[mount |-> env.homeRoot, total |-> env.statfs.blocks * env.statfs.bsize,
              available |-> env.statfs.bavail * env.statfs.bsize, driveType |-> Nothing,
              bus |-> Nothing, model |-> Nothing, external |-> Nothing]>>

-----------------------------------------------------------------------------
(* power.ts: 1 is discharging, no row no battery; anything unusable is unknown. *)

parseBatteryStatus(rows) ==
  CASE rows = Garbage -> Nothing
    [] rows = <<>> -> FALSE
    [] OTHER -> IF Head(rows) = Nothing THEN Nothing ELSE Head(rows) = 1
probePower(env) ==
  IF Ok(Run(env.battery)) THEN parseBatteryStatus(Run(env.battery).rows) ELSE Nothing

(* os-info.ts *)
probePhysicalCores(env) ==
  LET rows == Or(IfOk(Run(env.processors), LAMBDA n : IF n \in Nat \ {0} THEN n ELSE Nothing), <<>>)
  IN  IF rows = <<>> THEN Nothing ELSE Head(rows)
probeOsInfo(env) ==
  [os |-> env.os.label, arch |-> env.os.arch,
   cpuModel |-> IF env.os.cpus = <<>> THEN Nothing ELSE Head(env.os.cpus),
   threads |-> IF env.os.cpus = <<>> THEN Nothing ELSE Len(env.os.cpus)]

-----------------------------------------------------------------------------
(* probe.ts, fingerprint.ts: the profile, and what of it is digested. *)

canonicalFingerprint(os, cores, memory, names, volumes) ==
  [os |-> os, cores |-> cores, memory |-> memory, gpus |-> Sorted(names),
   volumes |-> SortSeq(Mapped(LAMBDA v : v.total, volumes), LAMBDA a, b : a < b)]

probeHardware(env) ==
  LET os == probeOsInfo(env)
      cores == probePhysicalCores(env)
      gpus == probeGpus(env)
      volumes == probeVolumes(env)
      memory == IF env.os.totalmem > 0 THEN env.os.totalmem ELSE Nothing
  IN  [os |-> os.os, cpu |-> [model |-> os.cpuModel, cores |-> cores, threads |-> os.threads],
       memory |-> memory, gpus |-> gpus.gpus, volumes |-> volumes, power |-> probePower(env),
       fingerprint |-> canonicalFingerprint(os, cores, memory, gpus.names, Or(volumes, <<>>))]
=============================================================================
