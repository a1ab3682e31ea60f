------------------------------ MODULE Evidence ------------------------------
(***************************************************************************)
(* Where the mark "benchmarked" of a profile comes from.  Two writers:     *)
(* the optimization loop of the sidecar (core optimization-loop.ts behind  *)
(* the handlers optimization.* and optimize.save, with the index of        *)
(* default profiles, profile-store defaults.ts) and the batch command of   *)
(* the CLI (benchmark-all.ts).  Editors and deletes come in between, since *)
(* a measurement takes minutes.  A configuration stands for all that a     *)
(* benchmark measures and a recommendation varies, with the model and the  *)
(* scenario, its key; evidence is the configuration that the benchmark     *)
(* named in the profile measured.                                          *)
(***************************************************************************)
EXTENDS Naturals, Sequences, SequencesExt

CONSTANTS
  Id, Config, Key,
  KeyOf,            \* the model and scenario of a configuration
  SavedId,          \* the id optimize.save derives from a baseline's id
  Request,          \* calls of the sidecar in flight
  Batch,            \* what the CLI may be asked: ids in order, with --yes or not
  Decision,         \* what a call decides for its baseline and its candidate
  CacheSize,        \* preparations the sidecar remembers: 8
  MaxPrepared,      \* bound on preparations of a session
  MaxOutdated,      \* bound on profiles edited under or after measurement
  None, Corrupt

ASSUME EvidenceAssumption ==
  /\ KeyOf \in [Config -> Key] /\ SavedId \in [Id -> Id]
  /\ CacheSize \in Nat \ {0} /\ MaxPrepared \in Nat /\ MaxOutdated \in Nat
  /\ Decision \subseteq {"run", "skip"} \X {"run", "skip"}
  /\ \A b \in Batch : b.ids \in Seq(Id) /\ b.yes \in BOOLEAN
  /\ None \notin Id \cup Config \cup {Corrupt} /\ None \notin Nat

VARIABLES
  store,          \* the profile documents
  index,          \* profile-defaults.json
  request,        \* the calls of the sidecar
  preparations,   \* the map of prepared candidates, oldest first
  prepared,       \* preparationSequence
  saved,          \* preparations that were saved
  halfSaved,      \* profiles that a save wrote before it refused
  batch,          \* the benchmark-all command
  outdated        \* history: profiles edited since what their mark measured

vars == <<store, index, request, preparations, prepared, saved, halfSaved, batch, outdated>>
documents == <<store, outdated>>
memory == <<preparations, prepared, saved, halfSaved>>

Profile(c, e) == [config |-> c, evidence |-> e]
Idle == [pc |-> "idle"]

(* touched, history: the profile under measurement was written meanwhile. *)
NoBatch == [ids |-> <<>>, yes |-> FALSE, at |-> 1, measures |-> None, touched |-> FALSE,
            signal |-> FALSE, results |-> <<>>, exit |-> None]

Init ==
  /\ store \in [Id -> {None} \cup {Profile(c, None) : c \in Config}]
  /\ index \in {[k \in Key |-> None], Corrupt}
  /\ request = [r \in Request |-> Idle]
  /\ preparations = <<>> /\ prepared = 0 /\ saved = {}
  /\ halfSaved = {}
  /\ batch = NoBatch
  /\ outdated = {}

-----------------------------------------------------------------------------
(* The default index. *)

(* profileExists, the guard of defaults.set *)
Owns(id, k) == store'[id] # None /\ KeyOf[store'[id].config] = k

(* The index with id as the default of k; the write may fail. *)
SetDefaultIn(k, id) ==
  index # Corrupt /\ Owns(id, k) /\ index' = [index EXCEPT ![k] = id]

(* setDefault of the loop, and defaults.set *)
SetDefault(id) ==
  /\ store[id] # None
  /\ UNCHANGED documents
  /\ SetDefaultIn(KeyOf[store[id].config], id)
  /\ UNCHANGED <<request, memory, batch>>

-----------------------------------------------------------------------------
(* prepare: what a call holds while it waits for the host. *)

Goto(r, call) ==
  /\ request' = [request EXCEPT ![r] = call]
  /\ UNCHANGED <<documents, index, memory, batch>>

(* The baseline is read once, before the first wait; without a profile it  *)
(* is the safe baseline of a discovered model.  A call keeps its model and *)
(* scenario, and its mark.                                                 *)
Prepare(r, base, decision) ==
  /\ request[r].pc = "idle" /\ prepared < MaxPrepared
  /\ Goto(r, [pc |-> "preflight", key |-> KeyOf[base.config], mark |-> base.evidence,
              signal |-> FALSE, decided |-> decision])

PrepareSaved(r, id, d) == store[id] # None /\ Prepare(r, store[id], d)
PrepareModel(r, config, d) == Prepare(r, Profile(config, None), d)

(* The host may be unreachable, the estimate may fail, a benchmark may be  *)
(* refused: the call rejects and leaves nothing.                           *)
Rejects(r) == request[r].pc # "idle" /\ Goto(r, Idle)

Cancel(r) ==
  /\ request[r].pc # "idle" /\ ~request[r].signal
  /\ Goto(r, [request[r] EXCEPT !.signal = TRUE])

Preflighted(r) ==
  /\ request[r].pc = "preflight"
  /\ LET d == request[r].decided
     IN  Goto(r, [request[r] EXCEPT !.pc = IF d[1] = "run" THEN "baseline" ELSE "recommend",
                                    !.decided = <<d[2]>>])

(* How a benchmark run ends: canceled only when its signal was aborted. *)
Measured(signal) ==
  {"completed", "failed"} \cup (IF signal THEN {"canceled"} ELSE {})

(* rememberPreparation: the oldest gives way to the ninth. *)
Remember(p) ==
  LET kept == IF Len(preparations) >= CacheSize THEN Tail(preparations) ELSE preparations
  IN  preparations' = Append(kept, p)

(* The call ends with a preparation; several can finish in any order. *)
Finish(r, candidate, evidence) ==
  /\ prepared < MaxPrepared
  /\ prepared' = prepared + 1
  /\ Remember([seq |-> prepared + 1, candidate |-> candidate, evidence |-> evidence,
               inherits |-> IF evidence = "unmeasured" THEN request[r].mark ELSE None])
  /\ request' = [request EXCEPT ![r] = Idle]
  /\ UNCHANGED <<documents, index, saved, halfSaved, batch>>

BaselineMeasured(r) ==
  /\ request[r].pc = "baseline"
  /\ \E status \in Measured(request[r].signal) :
       IF status = "completed" THEN Goto(r, [request[r] EXCEPT !.pc = "recommend"])
                               ELSE Finish(r, None, status)

(* The recommendation: configurations of the same model and scenario, the  *)
(* head or the one the caller asked for; an unknown one rejects.           *)
Recommended(r) ==
  /\ request[r].pc = "recommend"
  /\ \/ request[r].signal /\ Finish(r, None, "canceled")
     \/ Finish(r, None, "not-run")
     \/ \E c \in Config :
          /\ KeyOf[c] = request[r].key
          /\ IF request[r].decided = <<"skip">> THEN Finish(r, c, "unmeasured")
             ELSE Goto(r, [request[r] EXCEPT !.pc = "candidate", !.decided = <<c>>])

CandidateMeasured(r) ==
  /\ request[r].pc = "candidate"
  /\ \E status \in Measured(request[r].signal) :
       Finish(r, request[r].decided[1], IF status = "completed" THEN "measured" ELSE status)

-----------------------------------------------------------------------------
(* save: from the remembered preparation to a document and a default. *)

(* Only a completed measurement marks; what the candidate inherited from   *)
(* its baseline is dropped.                                                *)
(* (Faulty variant: the mark of the baseline stays on the candidate.) *)
SavedProfileInherits(p) ==
  Profile(p.candidate, IF p.evidence = "measured" THEN p.candidate ELSE p.inherits)

SavedProfile(p) ==
  Profile(p.candidate, IF p.evidence = "measured" THEN p.candidate ELSE None)

(* The guards of save; the index is read before anything is written. *)
(* (Faulty variant: the index is first read to decide on the default.) *)
SavableUnread(p, id) ==
  p.candidate # None /\ p.evidence \in {"measured", "unmeasured"} /\ store[id] = None

Savable(p, id) ==
  /\ p.candidate # None /\ p.evidence \in {"measured", "unmeasured"}
  /\ index # Corrupt
  /\ store[id] = None

(* What the sidecar remembers after a save that succeeded, or did not. *)
(* (Faulty variant: the preparation is forgotten before it is saved.) *)
ForgottenFirst(i, ok) == RemoveAt(preparations, i)

Remembered(i, ok) == IF ok THEN RemoveAt(preparations, i) ELSE preparations

(* create() writes the document; then the index is read again and written  *)
(* when the profile becomes the default.  A failing write of the index is  *)
(* reported, and the document stays.  A refused save changes nothing.      *)
Created(i, id, setDefault) ==
  LET p == preparations[i]
      k == KeyOf[p.candidate]
      readable == index # Corrupt
      becomes == IF setDefault THEN TRUE ELSE readable => index[k] = None
  IN  /\ store' = [store EXCEPT ![id] = SavedProfile(p)]
      /\ \/ /\ IF becomes THEN SetDefaultIn(k, id) ELSE UNCHANGED index
            /\ preparations' = Remembered(i, TRUE)
            /\ saved' = saved \cup {p.seq}
            /\ UNCHANGED halfSaved
         \/ /\ becomes
            /\ halfSaved' = IF readable THEN halfSaved ELSE halfSaved \cup {id}
            /\ preparations' = Remembered(i, FALSE)
            /\ UNCHANGED <<index, saved>>

Save(i, id, setDefault) ==
  /\ Savable(preparations[i], id)
  /\ Created(i, id, setDefault)
  /\ UNCHANGED <<request, prepared, batch, outdated>>

(* optimize.save: recommends anew, then creates under the derived id; the  *)
(* result carries the mark of a rule, no measurement.                      *)
OptimizeSave(r, id) ==
  /\ request[r].pc = "idle" /\ store[id] # None
  /\ Goto(r, [pc |-> "optimize", signal |-> FALSE, key |-> KeyOf[store[id].config],
              id |-> SavedId[id]])

OptimizeSaved(r) ==
  /\ request[r].pc = "optimize" /\ store[request[r].id] = None
  /\ \E c \in Config :
       /\ KeyOf[c] = request[r].key
       /\ store' = [store EXCEPT ![request[r].id] = Profile(c, None)]
  /\ request' = [request EXCEPT ![r] = Idle]
  /\ UNCHANGED <<index, memory, batch, outdated>>

-----------------------------------------------------------------------------
(* benchmark-all: one profile after the other, each read when its turn     *)
(* comes and marked when its run ends.                                     *)

Run(b) == batch' = b /\ UNCHANGED <<index, request, memory>>
Exit(code) == Run([NoBatch EXCEPT !.exit = code])
Pending == batch.ids # <<>> /\ batch.exit = None

Start(b) ==
  /\ batch = NoBatch
  /\ Run([NoBatch EXCEPT !.ids = b.ids, !.yes = b.yes])
  /\ UNCHANGED documents

Interrupt ==
  /\ Pending /\ ~batch.signal
  /\ Run([batch EXCEPT !.signal = TRUE])
  /\ UNCHANGED documents

Aborted(b) == b.results # <<>> /\ Last(b.results).status = "canceled"

(* 2 when the batch was canceled, whoever noticed it *)
(* (Faulty variant: only a canceled last result counts.) *)
ExitCodeOfLast(b) == IF Aborted(b) THEN 2 ELSE 0

ExitCode(b) == IF b.signal THEN 2 ELSE ExitCodeOfLast(b)

(* The next profile: skipped when canceled, 4 when it does not exist. *)
Next1 ==
  /\ Pending /\ batch.measures = None
  /\ UNCHANGED documents
  /\ IF batch.at > Len(batch.ids) \/ Aborted(batch) \/ batch.signal
     THEN Exit(ExitCode(batch))
     ELSE LET id == batch.ids[batch.at]
          IN  IF store[id] = None THEN Exit(4)
              ELSE Run([batch EXCEPT !.measures = store[id].config])

(* History: whether the mark of a profile is of an earlier document. *)
Outdated(id, is) == IF is THEN outdated \cup {id} ELSE outdated \ {id}

(* stampBenchmarked: store.update of whatever the id holds now. *)
Stamps(status) == batch.yes /\ status = "completed"

(* (Faulty variant: every run that ends marks the profile.) *)
StampsAnyway(status) == batch.yes

Ends ==
  /\ Pending /\ batch.measures # None
  /\ \E status \in Measured(batch.signal) :
       LET id == batch.ids[batch.at]
           stamped == Stamps(status)
           result == [id |-> id, status |-> status, stamped |-> stamped]
       IN  IF stamped /\ store[id] = None
           THEN Exit(4) /\ UNCHANGED documents
           ELSE /\ Run([batch EXCEPT !.at = @ + 1, !.measures = None, !.touched = FALSE,
                                     !.results = Append(@, result)])
                /\ IF stamped
                   THEN /\ store' = [store EXCEPT ![id].evidence = batch.measures]
                        /\ outdated' = Outdated(id, batch.touched)
                   ELSE UNCHANGED documents

(* Battery, lock or preflight refuse the run, or the stamp cannot be written. *)
Guarded ==
  /\ Pending /\ batch.measures # None
  /\ Exit(4)
  /\ UNCHANGED documents

-----------------------------------------------------------------------------
(* The other calls: profiles.update, profiles.delete, profiles.create. *)

Measuring(id) == Pending /\ batch.measures # None /\ batch.ids[batch.at] = id

Write(id, p) ==
  /\ store' = [store EXCEPT ![id] = p]
  /\ batch' = IF Measuring(id) THEN [batch EXCEPT !.touched = TRUE] ELSE batch
  /\ UNCHANGED <<index, request, memory>>

(* The patch of an editor merges: the mark of the document stays. *)
Update(id, c) ==
  /\ store[id] # None
  /\ Write(id, [store[id] EXCEPT !.config = c])
  /\ outdated' = Outdated(id, id \in outdated \/ store[id].evidence # None)
  /\ Cardinality(outdated') <= MaxOutdated

(* The index keeps its entry. *)
Delete(id) == store[id] # None /\ Write(id, None) /\ outdated' = Outdated(id, FALSE)

Create(id, c) ==
  /\ store[id] = None
  /\ Write(id, Profile(c, None))
  /\ UNCHANGED outdated

Sidecar(r) ==
  \/ \E d \in Decision :
       \/ \E id \in Id : PrepareSaved(r, id, d)
       \/ \E config \in Config : PrepareModel(r, config, d)
  \/ Rejects(r) \/ Cancel(r)
  \/ Preflighted(r) \/ BaselineMeasured(r) \/ Recommended(r) \/ CandidateMeasured(r)
  \/ \E id \in Id : OptimizeSave(r, id)
  \/ OptimizeSaved(r)

Cli ==
  \/ \E b \in Batch : Start(b)
  \/ Interrupt \/ Next1 \/ Ends \/ Guarded

Next ==
  \/ \E r \in Request : Sidecar(r)
  \/ \E i \in DOMAIN preparations, id \in Id, d \in BOOLEAN : Save(i, id, d)
  \/ Cli
  \/ \E id \in Id :
       \/ SetDefault(id) \/ Delete(id)
       \/ \E c \in Config : Update(id, c) \/ Create(id, c)

Spec == Init /\ [][Next]_vars

-----------------------------------------------------------------------------
(* Properties. *)

(* A profile marked as benchmarked has the configuration that its          *)
(* benchmark measured, or it was edited itself since that measurement      *)
(* began: no save of a measured or skipped candidate, of a candidate of a  *)
(* marked baseline, no batch and no recommendation marks what was not      *)
(* measured.  An edit keeps the mark, and a batch marks what it finds at   *)
(* the end of its run (benchmark-common.ts): the code lets these two       *)
(* happen, and only these.                                                 *)
BenchmarkedWasMeasured ==
  \A id \in Id :
    store[id] # None /\ store[id].evidence \notin {None, store[id].config} => id \in outdated

(* A preparation the window was given can be saved until CacheSize newer   *)
(* ones were prepared.                                                     *)
EvictedIsOld ==
  \A s \in 1 .. prepared :
    \/ s \in saved
    \/ \E i \in DOMAIN preparations : preparations[i].seq = s
    \/ prepared - s >= CacheSize

(* A corrupted index is noticed before the profile is written: only a      *)
(* failing write of the index makes a save that reports a failure leave a  *)
(* profile behind.                                                         *)
RefusedSaveLeavesNothing == halfSaved = {}

(* benchmark-all answers 0 only when every profile it was asked for ran to *)
(* an end that was not a cancel, and every completed one was marked if     *)
(* that was asked.                                                         *)
ZeroMeansAll ==
  [][batch.exit = None /\ batch'.exit = 0 =>
       /\ [i \in DOMAIN batch.results |-> batch.results[i].id] = batch.ids
       /\ \A i \in DOMAIN batch.results :
            /\ batch.results[i].status # "canceled"
            /\ batch.results[i].stamped = (batch.yes /\ batch.results[i].status = "completed")]_vars
=============================================================================
