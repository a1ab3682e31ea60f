--------------------------- MODULE EvidenceProofs ---------------------------
(***************************************************************************)
(* Theorems about Evidence for any number of profiles, configurations,     *)
(* calls and preparations, and for any batch of the CLI; and about the     *)
(* Adapters its estimates and benchmarks reach LM Studio through, for any  *)
(* number of clients, any lifetime of a stored probe and any wait for lms. *)
(***************************************************************************)
EXTENDS Evidence, Adapters, SequenceTheorems, TLAPS

-----------------------------------------------------------------------------
(* A refused save.                                                         *)

(* The index is read before the document is written, so a save that writes *)
(* can be let down by the write of the index only.                         *)
THEOREM RefusalsAreClean == Spec => []RefusedSaveLeavesNothing
<1>1. Init => RefusedSaveLeavesNothing
  BY DEF Init, RefusedSaveLeavesNothing
<1>2. RefusedSaveLeavesNothing /\ [Next]_vars => RefusedSaveLeavesNothing'
  <2> SUFFICES ASSUME halfSaved = {}, [Next]_vars PROVE halfSaved' = {}
    BY DEF RefusedSaveLeavesNothing
  <2>1. CASE \E i \in DOMAIN preparations, id \in Id, d \in BOOLEAN : Save(i, id, d)
    BY <2>1 DEF Save, Savable, Created
  <2>2. CASE \E r \in Request : Sidecar(r)
    BY <2>2 DEF Sidecar, PrepareSaved, PrepareModel, Prepare, Rejects, Cancel, Preflighted,
       BaselineMeasured, Recommended, CandidateMeasured, OptimizeSave, OptimizeSaved, Goto,
       Finish, memory
  <2>3. CASE Cli
    BY <2>3 DEF Cli, Start, Interrupt, Next1, Ends, Guarded, Run, Exit, memory
  <2>4. CASE \E id \in Id : \/ SetDefault(id) \/ Delete(id)
                            \/ \E c \in Config : Update(id, c) \/ Create(id, c)
    BY <2>4 DEF SetDefault, Delete, Update, Create, Write, memory
  <2>5. CASE UNCHANGED vars
    BY <2>5 DEF vars
  <2> QED BY <2>1, <2>2, <2>3, <2>4, <2>5 DEF Next
<1> QED BY <1>1, <1>2, PTL DEF Spec

-----------------------------------------------------------------------------
(* The preparations that the sidecar remembers.                            *)

(* They are numbered in order, each as old as it stands from the end, or older. *)
Numbered(ps, n) ==
  /\ Len(ps) <= CacheSize
  /\ \A i \in 1 .. Len(ps) : ps[i].seq \in 1 .. n /\ ps[i].seq + (Len(ps) - i) <= n

(* Whatever is neither saved nor remembered is old. *)
Has(ps, s) == \E i \in 1 .. Len(ps) : ps[i].seq = s

Kept(ps, n, gone) ==
  \A s \in 1 .. n : s \in gone \/ Has(ps, s) \/ n - s >= CacheSize

CacheInv ==
  /\ prepared \in Nat
  /\ \E S : preparations \in Seq(S)
  /\ Numbered(preparations, prepared)
  /\ Kept(preparations, prepared, saved)

(* A call ends with a preparation of the next number. *)
Finishes ==
  /\ prepared' = prepared + 1 /\ saved' = saved
  /\ \E p : p.seq = prepared + 1 /\ Remember(p)

(* A save leaves the remembered preparations, or drops the one it saved. *)
Saves ==
  /\ prepared' = prepared
  /\ \E i \in DOMAIN preparations :
       /\ preparations' = RemoveAt(preparations, i)
       /\ saved' = saved \cup {preparations[i].seq}

LEMMA CacheSteps ==
  [Next]_vars => UNCHANGED <<preparations, prepared, saved>> \/ Finishes \/ Saves
<1> SUFFICES ASSUME [Next]_vars
             PROVE  UNCHANGED <<preparations, prepared, saved>> \/ Finishes \/ Saves
  OBVIOUS
<1>1. ASSUME NEW r, NEW c, NEW e, Finish(r, c, e) PROVE Finishes
  BY <1>1 DEF Finish, Finishes
<1>2. CASE \E r \in Request : Sidecar(r)
  BY <1>1, <1>2 DEF Sidecar, PrepareSaved, PrepareModel, Prepare, Rejects, Cancel, Preflighted,
     BaselineMeasured, Recommended, CandidateMeasured, OptimizeSave, OptimizeSaved, Goto, memory
<1>3. CASE \E i \in DOMAIN preparations, id \in Id, d \in BOOLEAN : Save(i, id, d)
  BY <1>3 DEF Save, Created, Saves, Remembered
<1>4. CASE Cli
  BY <1>4 DEF Cli, Start, Interrupt, Next1, Ends, Guarded, Run, Exit, memory
<1>5. CASE \E id \in Id : \/ SetDefault(id) \/ Delete(id)
                          \/ \E c \in Config : Update(id, c) \/ Create(id, c)
  BY <1>5 DEF SetDefault, Delete, Update, Create, Write, memory
<1>6. CASE UNCHANGED vars
  BY <1>6 DEF vars
<1> QED BY <1>2, <1>3, <1>4, <1>5, <1>6 DEF Next

LEMMA FinishesKeeps == CacheInv /\ Finishes => CacheInv'
<1> SUFFICES ASSUME CacheInv, Finishes PROVE CacheInv'
  OBVIOUS
<1>1. PICK p : p.seq = prepared + 1 /\ Remember(p)
  BY DEF Finishes
<1>2. PICK S : preparations \in Seq(S)
  BY DEF CacheInv
<1> DEFINE full == Len(preparations) >= CacheSize
           kept == IF full THEN Tail(preparations) ELSE preparations
           T == S \cup {p}
<1>3. preparations' = Append(kept, p) /\ prepared' = prepared + 1 /\ saved' = saved
  BY <1>1 DEF Remember, Finishes
<1>4. Len(preparations) \in Nat /\ CacheSize \in Nat \ {0} /\ prepared \in Nat
  BY <1>2, EvidenceAssumption DEF CacheInv
<1>5. /\ kept \in Seq(T)
      /\ full => Len(kept) = Len(preparations) - 1
                 /\ \A i \in 1 .. Len(kept) : kept[i] = preparations[i + 1]
      /\ ~full => kept = preparations
  BY <1>2, <1>4
<1> HIDE DEF kept, full, T
<1>6. /\ preparations' \in Seq(T)
      /\ Len(preparations') = Len(kept) + 1
      /\ \A i \in 1 .. Len(kept) : preparations'[i] = kept[i]
      /\ preparations'[Len(kept) + 1] = p
  BY <1>3, <1>5 DEF T
<1>7. Numbered(preparations, prepared) /\ Kept(preparations, prepared, saved)
  BY DEF CacheInv
<1>8. Numbered(preparations', prepared + 1)
  <2>1. Len(kept) + 1 <= CacheSize
    BY <1>4, <1>5, <1>7 DEF Numbered, full
  <2>2. ASSUME NEW i \in 1 .. Len(kept) + 1
        PROVE  /\ preparations'[i].seq \in 1 .. prepared + 1
               /\ preparations'[i].seq + (Len(kept) + 1 - i) <= prepared + 1
    <3>1. CASE i = Len(kept) + 1
      BY <1>1, <1>4, <1>6, <3>1
    <3>2. CASE i # Len(kept) + 1 /\ full
      <4>1. i + 1 \in 1 .. Len(preparations) /\ preparations'[i] = preparations[i + 1]
        BY <1>4, <1>5, <1>6, <3>2
      <4>2. /\ preparations[i + 1].seq \in 1 .. prepared
            /\ preparations[i + 1].seq + (Len(preparations) - (i + 1)) <= prepared
        BY <1>7, <4>1 DEF Numbered
      <4> QED BY <1>4, <1>5, <3>2, <4>1, <4>2
    <3>3. CASE i # Len(kept) + 1 /\ ~full
      <4>1. i \in 1 .. Len(preparations) /\ preparations'[i] = preparations[i]
        BY <1>4, <1>5, <1>6, <3>3
      <4>2. /\ preparations[i].seq \in 1 .. prepared
            /\ preparations[i].seq + (Len(preparations) - i) <= prepared
        BY <1>7, <4>1 DEF Numbered
      <4> QED BY <1>4, <1>5, <3>3, <4>1, <4>2
    <3> QED BY <3>1, <3>2, <3>3
  <2> QED BY <1>6, <2>1, <2>2 DEF Numbered
<1>9. Kept(preparations', prepared + 1, saved)
  <2> SUFFICES ASSUME NEW s \in 1 .. prepared + 1, s \notin saved,
                      ~((prepared + 1) - s >= CacheSize)
               PROVE  \E i \in 1 .. Len(kept) + 1 : preparations'[i].seq = s
    <3>1. \A s : Has(preparations', s) <=>
                   \E i \in 1 .. Len(kept) + 1 : preparations'[i].seq = s
      BY <1>6 DEF Has
    <3> QED BY <3>1 DEF Kept
  <2>1. Len(kept) \in Nat
    BY <1>4, <1>5
  <2>2. CASE s = prepared + 1
    <3>1. Len(kept) + 1 \in 1 .. Len(kept) + 1 /\ preparations'[Len(kept) + 1].seq = s
      BY <1>1, <1>6, <2>1, <2>2
    <3> QED BY <3>1
  <2>3. CASE s # prepared + 1
    <3>1. PICK i \in 1 .. Len(preparations) : preparations[i].seq = s
      BY <1>4, <1>7, <2>3 DEF Kept, Has
    <3>2. CASE full
      <4>1. i # 1
        <5> SUFFICES ASSUME i = 1 PROVE FALSE
          OBVIOUS
        <5>1. s + (Len(preparations) - 1) <= prepared
          BY <1>7, <3>1 DEF Numbered
        <5> QED BY <1>4, <3>2, <5>1 DEF full
      <4>2. i - 1 \in 1 .. Len(kept) /\ kept[i - 1] = preparations[i]
        BY <1>4, <1>5, <3>2, <4>1
      <4>3. i - 1 \in 1 .. Len(kept) + 1 /\ preparations'[i - 1].seq = s
        BY <1>6, <2>1, <3>1, <4>2
      <4> QED BY <4>3
    <3>3. CASE ~full
      <4>1. i \in 1 .. Len(kept) + 1 /\ preparations'[i].seq = s
        BY <1>4, <1>5, <1>6, <3>1, <3>3
      <4> QED BY <4>1
    <3> QED BY <3>2, <3>3
  <2> QED BY <2>2, <2>3
<1> QED BY <1>3, <1>4, <1>6, <1>8, <1>9 DEF CacheInv

(* What is left of a sequence without its element j. *)
LEMMA Removing ==
  ASSUME NEW S, NEW s \in Seq(S), NEW j \in 1 .. Len(s)
  PROVE  /\ RemoveAt(s, j) \in Seq(S)
         /\ Len(RemoveAt(s, j)) = Len(s) - 1
         /\ \A i \in 1 .. j - 1 : RemoveAt(s, j)[i] = s[i]
         /\ \A i \in j .. Len(s) - 1 : RemoveAt(s, j)[i] = s[i + 1]
<1> DEFINE front == SubSeq(s, 1, j - 1)
           back == SubSeq(s, j + 1, Len(s))
<1>1. Len(s) \in Nat
  OBVIOUS
<1>2. /\ front \in Seq(S) /\ Len(front) = j - 1
      /\ \A i \in 1 .. j - 1 : front[i] = s[i]
  BY <1>1
<1>3. /\ back \in Seq(S) /\ Len(back) = Len(s) - j
      /\ \A i \in 1 .. Len(s) - j : back[i] = s[i + j]
  BY <1>1
<1>4. RemoveAt(s, j) = front \o back
  BY DEF RemoveAt
<1> HIDE DEF front, back
<1>5. /\ front \o back \in Seq(S)
      /\ Len(front \o back) = Len(front) + Len(back)
      /\ \A i \in 1 .. Len(front) + Len(back) :
           (front \o back)[i] = IF i <= Len(front) THEN front[i] ELSE back[i - Len(front)]
  BY <1>2, <1>3, ConcatProperties
<1>6. ASSUME NEW i \in j .. Len(s) - 1 PROVE (front \o back)[i] = s[i + 1]
  <2>1. i - (j - 1) \in 1 .. Len(s) - j /\ (i - (j - 1)) + j = i + 1
    BY <1>1
  <2>2. (front \o back)[i] = back[i - (j - 1)]
    BY <1>1, <1>2, <1>3, <1>5
  <2> QED BY <1>3, <2>1, <2>2
<1> QED BY <1>1, <1>2, <1>3, <1>4, <1>5, <1>6

LEMMA SavesKeeps == CacheInv /\ Saves => CacheInv'
<1> SUFFICES ASSUME CacheInv, Saves PROVE CacheInv'
  OBVIOUS
<1>1. PICK S : preparations \in Seq(S)
  BY DEF CacheInv
<1>2. PICK j \in 1 .. Len(preparations) :
        /\ preparations' = RemoveAt(preparations, j)
        /\ saved' = saved \cup {preparations[j].seq}
  BY <1>1 DEF Saves
<1>3. Len(preparations) \in Nat /\ prepared \in Nat /\ prepared' = prepared
  BY <1>1 DEF CacheInv, Saves
<1>4. /\ preparations' \in Seq(S)
      /\ Len(preparations') = Len(preparations) - 1
      /\ \A i \in 1 .. j - 1 : preparations'[i] = preparations[i]
      /\ \A i \in j .. Len(preparations) - 1 : preparations'[i] = preparations[i + 1]
  BY <1>1, <1>2, Removing
<1>5. Numbered(preparations, prepared) /\ Kept(preparations, prepared, saved)
  BY DEF CacheInv
<1>6. Numbered(preparations', prepared)
  <2>1. Len(preparations) - 1 <= CacheSize
    BY <1>3, <1>5, EvidenceAssumption DEF Numbered
  <2>2. ASSUME NEW i \in 1 .. Len(preparations) - 1
        PROVE  /\ preparations'[i].seq \in 1 .. prepared
               /\ preparations'[i].seq + (Len(preparations) - 1 - i) <= prepared
    <3>1. CASE i < j
      <4>1. preparations'[i] = preparations[i] /\ i \in 1 .. Len(preparations)
        BY <1>3, <1>4, <3>1
      <4>2. /\ preparations[i].seq \in 1 .. prepared
            /\ preparations[i].seq + (Len(preparations) - i) <= prepared
        BY <1>5, <4>1 DEF Numbered
      <4> QED BY <1>3, <4>1, <4>2
    <3>2. CASE ~ i < j
      <4>1. preparations'[i] = preparations[i + 1] /\ i + 1 \in 1 .. Len(preparations)
        BY <1>3, <1>4, <3>2
      <4>2. /\ preparations[i + 1].seq \in 1 .. prepared
            /\ preparations[i + 1].seq + (Len(preparations) - (i + 1)) <= prepared
        BY <1>5, <4>1 DEF Numbered
      <4> QED BY <1>3, <4>1, <4>2
    <3> QED BY <3>1, <3>2
  <2> QED BY <1>4, <2>1, <2>2 DEF Numbered
<1>7. Kept(preparations', prepared, saved')
  <2> SUFFICES ASSUME NEW s \in 1 .. prepared, s \notin saved', ~ prepared - s >= CacheSize
               PROVE  \E i \in 1 .. Len(preparations) - 1 : preparations'[i].seq = s
    BY <1>4 DEF Kept, Has
  <2>1. PICK i \in 1 .. Len(preparations) : preparations[i].seq = s
    BY <1>2, <1>5 DEF Kept, Has
  <2>2. CASE i < j
    <3>1. i \in 1 .. Len(preparations) - 1 /\ preparations'[i].seq = s
      BY <1>3, <1>4, <2>1, <2>2
    <3> QED BY <3>1
  <2>3. CASE ~ i < j
    <3>1. i # j
      BY <1>2, <2>1
    <3>2. i - 1 \in j .. Len(preparations) - 1 /\ (i - 1) + 1 = i
      BY <1>3, <2>3, <3>1
    <3>3. preparations'[i - 1] = preparations[i]
      BY <1>4, <3>2
    <3>4. i - 1 \in 1 .. Len(preparations) - 1 /\ preparations'[i - 1].seq = s
      BY <1>3, <2>1, <3>2, <3>3
    <3> QED BY <3>4
  <2> QED BY <2>2, <2>3
<1> QED BY <1>3, <1>4, <1>6, <1>7 DEF CacheInv

(* However many calls prepare and save, and in whatever order they end, the *)
(* sidecar forgets a preparation that was not saved only for CacheSize      *)
(* newer ones (rememberPreparation of handlers.ts).                         *)
THEOREM RecentIsRemembered == Spec => []EvictedIsOld
<1>1. Init => CacheInv
  <2> SUFFICES ASSUME Init PROVE CacheInv
    OBVIOUS
  <2>1. prepared = 0 /\ preparations = <<>>
    BY DEF Init
  <2>2. preparations \in Seq({}) /\ Len(preparations) = 0
    BY <2>1
  <2> QED BY <2>1, <2>2, EvidenceAssumption DEF CacheInv, Numbered, Kept
<1>2. CacheInv /\ [Next]_vars => CacheInv'
  <2>1. CacheInv /\ UNCHANGED <<preparations, prepared, saved>> => CacheInv'
    BY DEF CacheInv, Numbered, Kept, Has
  <2> QED BY <2>1, CacheSteps, FinishesKeeps, SavesKeeps
<1>3. CacheInv => EvictedIsOld
  <2> SUFFICES ASSUME CacheInv PROVE EvictedIsOld
    OBVIOUS
  <2>1. PICK S : preparations \in Seq(S)
    BY DEF CacheInv
  <2>2. DOMAIN preparations = 1 .. Len(preparations)
    BY <2>1
  <2> QED BY <2>2 DEF CacheInv, Kept, Has, EvictedIsOld
<1> QED BY <1>1, <1>2, <1>3, PTL DEF Spec

-----------------------------------------------------------------------------
(* The batch of the CLI.                                                   *)

Result == [id : Id, status : {"completed", "failed", "canceled"}, stamped : BOOLEAN]

(* The results so far are those of the first profiles of the batch, in     *)
(* order, and a canceled one is the last.                                  *)
Results(b) ==
  /\ b.results \in Seq(Result) /\ Len(b.results) = b.at - 1
  /\ \A i \in 1 .. Len(b.results) :
       /\ b.results[i].id = b.ids[i]
       /\ b.results[i].stamped = (b.yes /\ b.results[i].status = "completed")
       /\ b.results[i].status = "canceled" => i = Len(b.results)

BatchFields == {"ids", "yes", "at", "measures", "touched", "signal", "results", "exit"}

BatchInv ==
  /\ DOMAIN batch = BatchFields
  /\ batch.ids \in Seq(Id) /\ batch.yes \in BOOLEAN
  /\ batch.at \in 1 .. Len(batch.ids) + 1
  /\ Results(batch)
  /\ batch.measures # None => batch.at <= Len(batch.ids) /\ ~Aborted(batch)

LEMMA NoBatchIsFine == batch = NoBatch => BatchInv
<1>1. <<>> \in Seq(Id) /\ <<>> \in Seq(Result) /\ Len(<<>>) = 0
  OBVIOUS
<1> QED BY <1>1 DEF NoBatch, BatchInv, BatchFields, Results

LEMMA InitBatch == Init => BatchInv
BY NoBatchIsFine DEF Init

(* A command that ends leaves nothing but its exit code. *)
LEMMA ExitKeeps == ASSUME NEW code, Exit(code) PROVE BatchInv'
<1>1. batch' = [NoBatch EXCEPT !.exit = code]
  BY DEF Exit, Run
<1>2. <<>> \in Seq(Id) /\ <<>> \in Seq(Result) /\ Len(<<>>) = 0
  OBVIOUS
<1> QED BY <1>1, <1>2 DEF NoBatch, BatchInv, BatchFields, Results

LEMMA StartKeeps == ASSUME NEW b \in Batch, Start(b) PROVE BatchInv'
<1>1. batch' = [NoBatch EXCEPT !.ids = b.ids, !.yes = b.yes]
  BY DEF Start, Run
<1>2. b.ids \in Seq(Id) /\ b.yes \in BOOLEAN /\ Len(b.ids) \in Nat
  BY EvidenceAssumption
<1>3. <<>> \in Seq(Result) /\ Len(<<>>) = 0
  OBVIOUS
<1> QED BY <1>1, <1>2, <1>3 DEF NoBatch, BatchInv, BatchFields, Results

(* A run that ended adds its result. *)
LEMMA EndsKeeps == BatchInv /\ Ends => BatchInv'
<1> SUFFICES ASSUME BatchInv, Ends PROVE BatchInv'
  OBVIOUS
<1>1. PICK status \in Measured(batch.signal) :
        LET id == batch.ids[batch.at]
            stamped == Stamps(status)
            result == [id |-> id, status |-> status, stamped |-> stamped]
        IN  IF stamped /\ store[id] = None
            THEN Exit(4)
            ELSE Run([batch EXCEPT !.at = @ + 1, !.measures = None, !.touched = FALSE,
                                   !.results = Append(@, result)])
  BY DEF Ends
<1> DEFINE result == [id |-> batch.ids[batch.at], status |-> status, stamped |-> Stamps(status)]
<1>2. CASE Exit(4)
  BY <1>2, ExitKeeps
<1>3. CASE batch' = [batch EXCEPT !.at = @ + 1, !.measures = None, !.touched = FALSE,
                                  !.results = Append(@, result)]
  <2>1. /\ DOMAIN batch = BatchFields /\ Results(batch)
        /\ batch.ids \in Seq(Id) /\ batch.yes \in BOOLEAN /\ Len(batch.ids) \in Nat
        /\ batch.at \in 1 .. Len(batch.ids) /\ ~Aborted(batch)
    BY DEF BatchInv, Ends
  <2>2. /\ DOMAIN batch' = BatchFields
        /\ batch'.ids = batch.ids /\ batch'.yes = batch.yes /\ batch'.measures = None
        /\ batch'.at = batch.at + 1 /\ batch'.results = Append(batch.results, result)
    BY <1>3, <2>1 DEF BatchFields
  <2>3. result \in Result
    BY <2>1 DEF Result, Measured, Stamps
  <2>4. /\ batch.results \in Seq(Result) /\ Len(batch.results) = batch.at - 1
    BY <2>1 DEF Results
  <2>5. /\ batch'.results \in Seq(Result) /\ Len(batch'.results) = batch.at
        /\ batch'.results[batch.at] = result
        /\ \A i \in 1 .. batch.at - 1 : batch'.results[i] = batch.results[i]
    BY <2>1, <2>2, <2>3, <2>4, AppendProperties
  <2>6. ASSUME NEW i \in 1 .. batch.at - 1 PROVE batch.results[i].status # "canceled"
    <3> SUFFICES ASSUME batch.results[i].status = "canceled" PROVE FALSE
      OBVIOUS
    <3>1. i = Len(batch.results)
      BY <2>1, <2>4 DEF Results
    <3>2. batch.results # <<>>
      BY <2>4, <3>1
    <3> QED BY <2>1, <3>1, <3>2 DEF Aborted, Last
  <2>7. Results(batch')
    <3>1. ASSUME NEW i \in 1 .. batch.at
          PROVE  /\ batch'.results[i].id = batch.ids[i]
                 /\ batch'.results[i].stamped
                      = (batch.yes /\ batch'.results[i].status = "completed")
                 /\ batch'.results[i].status = "canceled" => i = batch.at
      <4>1. CASE i = batch.at
        <5>1. batch'.results[i] = result
          BY <2>5, <4>1
        <5>2. result.stamped = (batch.yes /\ result.status = "completed")
          BY DEF Stamps
        <5> HIDE DEF result
        <5>3. result.id = batch.ids[i]
          BY <4>1 DEF result
        <5> QED BY <4>1, <5>1, <5>2, <5>3, Zenon
      <4>2. CASE i # batch.at
        <5>1. i \in 1 .. batch.at - 1 /\ i \in 1 .. Len(batch.results)
          BY <2>1, <2>4, <4>2
        <5>2. batch'.results[i] = batch.results[i]
          BY <2>5, <5>1
        <5>3. /\ batch.results[i].id = batch.ids[i]
              /\ batch.results[i].stamped = (batch.yes /\ batch.results[i].status = "completed")
              /\ batch.results[i].status # "canceled"
          BY <2>1, <2>6, <5>1 DEF Results
        <5> QED BY <5>2, <5>3, Zenon
      <4> QED BY <4>1, <4>2
    <3> QED BY <2>1, <2>2, <2>5, <3>1 DEF Results
  <2> QED BY <2>1, <2>2, <2>7 DEF BatchInv
<1> QED BY <1>1, <1>2, <1>3 DEF Run

LEMMA NextKeepsBatch == BatchInv /\ [Next]_vars => BatchInv'
<1> SUFFICES ASSUME BatchInv, [Next]_vars PROVE BatchInv'
  OBVIOUS
<1>1. CASE UNCHANGED batch
  BY <1>1 DEF BatchInv, Results, Aborted
<1> DEFINE Noted == batch' = [batch EXCEPT !.touched = TRUE]
<1>0. CASE Noted
  <2>1. /\ DOMAIN batch' = BatchFields /\ batch'.ids = batch.ids /\ batch'.yes = batch.yes
        /\ batch'.at = batch.at /\ batch'.results = batch.results
        /\ batch'.measures = batch.measures
    BY <1>0 DEF BatchInv, BatchFields
  <2> QED BY <2>1 DEF BatchInv, Results, Aborted
<1>2. CASE Cli
  <2>1. CASE \E b \in Batch : Start(b)
    BY <2>1, StartKeeps
  <2>2. CASE Interrupt
    <3>1. batch' = [batch EXCEPT !.signal = TRUE]
      BY <2>2 DEF Interrupt, Run
    <3> QED BY <3>1 DEF BatchInv, BatchFields, Results, Aborted
  <2>3. CASE Next1
    <3>1. CASE \E code : Exit(code)
      BY <3>1, ExitKeeps
    <3>2. CASE /\ ~(batch.at > Len(batch.ids) \/ Aborted(batch) \/ batch.signal)
               /\ \E c : Run([batch EXCEPT !.measures = c])
      <4>1. PICK c : batch' = [batch EXCEPT !.measures = c]
        BY <3>2 DEF Run
      <4>2. /\ DOMAIN batch' = BatchFields /\ batch'.ids = batch.ids /\ batch'.yes = batch.yes
            /\ batch'.at = batch.at /\ batch'.results = batch.results
        BY <4>1 DEF BatchInv, BatchFields
      <4> QED BY <3>2, <4>2 DEF BatchInv, Results, Aborted
    <3> QED BY <2>3, <3>1, <3>2 DEF Next1
  <2>4. CASE Ends
    BY <2>4, EndsKeeps
  <2>5. CASE Guarded
    BY <2>5, ExitKeeps DEF Guarded
  <2> QED BY <1>2, <2>1, <2>2, <2>3, <2>4, <2>5 DEF Cli
<1>3. CASE \E r \in Request : Sidecar(r)
  BY <1>1, <1>3 DEF Sidecar, PrepareSaved, PrepareModel, Prepare, Rejects, Cancel, Preflighted,
     BaselineMeasured, Recommended, CandidateMeasured, OptimizeSave, OptimizeSaved, Goto, Finish
<1>4. CASE \E i \in DOMAIN preparations, id \in Id, d \in BOOLEAN : Save(i, id, d)
  BY <1>1, <1>4 DEF Save
<1>5. CASE \E id \in Id : \/ SetDefault(id) \/ Delete(id)
                          \/ \E c \in Config : Update(id, c) \/ Create(id, c)
  BY <1>0, <1>1, <1>5 DEF SetDefault, Delete, Update, Create, Write
<1> QED BY <1>1, <1>2, <1>3, <1>4, <1>5 DEF Next, vars

(* Only the end of the loop answers 0. *)
LEMMA AnswersZero ==
  ASSUME BatchInv, Next, batch.exit = None, batch'.exit = 0
  PROVE  /\ Exit(ExitCode(batch))
         /\ batch.at > Len(batch.ids) \/ Aborted(batch) \/ batch.signal
<1>1. ASSUME Exit(4) PROVE FALSE
  BY <1>1 DEF Exit, Run, NoBatch
<1>2. ASSUME batch' = batch \/ batch' = [batch EXCEPT !.touched = TRUE] PROVE FALSE
  BY <1>2, EvidenceAssumption DEF BatchInv, BatchFields
<1>3. ASSUME NEW b, batch' = b, b.exit = batch.exit PROVE FALSE
  BY <1>3, EvidenceAssumption
<1>4. DOMAIN batch = BatchFields
  BY DEF BatchInv
<1>5. Cli
  BY <1>2 DEF Next, Sidecar, PrepareSaved, PrepareModel, Prepare, Rejects, Cancel, Preflighted,
     BaselineMeasured, Recommended, CandidateMeasured, OptimizeSave, OptimizeSaved, Goto,
     Finish, Save, SetDefault, Delete, Update, Create, Write
<1>6. ASSUME NEW b, Start(b) PROVE FALSE
  <2>1. batch' = [NoBatch EXCEPT !.ids = b.ids, !.yes = b.yes]
    BY <1>6 DEF Start, Run
  <2> QED BY <2>1, EvidenceAssumption DEF NoBatch
<1>7. ~Interrupt
  BY <1>3, <1>4 DEF Interrupt, Run, BatchFields
<1>8. ~Guarded
  BY <1>1 DEF Guarded
<1>9. ~Ends
  <2>1. ASSUME NEW s, NEW m,
               Run([batch EXCEPT !.at = @ + 1, !.measures = m, !.touched = FALSE, !.results = s])
        PROVE  FALSE
    BY <1>3, <1>4, <2>1 DEF Run, BatchFields
  <2> QED BY <1>1, <2>1 DEF Ends
<1>10. Next1
  BY <1>5, <1>6, <1>7, <1>8, <1>9 DEF Cli
<1>11. ASSUME NEW c, Run([batch EXCEPT !.measures = c]) PROVE FALSE
  BY <1>3, <1>4, <1>11 DEF Run, BatchFields
<1> QED BY <1>1, <1>10, <1>11 DEF Next1

(* Whatever is edited, deleted or interrupted meanwhile, benchmark-all     *)
(* answers 0 only for a batch that ran to its end: a result for every      *)
(* profile in its place, none canceled, and a mark wherever one was due    *)
(* (benchmark-all.ts).                                                     *)
THEOREM ZeroIsComplete == Spec => ZeroMeansAll
<1> DEFINE Complete ==
      batch.exit = None /\ batch'.exit = 0 =>
        /\ [i \in DOMAIN batch.results |-> batch.results[i].id] = batch.ids
        /\ \A i \in DOMAIN batch.results :
             /\ batch.results[i].status # "canceled"
             /\ batch.results[i].stamped = (batch.yes /\ batch.results[i].status = "completed")
<1>1. BatchInv /\ [Next]_vars => [Complete]_vars
  <2> SUFFICES ASSUME BatchInv, Next, batch.exit = None, batch'.exit = 0
               PROVE  /\ [i \in DOMAIN batch.results |-> batch.results[i].id] = batch.ids
                      /\ \A i \in DOMAIN batch.results :
                           /\ batch.results[i].status # "canceled"
                           /\ batch.results[i].stamped
                                = (batch.yes /\ batch.results[i].status = "completed")
    OBVIOUS
  <2>1. batch.at > Len(batch.ids) /\ ~Aborted(batch)
    <3>1. Exit(ExitCode(batch)) /\ (batch.at > Len(batch.ids) \/ Aborted(batch) \/ batch.signal)
      BY AnswersZero
    <3>2. batch' = [NoBatch EXCEPT !.exit = ExitCode(batch)]
      BY <3>1 DEF Exit, Run
    <3>3. ExitCode(batch) = 0
      BY <3>2 DEF NoBatch
    <3> QED BY <3>1, <3>3 DEF ExitCode, ExitCodeOfLast
  <2>2. /\ batch.ids \in Seq(Id) /\ Len(batch.ids) \in Nat /\ batch.at = Len(batch.ids) + 1
        /\ Results(batch)
    BY <2>1 DEF BatchInv
  <2>3. /\ DOMAIN batch.results = 1 .. Len(batch.ids) /\ Len(batch.results) = Len(batch.ids)
        /\ DOMAIN batch.ids = 1 .. Len(batch.ids)
    BY <2>2 DEF Results
  <2>4. [i \in DOMAIN batch.results |-> batch.results[i].id] = batch.ids
    BY <2>2, <2>3 DEF Results
  <2>5. ASSUME NEW i \in DOMAIN batch.results PROVE batch.results[i].status # "canceled"
    BY <2>1, <2>2, <2>3 DEF Results, Aborted, Last
  <2> QED BY <2>2, <2>3, <2>4, <2>5 DEF Results
<1> QED BY <1>1, InitBatch, NextKeepsBatch, PTL DEF Spec, ZeroMeansAll

-----------------------------------------------------------------------------
(* The mark of a profile.                                                  *)

(* A document has its two parts. *)
Document(p) == p = Profile(p.config, p.evidence)

(* Its mark is of its configuration, or of one that was edited. *)
Marked(p, edited) == Document(p) /\ (p.evidence \in {None, p.config} \/ edited)

(* What is measured is what the batch read, unless it was written meanwhile. *)
AsRead(id) == batch.touched \/ (store[id] # None /\ store[id].config = batch.measures)

MarkInv ==
  /\ DOMAIN store = Id
  /\ \A id \in Id : store[id] # None => Marked(store[id], id \in outdated)
  /\ \A id \in Id : Measuring(id) => AsRead(id)

LEMMA NewIsMarked == \A c, e : Marked(Profile(c, None), e) /\ Marked(Profile(c, c), e)
BY DEF Marked, Document, Profile

(* A document that is written while nothing, or something else, is measured: *)
(* what is measured stays as it was read.                                    *)
LEMMA WriteKeeps ==
  ASSUME MarkInv, NEW id \in Id, NEW p, p = None \/ Marked(p, id \in outdated'),
         store' = [store EXCEPT ![id] = p],
         outdated' \ {id} = outdated \ {id},
         \/ batch' = batch /\ (Measuring(id) => batch.touched)
         \/ \A x : Measuring(x)' => batch'.touched
  PROVE  MarkInv'
<1>1. DOMAIN store' = Id /\ \A x \in Id \ {id} : store'[x] = store[x]
  BY DEF MarkInv
<1>2. store'[id] = p
  BY DEF MarkInv
<1>3. \A x \in Id \ {id} : x \in outdated' <=> x \in outdated
  OBVIOUS
<1>4. \A x \in Id : store'[x] # None => Marked(store'[x], x \in outdated')
  <2> SUFFICES ASSUME NEW x \in Id, store'[x] # None
               PROVE  Marked(store'[x], x \in outdated')
    OBVIOUS
  <2>1. CASE x = id
    BY <1>2, <2>1
  <2>2. CASE x # id
    BY <1>1, <1>3, <2>2 DEF MarkInv, Marked
  <2> QED BY <2>1, <2>2
<1>5. \A x \in Id : Measuring(x)' => AsRead(x)'
  <2>1. CASE batch' = batch /\ (Measuring(id) => batch.touched)
    <3>1. \A x : Measuring(x)' <=> Measuring(x)
      BY <2>1 DEF Measuring, Pending
    <3> QED BY <1>1, <2>1, <3>1 DEF MarkInv, AsRead
  <2>2. CASE \A x : Measuring(x)' => batch'.touched
    BY <2>2 DEF AsRead
  <2> QED BY <2>1, <2>2
<1> QED BY <1>1, <1>4, <1>5 DEF MarkInv

(* The writes of the window: they are noted where something is measured. *)
LEMMA WindowWrites ==
  ASSUME BatchInv, MarkInv, NEW id \in Id, NEW p, p = None \/ Marked(p, id \in outdated'),
         Write(id, p), outdated' \ {id} = outdated \ {id}
  PROVE  MarkInv'
<1>1. store' = [store EXCEPT ![id] = p]
  BY DEF Write
<1>2. CASE Measuring(id)
  <2>1. batch' = [batch EXCEPT !.touched = TRUE]
    BY <1>2 DEF Write
  <2>2. batch'.touched
    BY <2>1 DEF BatchInv, BatchFields
  <2> QED BY <1>1, <2>2, WriteKeeps
<1>3. CASE ~Measuring(id)
  BY <1>1, <1>3, WriteKeeps DEF Write
<1> QED BY <1>2, <1>3

(* A save finds the place free, and nothing is noted there. *)
LEMMA FreeWrites ==
  ASSUME MarkInv, NEW id \in Id, store[id] = None, NEW p, Marked(p, id \in outdated),
         store' = [store EXCEPT ![id] = p], UNCHANGED <<batch, outdated>>
  PROVE  MarkInv'
<1>1. Measuring(id) => batch.touched
  BY DEF MarkInv, AsRead
<1> QED BY <1>1, WriteKeeps

(* The batch reads a profile, and marks what it finds at the end. *)
LEMMA BatchKeepsMarks == BatchInv /\ MarkInv /\ Cli => MarkInv'
<1> SUFFICES ASSUME BatchInv, MarkInv, Cli PROVE MarkInv'
  OBVIOUS
<1>1. ASSUME UNCHANGED documents, batch'.measures = None PROVE MarkInv'
  BY <1>1 DEF MarkInv, Measuring, documents
<1>2. ASSUME NEW code, Exit(code), UNCHANGED documents PROVE MarkInv'
  <2>1. batch'.measures = None
    BY <1>2 DEF Exit, Run, NoBatch
  <2> QED BY <1>1, <1>2, <2>1
<1>3. DOMAIN batch = BatchFields
  BY DEF BatchInv
<1>4. CASE \E b \in Batch : Start(b)
  BY <1>1, <1>4 DEF Start, Run, NoBatch
<1>5. CASE Interrupt
  <2>1. batch' = [batch EXCEPT !.signal = TRUE] /\ UNCHANGED documents
    BY <1>5 DEF Interrupt, Run
  <2>2. /\ batch'.ids = batch.ids /\ batch'.exit = batch.exit /\ batch'.at = batch.at
        /\ batch'.measures = batch.measures /\ batch'.touched = batch.touched
    BY <1>3, <2>1 DEF BatchFields
  <2> QED BY <2>1, <2>2 DEF MarkInv, Measuring, Pending, AsRead, documents
<1>6. CASE Next1
  <2>1. CASE \E code : Exit(code)
    BY <1>2, <1>6, <2>1 DEF Next1
  <2>2. CASE /\ store[batch.ids[batch.at]] # None
             /\ Run([batch EXCEPT !.measures = store[batch.ids[batch.at]].config])
    <3>1. /\ batch'.ids = batch.ids /\ batch'.exit = batch.exit /\ batch'.at = batch.at
          /\ batch'.measures = store[batch.ids[batch.at]].config /\ UNCHANGED documents
      BY <1>3, <1>6, <2>2 DEF BatchFields, Run, Next1
    <3> QED BY <2>2, <3>1 DEF MarkInv, Measuring, AsRead, documents
  <2> QED BY <1>6, <2>1, <2>2 DEF Next1
<1>7. CASE Ends
  <2> DEFINE id == batch.ids[batch.at]
  <2>1. id \in Id /\ Measuring(id)
    BY <1>7 DEF Ends, Measuring, Pending, BatchInv
  <2>2. ASSUME NEW n, NEW results,
               batch' = [batch EXCEPT !.at = n, !.measures = None, !.touched = FALSE,
                                      !.results = results]
        PROVE  batch'.measures = None
    BY <1>3, <2>2 DEF BatchFields
  <2>3. CASE batch'.measures = None /\ UNCHANGED documents
    BY <1>1, <2>3
  <2>4. CASE /\ batch'.measures = None /\ store[id] # None
             /\ store' = [store EXCEPT ![id].evidence = batch.measures]
             /\ outdated' = Outdated(id, batch.touched)
    <3>1. \A x : ~Measuring(x)'
      BY <2>4 DEF Measuring
    <3>2. outdated' \ {id} = outdated \ {id} /\ (batch.touched => id \in outdated')
      BY <2>4 DEF Outdated
    <3>3. store[id] = Profile(store[id].config, store[id].evidence)
      BY <2>1, <2>4 DEF MarkInv, Marked, Document
    <3> DEFINE p == Profile(store[id].config, batch.measures)
    <3>4. [store[id] EXCEPT !.evidence = batch.measures] = p
      BY <3>3 DEF Profile
    <3>5. store' = [store EXCEPT ![id] = p]
      BY <2>4, <3>4
    <3>6. batch.touched \/ store[id].config = batch.measures
      BY <2>1 DEF MarkInv, AsRead
    <3>7. Marked(p, id \in outdated')
      BY <3>2, <3>6 DEF Marked, Document, Profile
    <3> HIDE DEF p, id
    <3> QED BY <2>1, <3>1, <3>2, <3>5, <3>7, WriteKeeps
  <2> QED BY <1>2, <1>7, <2>2, <2>3, <2>4 DEF Ends, Run
<1>8. CASE Guarded
  BY <1>2, <1>8 DEF Guarded
<1> QED BY <1>4, <1>5, <1>6, <1>7, <1>8 DEF Cli

LEMMA NextKeepsMarks == BatchInv /\ MarkInv /\ [Next]_vars => MarkInv'
<1> SUFFICES ASSUME BatchInv, MarkInv, [Next]_vars PROVE MarkInv'
  OBVIOUS
<1>1. CASE UNCHANGED <<documents, batch>>
  BY <1>1 DEF MarkInv, Measuring, Pending, AsRead, documents
<1>2. CASE Cli
  BY <1>2, BatchKeepsMarks
<1>3. CASE \E r \in Request : Sidecar(r)
  <2> SUFFICES ASSUME NEW r \in Request, OptimizeSaved(r) PROVE MarkInv'
    BY <1>1, <1>3 DEF Sidecar, PrepareSaved, PrepareModel, Prepare, Rejects, Cancel, Preflighted,
       BaselineMeasured, Recommended, CandidateMeasured, OptimizeSave, Goto, Finish
  <2> DEFINE id == request[r].id
  <2>1. PICK c \in Config : store' = [store EXCEPT ![id] = Profile(c, None)]
    BY DEF OptimizeSaved
  <2>2. store[id] = None /\ UNCHANGED <<batch, outdated>>
    BY DEF OptimizeSaved
  <2> HIDE DEF id
  <2>3. CASE id \in Id
    BY <2>1, <2>2, <2>3, NewIsMarked, FreeWrites
  <2>4. CASE id \notin Id
    <3>1. DOMAIN store' = Id /\ \A x \in Id : store'[x] = store[x]
      BY <2>1, <2>4 DEF MarkInv
    <3> QED BY <2>2, <3>1 DEF MarkInv, Measuring, Pending, AsRead
  <2> QED BY <2>3, <2>4
<1>4. CASE \E i \in DOMAIN preparations, id \in Id, d \in BOOLEAN : Save(i, id, d)
  <2>1. PICK i \in DOMAIN preparations, id \in Id : \E d \in BOOLEAN : Save(i, id, d)
    BY <1>4
  <2>2. /\ store[id] = None /\ UNCHANGED <<batch, outdated>>
        /\ store' = [store EXCEPT ![id] = SavedProfile(preparations[i])]
    BY <2>1 DEF Save, Savable, Created
  <2>3. Marked(SavedProfile(preparations[i]), id \in outdated)
    BY NewIsMarked DEF SavedProfile
  <2> QED BY <2>2, <2>3, FreeWrites
<1>5. CASE \E id \in Id : \/ SetDefault(id) \/ Delete(id)
                          \/ \E c \in Config : Update(id, c) \/ Create(id, c)
  <2>1. PICK id \in Id : \/ SetDefault(id) \/ Delete(id)
                         \/ \E c \in Config : Update(id, c) \/ Create(id, c)
    BY <1>5
  <2>2. CASE SetDefault(id)
    BY <1>1, <2>2 DEF SetDefault
  <2>3. CASE Delete(id)
    BY <2>3, WindowWrites DEF Delete, Outdated
  <2>4. ASSUME NEW c \in Config, Update(id, c) PROVE MarkInv'
    <3> DEFINE p == [store[id] EXCEPT !.config = c]
    <3>1. store[id] # None /\ Write(id, p)
      BY <2>4 DEF Update
    <3>2. outdated' \ {id} = outdated \ {id} /\ (store[id].evidence # None => id \in outdated')
      BY <2>4 DEF Update, Outdated
    <3>3. p = Profile(c, store[id].evidence)
      BY <3>1 DEF MarkInv, Marked, Document, Profile
    <3>4. Marked(p, id \in outdated')
      BY <3>2, <3>3 DEF Marked, Document, Profile
    <3> HIDE DEF p
    <3> QED BY <3>1, <3>2, <3>4, WindowWrites
  <2>5. ASSUME NEW c \in Config, Create(id, c) PROVE MarkInv'
    BY <2>5, NewIsMarked, WindowWrites DEF Create
  <2> QED BY <2>1, <2>2, <2>3, <2>4, <2>5
<1> QED BY <1>1, <1>2, <1>3, <1>4, <1>5 DEF Next, vars, documents

(* Whatever is prepared, saved, recommended and benchmarked, and whoever   *)
(* edits and deletes in between, a mark is of the configuration it stands  *)
(* on, or the profile was edited itself since that was measured            *)
(* (optimization-loop.ts, benchmark-all.ts, benchmark-common.ts).          *)
THEOREM MarksAreMeasured == Spec => []BenchmarkedWasMeasured
<1>1. Init => MarkInv
  <2> SUFFICES ASSUME Init PROVE MarkInv
    OBVIOUS
  <2>1. /\ store \in [Id -> {None} \cup {Profile(c, None) : c \in Config}]
        /\ batch.measures = None
    BY DEF Init, NoBatch
  <2> QED BY <2>1, NewIsMarked DEF MarkInv, Measuring
<1>2. MarkInv => BenchmarkedWasMeasured
  BY DEF MarkInv, Marked, BenchmarkedWasMeasured
<1> QED BY <1>1, <1>2, InitBatch, NextKeepsBatch, NextKeepsMarks, PTL DEF Spec

-----------------------------------------------------------------------------
(* The adapters.  A probe that runs ages with its own wait, and a stored   *)
(* one ages as its lifetime runs out.                                      *)

(* What the argument needs of the types. *)
IsProbe(seen) == seen.age \in Nat /\ DOMAIN seen = DOMAIN NothingSeen
IsCall(call) == call.wait \in 0 .. MaxWait /\ IsProbe(call.seen) /\ DOMAIN call = DOMAIN NoCall

Shapes ==
  /\ cache.left \in Nat /\ IsProbe(cache.seen)
  /\ DOMAIN calls = Clients
  /\ \A c \in Clients : IsCall(calls[c])

(* What a stored probe saw is as old as the wait of its probe and the part of
   its lifetime that is over. *)
StoredFresh == cache.left > 0 => cache.seen.age + cache.left <= Ttl + MaxWait

(* A probe that runs saw the server when its wait began. *)
ProbedFresh == \A c \in Clients : calls[c].at = "cli" => calls[c].seen.age <= calls[c].wait

AdaptersInv == Shapes /\ StoredFresh /\ ProbedFresh /\ ServedFresh

-----------------------------------------------------------------------------
(* The initial state satisfies the inductive invariant. *)
LEMMA InitAdapters == AdaptersInit => AdaptersInv
BY AdaptersAssumption
   DEF AdaptersInit, AdaptersInv, Shapes, StoredFresh, ProbedFresh, ServedFresh, Empty, NoCall, NothingSeen,
       IsProbe, IsCall

(* A call goes on: its place changes, and its wait begins anew. *)
LEMMA ToFields ==
  ASSUME NEW call, IsCall(call), NEW at
  PROVE  /\ IsCall(To(call, at)) /\ To(call, at).seen = call.seen
         /\ To(call, at).at = at /\ To(call, at).wait = 0
<1>1. {"at", "wait", "seen"} \subseteq DOMAIN call /\ "wait" # "at" /\ "wait" # "seen" /\ "at" # "seen"
  BY DEF IsCall, NoCall
<1>2. /\ To(call, at).seen = call.seen /\ To(call, at).at = at /\ To(call, at).wait = 0
      /\ DOMAIN To(call, at) = DOMAIN call
  BY <1>1 DEF To
<1> QED BY <1>2, AdaptersAssumption DEF IsCall

(* A call may become one that its probe's age allows: the others are as they
   were. *)
Allowed(call) ==
  /\ IsCall(call)
  /\ call.at = "cli" => call.seen.age <= call.wait
  /\ call.at = "list" => call.seen.age <= MaxWait + (IF call.kind = "forced" THEN 0 ELSE Ttl - 1)

CallsFresh == DOMAIN calls = Clients /\ \A c \in Clients : Allowed(calls[c])

LEMMA OneCallFresh ==
  ASSUME CallsFresh, NEW c \in Clients, NEW call, Allowed(call),
         calls' = [calls EXCEPT ![c] = call]
  PROVE  CallsFresh'
BY DEF CallsFresh

LEMMA IInvParts ==
  AdaptersInv <=> CallsFresh /\ cache.left \in Nat /\ IsProbe(cache.seen) /\ StoredFresh
BY DEF AdaptersInv, Shapes, ProbedFresh, ServedFresh, CallsFresh, Allowed

LEMMA IdleIsCall == IsCall(NoCall) /\ NoCall.seen.age = 0
BY AdaptersAssumption DEF IsCall, IsProbe, NoCall, NothingSeen

(* A call goes on with a probe that is fresh enough to be listed with. *)
LEMMA ResolvesFresh ==
  ASSUME CallsFresh, NEW c \in Clients, NEW kind, NEW seen, IsProbe(seen),
         seen.age <= MaxWait + (IF kind = "forced" THEN 0 ELSE Ttl - 1),
         Resolves(c, kind, seen)
  PROVE  CallsFresh'
<1> DEFINE using == [NoCall EXCEPT !.kind = kind, !.using = RuntimeOf(seen)]
           first == To(using, "first")
           list == [To(using, "list") EXCEPT !.seen = seen]
<1>1. IsCall(using)
  BY IdleIsCall DEF IsCall, IsProbe, NoCall
<1>2. using.kind = kind
  BY DEF NoCall
<1> HIDE DEF using
<1>3. Allowed(first)
  BY <1>1, ToFields DEF Allowed
<1>4. IsCall(To(using, "list")) /\ To(using, "list").at = "list" /\ To(using, "list").kind = kind
  BY <1>1, <1>2, ToFields DEF To, IsCall, NoCall
<1>5. IsCall(list) /\ list.seen = seen /\ list.at = "list" /\ list.kind = kind
  <2>1. list.seen = seen /\ list.at = "list" /\ list.kind = kind /\ list.wait = To(using, "list").wait
        /\ DOMAIN list = DOMAIN To(using, "list")
    BY <1>4 DEF IsCall, NoCall
  <2> QED BY <1>4, <2>1 DEF IsCall
<1>6. Allowed(list)
  BY <1>5 DEF Allowed
<1> HIDE DEF first, list
<1>7. calls' = [calls EXCEPT ![c] = first] \/ calls' = [calls EXCEPT ![c] = list]
  BY DEF Resolves, first, list, using
<1> QED BY <1>3, <1>6, <1>7, OneCallFresh

(* A stored probe that still lives is fresh enough for any call it is served
   to, and is left to run out. *)
LEMMA HitIInv ==
  ASSUME AdaptersInv, NEW c \in Clients, NEW kind, cache.left > 0, kind # "forced", Hit(c, kind)
  PROVE  AdaptersInv'
<1>1. CallsFresh /\ cache.left \in Nat /\ IsProbe(cache.seen) /\ StoredFresh
  BY IInvParts
<1>2. UNCHANGED cache /\ Resolves(c, kind, cache.seen)
  BY DEF Hit
<1>3. cache.seen.age <= MaxWait + (IF kind = "forced" THEN 0 ELSE Ttl - 1)
  BY <1>1, AdaptersAssumption DEF StoredFresh, IsProbe
<1>4. CallsFresh'
  BY <1>1, <1>2, <1>3, ResolvesFresh
<1> QED BY <1>1, <1>2, <1>4 DEF AdaptersInv, Shapes, StoredFresh, ProbedFresh, ServedFresh, CallsFresh, Allowed

(* A probe ends: what it saw is as old as its own wait, and is stored. *)
LEMMA StoresIInv ==
  ASSUME AdaptersInv, NEW c \in Clients, Stores(c)
  PROVE  AdaptersInv'
<1>1. CallsFresh
  BY IInvParts
<1>2. PICK seen : /\ seen = [calls[c].seen EXCEPT !.lms = host.lms]
                  /\ cache' = [seen |-> seen, left |-> Ttl]
                  /\ Resolves(c, calls[c].kind, seen)
  BY DEF Stores
<1>3. IsProbe(calls[c].seen) /\ calls[c].seen.age <= calls[c].wait /\ calls[c].wait \in 0 .. MaxWait
  BY <1>1 DEF Stores, CallsFresh, Allowed, IsCall
<1>4. IsProbe(seen) /\ seen.age = calls[c].seen.age
  BY <1>2, <1>3 DEF IsProbe, NothingSeen
<1>5. seen.age \in Nat /\ seen.age <= MaxWait
  BY <1>3, <1>4, AdaptersAssumption DEF IsProbe
<1>6. CallsFresh'
  <2>1. seen.age <= MaxWait + (IF calls[c].kind = "forced" THEN 0 ELSE Ttl - 1)
    BY <1>5, AdaptersAssumption
  <2> QED BY <1>1, <1>2, <1>4, <2>1, ResolvesFresh
<1>7. cache'.left = Ttl /\ cache'.seen = seen
  BY <1>2
<1>8. StoredFresh'
  BY <1>5, <1>7, AdaptersAssumption DEF StoredFresh
<1> QED BY <1>4, <1>6, <1>7, <1>8, AdaptersAssumption
        DEF AdaptersInv, Shapes, ProbedFresh, ServedFresh, CallsFresh, Allowed

(* The other steps of a call leave the stored probe alone, and the call does
   not list with what it saw before. *)
LEMMA QuietIInv ==
  ASSUME AdaptersInv, NEW c \in Clients, NEW call, Allowed(call),
         calls' = [calls EXCEPT ![c] = call], UNCHANGED cache
  PROVE  AdaptersInv'
<1>1. CallsFresh /\ cache.left \in Nat /\ IsProbe(cache.seen) /\ StoredFresh
  BY IInvParts
<1>2. CallsFresh'
  BY <1>1, OneCallFresh
<1> QED BY <1>1, <1>2 DEF AdaptersInv, Shapes, StoredFresh, ProbedFresh, ServedFresh, CallsFresh, Allowed

(* A call that begins uses the kept bundle, a stored probe, or starts one. *)
LEMMA BeginIInv ==
  ASSUME AdaptersInv, NEW c \in Clients, NEW kind \in Kinds, Begin(c, kind)
  PROVE  AdaptersInv'
<1>1. CASE Hit(c, kind) /\ cache.left > 0 /\ kind # "forced"
  BY <1>1, HitIInv
<1>2. ASSUME NEW at \in {"first", "rest"}, NEW using
      PROVE  /\ Allowed([To(NoCall, at) EXCEPT !.kind = kind, !.using = using])
             /\ Allowed([To(NoCall, at) EXCEPT !.kind = kind])
  BY IdleIsCall DEF Allowed, IsCall, To, NoCall
<1>3. CASE calls' = [calls EXCEPT ![c] = [To(NoCall, "first") EXCEPT !.kind = kind, !.using = bundle]]
           /\ UNCHANGED cache
  BY <1>2, <1>3, QuietIInv
<1>4. CASE calls' = [calls EXCEPT ![c] = [To(NoCall, "rest") EXCEPT !.kind = kind]] /\ UNCHANGED cache
  BY <1>2, <1>4, QuietIInv
<1> QED BY <1>1, <1>3, <1>4 DEF Begin

LEMMA MovesIInv ==
  ASSUME AdaptersInv, NEW c \in Clients,
         ProbeRest(c) \/ ListsModels(c) \/ ReadsActive(c) \/ Works(c) \/ Returns(c)
  PROVE  AdaptersInv'
<1>1. IsCall(calls[c])
  BY IInvParts DEF CallsFresh, Allowed
<1>2. \A at : /\ IsCall(To(calls[c], at)) /\ To(calls[c], at).at = at
              /\ To(calls[c], at).seen = calls[c].seen
  BY <1>1, ToFields
<1>3. ASSUME NEW at, at \notin {"cli", "list"}, NEW d, NEW u, NEW w
      PROVE  /\ Allowed([To(calls[c], at) EXCEPT !.runtime = d])
             /\ Allowed([To(calls[c], at) EXCEPT !.runtime = d, !.using = u])
             /\ Allowed([To(calls[c], at) EXCEPT !.discovery = d, !.seen.age = 0, !.seen.lms = FALSE])
  <2>1. \A e : /\ IsCall([To(calls[c], at) EXCEPT !.runtime = d])
               /\ [To(calls[c], at) EXCEPT !.runtime = d].at = at
    BY <1>2 DEF IsCall, NoCall
  <2>2. /\ IsCall([To(calls[c], at) EXCEPT !.runtime = d, !.using = u])
        /\ [To(calls[c], at) EXCEPT !.runtime = d, !.using = u].at = at
    BY <1>2 DEF IsCall, NoCall
  <2>3. /\ IsCall([To(calls[c], at) EXCEPT !.discovery = d, !.seen.age = 0, !.seen.lms = FALSE])
        /\ [To(calls[c], at) EXCEPT !.discovery = d, !.seen.age = 0, !.seen.lms = FALSE].at = at
    BY <1>2 DEF IsCall, NoCall, IsProbe, NothingSeen
  <2> QED BY <1>3, <2>1, <2>2, <2>3 DEF Allowed
<1>4. CASE ProbeRest(c)
  <2>1. Allowed([To(calls[c], "cli") EXCEPT !.seen = [NothingSeen EXCEPT !.rest = host.rest]])
    <3>1. IsProbe([NothingSeen EXCEPT !.rest = host.rest]) /\ [NothingSeen EXCEPT !.rest = host.rest].age = 0
      BY DEF IsProbe, NothingSeen
    <3> HIDE DEF NothingSeen
    <3>2. ASSUME NEW seen, IsProbe(seen), seen.age = 0
          PROVE  Allowed([To(calls[c], "cli") EXCEPT !.seen = seen])
      BY <1>2, <3>2, AdaptersAssumption DEF Allowed, IsCall, NoCall
    <3> QED BY <3>1, <3>2
  <2> QED BY <1>4, <2>1, QuietIInv DEF ProbeRest
<1>5. CASE ListsModels(c)
  <2>1. PICK at \in {"active", "answered"} :
          calls' = [calls EXCEPT ![c] =
                      [To(calls[c], at) EXCEPT !.discovery = Lists(calls[c].seen), !.seen.age = 0,
                                             !.seen.lms = FALSE]]
    BY <1>5 DEF ListsModels
  <2>2. UNCHANGED cache
    BY <1>5 DEF ListsModels
  <2> QED BY <1>3, <2>1, <2>2, QuietIInv
<1>6. CASE ReadsActive(c)
  <2>1. Allowed([To(calls[c], "answered") EXCEPT !.runtime = Reaches(calls[c].using),
                                                 !.using = "unreachable"])
    BY <1>3
  <2> QED BY <1>6, <2>1, QuietIInv DEF ReadsActive
<1>7. CASE Works(c)
  <2>1. CASE calls[c].at = "first"
    <3>1. PICK at \in {"second", "answered"} : \E reached :
            calls' = [calls EXCEPT ![c] =
                        [To(calls[c], at) EXCEPT !.runtime = reached, !.using = bundle]]
      BY <1>7, <2>1 DEF Works
    <3>2. ASSUME NEW reached
          PROVE  Allowed([To(calls[c], at) EXCEPT !.runtime = reached, !.using = bundle])
      BY <1>3
    <3> QED BY <1>7, <3>1, <3>2, QuietIInv DEF Works
  <2>2. CASE calls[c].at = "second"
    BY <1>3, <1>7, <2>2, QuietIInv DEF Works
  <2> QED BY <1>7, <2>1, <2>2 DEF Works
<1>8. CASE Returns(c)
  <2>1. Allowed(NoCall)
    BY IdleIsCall DEF Allowed, NoCall
  <2> QED BY <1>8, <2>1, QuietIInv DEF Returns
<1> QED BY <1>4, <1>5, <1>6, <1>7, <1>8

(* A tick ages the stored probe as its lifetime runs out, and a running probe
   as it waits. *)
LEMMA TickIInv ==
  ASSUME AdaptersInv, Tick
  PROVE  AdaptersInv'
<1>1. CallsFresh /\ cache.left \in Nat /\ IsProbe(cache.seen) /\ StoredFresh
  BY IInvParts
<1>2. ASSUME NEW seen, IsProbe(seen)
      PROVE  IsProbe(Older(seen)) /\ Older(seen).age <= seen.age + 1
  BY <1>2, AdaptersAssumption DEF Older, Oldest, IsProbe, NothingSeen
<1>3. cache'.left \in Nat /\ IsProbe(cache'.seen) /\ StoredFresh'
  <2>1. CASE cache.left > 1
    <3>1. cache'.seen = Older(cache.seen) /\ cache'.left = cache.left - 1
      BY <2>1 DEF Tick
    <3>2. IsProbe(cache'.seen) /\ cache'.seen.age <= cache.seen.age + 1
      BY <1>1, <1>2, <3>1
    <3> QED BY <1>1, <2>1, <3>1, <3>2, AdaptersAssumption DEF StoredFresh, IsProbe
  <2>2. CASE ~(cache.left > 1)
    <3>1. cache'.seen = NothingSeen /\ cache'.left = 0
      BY <2>2 DEF Tick, Empty
    <3>2. IsProbe(NothingSeen)
      BY DEF IsProbe, NothingSeen
    <3> QED BY <3>1, <3>2 DEF StoredFresh
  <2> QED BY <2>1, <2>2
<1>4. ASSUME NEW c \in Clients, calls[c].at = "cli"
      PROVE  Allowed(calls'[c])
  <2>1. /\ IsCall(calls[c]) /\ calls[c].seen.age <= calls[c].wait
        /\ calls[c].wait < MaxWait
    BY <1>1, <1>4 DEF Tick, CallsFresh, Allowed
  <2>2. calls'[c] = [calls[c] EXCEPT !.wait = @ + 1, !.seen = Older(@)]
    BY <1>4 DEF Tick
  <2>3. /\ calls'[c].wait = calls[c].wait + 1 /\ calls'[c].seen = Older(calls[c].seen)
        /\ calls'[c].at = "cli" /\ DOMAIN calls'[c] = DOMAIN NoCall
    BY <1>4, <2>1, <2>2 DEF IsCall, NoCall
  <2>4. IsProbe(calls'[c].seen) /\ calls'[c].seen.age <= calls[c].seen.age + 1
    BY <1>2, <2>1, <2>3 DEF IsCall
  <2> QED BY <2>1, <2>3, <2>4, AdaptersAssumption DEF Allowed, IsCall, IsProbe
<1>5. CallsFresh'
  BY <1>1, <1>4 DEF Tick, CallsFresh
<1> QED BY <1>3, <1>5 DEF AdaptersInv, Shapes, ProbedFresh, ServedFresh, CallsFresh, Allowed

-----------------------------------------------------------------------------
(* Every step keeps the inductive invariant. *)
LEMMA NextAdapters == AdaptersInv /\ [AdaptersNext]_adapterVars => AdaptersInv'
<1> SUFFICES ASSUME AdaptersInv, [AdaptersNext]_adapterVars PROVE AdaptersInv'
  OBVIOUS
<1>1. ASSUME NEW c \in Clients, Proceeds(c)
      PROVE  AdaptersInv'
  BY <1>1, StoresIInv, MovesIInv DEF Proceeds
<1>2. ASSUME NEW c \in Clients, NEW kind \in Kinds, Begin(c, kind)
      PROVE  AdaptersInv'
  BY <1>2, BeginIInv
<1>3. CASE Tick
  BY <1>3, TickIInv
<1>4. CASE HostChanges \/ UNCHANGED adapterVars
  <2>1. UNCHANGED <<cache, calls>>
    BY <1>4 DEF HostChanges, adapterVars
  <2> QED BY <2>1 DEF AdaptersInv, Shapes, StoredFresh, ProbedFresh, ServedFresh
<1> QED BY <1>1, <1>2, <1>3, <1>4 DEF AdaptersNext

(* What a read is told of LM Studio was seen no longer ago than a stored probe
   lives and the lms command may take, however probes overlap (capability.ts:
   an entry lives from when it was stored, and a hit does not renew it). *)
THEOREM ReadsAreServedFresh == AdaptersSpec => []ServedFresh
<1>1. AdaptersInv => ServedFresh
  BY DEF AdaptersInv
<1> QED BY <1>1, InitAdapters, NextAdapters, PTL DEF AdaptersSpec
=============================================================================
