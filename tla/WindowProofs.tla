----------------------------- MODULE WindowProofs -----------------------------
(***************************************************************************)
(* PreviewOfBaseline and DeletedGone of Window for any profiles and any    *)
(* number of calls under way.                                              *)
(***************************************************************************)
EXTENDS Window, TLAPS, FiniteSetTheorems

-----------------------------------------------------------------------------
(* The inductive invariant. *)

IsSlot(r) == r = [kind |-> r.kind, call |-> r.call, job |-> r.job, value |-> r.value]
IsJob(j) ==
  /\ j = [slot |-> j.slot, n |-> j.n, call |-> j.call, answer |-> j.answer]
  /\ j.slot \in Slot /\ j.n \in 1 .. MaxJobs + 1

Shapes ==
  /\ DOMAIN slot = Slot /\ slot = [s \in Slot |-> slot[s]] /\ \A s \in Slot : IsSlot(slot[s])
  /\ \A j \in jobs : IsJob(j)
  /\ IsFiniteSet(jobs) /\ Cardinality(jobs) <= MaxJobs

(* A call has the number of its slot to itself, and an answer counts only while
   the slot waits for that call. *)
Single == \A j, k \in jobs : j.slot = k.slot /\ j.n = k.n => j = k
Awaits(r, j) == r.job = j.n => r.kind = "running" /\ r.call = j.call
Settled == \A j \in jobs : Awaits(slot[j.slot], j)

Slots == Shapes /\ Single /\ Settled

(* The preview that is awaited or shown is that of the baseline. *)
PreviewFits(r, t, p) ==
  /\ r.kind # "idle" => t = "optimize"
  /\ r.kind = "running" => p \in {r.call.profile, None}
  /\ r.kind = "done" => p \in {r.value, None}
PreviewKnows ==
  /\ PreviewFits(slot["preview"], tab, pid)
  /\ \A j \in jobs : j.slot = "preview" => j.answer \in {None, Error, j.call.profile}

(* A profile is created once at most: its id is free until then. *)
Creates(j) == j.slot = "create" /\ j.answer = None
CreateFits ==
  /\ \A j \in jobs : Creates(j) => j.call.profile \notin stored
  /\ \A j, k \in jobs : Creates(j) /\ Creates(k) /\ j.call.profile = k.call.profile => j = k

(* A profile is gone and will not come back while the view that deleted it is
   shown. *)
Gone(p) == p \notin stored /\ \A j \in jobs : Creates(j) => j.call.profile # p

HasAnswer(j, s, slots) == j.slot = s /\ slots[s].job = j.n /\ j.answer \notin {None, Error}
RemoveKnows ==
  /\ slot["remove"].kind # "idle" => tab = "profiles" /\ editor = None
  /\ \A j \in jobs : HasAnswer(j, "remove", slot) => Gone(j.call.profile)
  /\ slot["remove"].kind = "done" =>
       /\ Gone(slot["remove"].call.profile)
       /\ slot["list"].kind = "done" => slot["remove"].call.profile \notin slot["list"].value
       /\ \A j \in jobs : HasAnswer(j, "list", slot) => slot["remove"].call.profile \notin j.answer

IInv == tab \in Tabs /\ Slots /\ PreviewKnows /\ CreateFits /\ RemoveKnows

-----------------------------------------------------------------------------
(* Slots and numbers. *)

(* The slots of all views. *)
LEMMA SlotSet ==
  Slot = {"list", "active", "apply", "remove", "context", "dActive", "dApply", "dSafe", "dDefault",
          "create", "update", "preview", "save", "run", "hardware"}
<1>1. DOMAIN SlotsOf = {"profiles", "models", "detail", "editor", "optimize", "benchmark", "hardware"}
  BY DEF SlotsOf
<1>2. Range(SlotsOf) = {SlotsOf[v] : v \in DOMAIN SlotsOf}
  BY DEF Range
<1>3. Slot = SlotsOf.profiles \cup SlotsOf.models \cup SlotsOf.detail \cup SlotsOf.editor
               \cup SlotsOf.optimize \cup SlotsOf.benchmark \cup SlotsOf.hardware
  <2>1. \A s : s \in Slot <=> \E v \in DOMAIN SlotsOf : s \in SlotsOf[v]
    BY <1>2 DEF Slot
  <2> QED BY <2>1, <1>1
<1> QED BY <1>3 DEF SlotsOf

(* There is a number for a new call: more numbers than calls under way. *)
LEMMA FreshUnused ==
  ASSUME Shapes, NEW s \in Slot
  PROVE  Fresh(s) \in 1 .. MaxJobs + 1 /\ \A j \in jobs : j.slot = s => j.n # Fresh(s)
<1>1. MaxJobs \in Nat
  BY WindowAssumption
<1>2. Unused(s) # {}
  <2> DEFINE Used == {j.n : j \in jobs}
  <2>1. IsFiniteSet(Used) /\ Cardinality(Used) <= Cardinality(jobs)
    <3> DEFINE f == [j \in jobs |-> j.n]
    <3>1. IsFiniteSet(jobs)
      BY DEF Shapes
    <3>2. f \in Surjection(jobs, Used)
      BY DEF Surjection
    <3> HIDE DEF f, Used
    <3> QED BY <3>1, <3>2, FS_Surjection
  <2>2. Cardinality(Used) \in Nat /\ Cardinality(jobs) \in Nat /\ Cardinality(jobs) <= MaxJobs
    BY <2>1, FS_CardinalityType DEF Shapes
  <2>3. Cardinality(1 .. MaxJobs + 1) = MaxJobs + 1
    BY <1>1, FS_Interval
  <2>4. ~(1 .. MaxJobs + 1 \subseteq Used)
    <3> SUFFICES ASSUME 1 .. MaxJobs + 1 \subseteq Used PROVE FALSE
      OBVIOUS
    <3>1. Cardinality(1 .. MaxJobs + 1) <= Cardinality(Used)
      BY <2>1, FS_Subset
    <3> HIDE DEF Used
    <3> QED BY <1>1, <2>1, <2>2, <2>3, <3>1
  <2> QED BY <2>4 DEF Unused
<1> QED BY <1>2 DEF Fresh, Unused

(* The calls a step starts are finitely many. *)
LEMMA StartedFinite ==
  ASSUME NEW calls, DOMAIN calls \subseteq Slot, NEW K \in SUBSET jobs, IsFiniteSet(jobs)
  PROVE  IsFiniteSet(K \cup Started(calls))
<1>1. IsFiniteSet(Slot)
  <2>1. \A a, b, c, d : IsFiniteSet({a, b, c, d})
    <3> TAKE a, b, c, d
    <3>1. IsFiniteSet({a} \cup {b}) /\ IsFiniteSet({c} \cup {d})
      BY FS_Singleton, FS_AddElement
    <3>2. IsFiniteSet(({a} \cup {b}) \cup ({c} \cup {d}))
      BY <3>1, FS_Union
    <3>3. {a, b, c, d} = ({a} \cup {b}) \cup ({c} \cup {d})
      OBVIOUS
    <3> QED BY <3>2, <3>3
  <2> DEFINE S1 == {"list", "active", "apply", "remove"}
             S2 == {"context", "dActive", "dApply", "dSafe"}
             S3 == {"dDefault", "create", "update", "preview"}
             S4 == {"save", "run", "hardware", "hardware"}
  <2>2. IsFiniteSet(S1) /\ IsFiniteSet(S2) /\ IsFiniteSet(S3) /\ IsFiniteSet(S4)
    BY <2>1
  <2>3. Slot = (S1 \cup S2) \cup (S3 \cup S4)
    BY SlotSet
  <2> HIDE DEF S1, S2, S3, S4
  <2>4. IsFiniteSet(S1 \cup S2) /\ IsFiniteSet(S3 \cup S4)
    BY <2>2, FS_Union
  <2> QED BY <2>3, <2>4, FS_Union
<1>2. IsFiniteSet(DOMAIN calls) /\ IsFiniteSet(K)
  BY <1>1, FS_Subset
<1>3. IsFiniteSet(Started(calls))
  <2> DEFINE f == [s \in DOMAIN calls |-> [slot |-> s, n |-> Fresh(s), call |-> calls[s], answer |-> None]]
  <2>1. f \in Surjection(DOMAIN calls, Started(calls))
    BY DEF Surjection, Started
  <2> HIDE DEF f
  <2> QED BY <1>2, <2>1, FS_Surjection
<1> QED BY <1>2, <1>3, FS_Union

(* The calls a step starts. *)
LEMMA StartedFacts ==
  ASSUME NEW calls, NEW j \in Started(calls)
  PROVE  /\ j = [slot |-> j.slot, n |-> j.n, call |-> j.call, answer |-> j.answer]
         /\ j.slot \in DOMAIN calls /\ j.n = Fresh(j.slot) /\ j.call = calls[j.slot] /\ j.answer = None
BY DEF Started

Awaiting(c, n) == [kind |-> "running", call |-> c, job |-> n, value |-> None]

(* The fields of a slot that waits, and of one that is idle. *)
LEMMA RecordFields ==
  /\ \A c, n : /\ IsSlot(Awaiting(c, n))
              /\ Awaiting(c, n).kind = "running" /\ Awaiting(c, n).call = c /\ Awaiting(c, n).job = n
  /\ IsSlot(Idle) /\ Idle.kind = "idle" /\ Idle.job = 0
BY DEF IsSlot, Idle, Awaiting

(* What a step leaves in the slots. *)
RunLeaves(calls, gone, kept) ==
  \A s \in Slot :
    /\ s \in DOMAIN calls => slot'[s] = Awaiting(calls[s], Fresh(s))
    /\ s \notin DOMAIN calls /\ s \in gone => slot'[s] = Idle
    /\ s \notin DOMAIN calls /\ s \notin gone => slot'[s] = kept[s]

(* Run says of every slot what the step leaves in it. *)
LEMMA RunFacts ==
  ASSUME NEW calls, NEW gone, NEW kept, Run(calls, gone, kept)
  PROVE  RunLeaves(calls, gone, kept)
BY DEF Run, RunLeaves, Awaiting

(* Slots, with new calls under new numbers. *)
LEMMA RunSlots ==
  ASSUME Slots, NEW calls, DOMAIN calls \subseteq Slot, NEW gone, NEW kept, NEW K \in SUBSET jobs,
         \A s \in Slot : IsSlot(kept[s]),
         \A j \in K : j.slot \in gone \/ Awaits(kept[j.slot], j),
         Run(calls, gone, kept), jobs' = K \cup Started(calls), Cardinality(jobs') <= MaxJobs
  PROVE  Slots'
<1>0. RunLeaves(calls, gone, kept)
  BY RunFacts
<1>a. \A s \in DOMAIN calls : /\ slot'[s].kind = "running" /\ slot'[s].call = calls[s]
                            /\ slot'[s].job = Fresh(s) /\ IsSlot(slot'[s])
  BY <1>0, RecordFields DEF RunLeaves
<1>b. \A s \in Slot : s \notin DOMAIN calls /\ s \in gone => slot'[s].job = 0 /\ IsSlot(slot'[s])
  BY <1>0, RecordFields DEF RunLeaves
<1>c. \A s \in Slot : s \notin DOMAIN calls /\ s \notin gone => slot'[s] = kept[s]
  BY <1>0 DEF RunLeaves
<1>1. \A j \in Started(calls) :
        /\ IsJob(j) /\ j.call = calls[j.slot] /\ j.n = Fresh(j.slot) /\ j.slot \in DOMAIN calls
        /\ \A k \in jobs : k.slot = j.slot => k.n # j.n
  BY StartedFacts, FreshUnused DEF IsJob, Slots
<1>2. Shapes'
  <2>1. IsFiniteSet(jobs')
    BY StartedFinite DEF Slots, Shapes
  <2>2. \A j \in jobs' : IsJob(j)
    BY <1>1 DEF Slots, Shapes
  <2>3. DOMAIN slot' = Slot /\ slot' = [s \in Slot |-> slot'[s]]
    BY DEF Run
  <2>4. ASSUME NEW s \in Slot PROVE IsSlot(slot'[s])
    BY <1>a, <1>b, <1>c
  <2> QED BY <2>1, <2>2, <2>3, <2>4 DEF Shapes, IsJob, IsSlot
<1>3. Single'
  <2> SUFFICES ASSUME NEW j \in jobs', NEW k \in jobs', j.slot = k.slot, j.n = k.n PROVE j = k
    BY DEF Single
  <2>1. CASE j \in K /\ k \in K
    BY <2>1 DEF Slots, Single
  <2>2. CASE j \in Started(calls) /\ k \in Started(calls)
    BY <2>2, StartedFacts
  <2> QED BY <1>1, <2>1, <2>2
<1>4. Settled'
  <2> SUFFICES ASSUME NEW j \in jobs' PROVE Awaits(slot'[j.slot], j)
    BY DEF Settled, Awaits
  <2>1. IsJob(j) /\ j.slot \in Slot /\ j.n \in 1 .. MaxJobs + 1 /\ j.n # 0
    BY <1>2, WindowAssumption DEF Shapes, IsJob
  <2>2. CASE j \in Started(calls)
    BY <1>1, <1>a, <2>2 DEF Awaits
  <2>3. CASE j \in K /\ j.slot \in DOMAIN calls
    <3>1. slot'[j.slot].job = Fresh(j.slot) /\ j.n # Fresh(j.slot)
      BY <1>a, <2>1, <2>3, FreshUnused DEF Slots
    <3> QED BY <3>1 DEF Awaits
  <2>4. CASE j \in K /\ j.slot \notin DOMAIN calls /\ j.slot \in gone
    <3>1. slot'[j.slot].job = 0
      BY <1>b, <2>1, <2>4
    <3> QED BY <2>1, <3>1 DEF Awaits
  <2>5. CASE j \in K /\ j.slot \notin DOMAIN calls /\ j.slot \notin gone
    BY <1>c, <2>1, <2>5
  <2> QED BY <2>2, <2>3, <2>4, <2>5
<1> QED BY <1>2, <1>3, <1>4 DEF Slots

-----------------------------------------------------------------------------
(* A step that starts the calls "calls", unmounts the slots "gone" and leaves K
   of the jobs, after which the slots were "kept". *)

(* Such a step keeps PreviewKnows when a preview is started for the baseline. *)
LEMMA RunPreview ==
  ASSUME PreviewKnows, NEW calls, NEW gone, NEW kept, NEW K \in SUBSET jobs,
         RunLeaves(calls, gone, kept), jobs' = K \cup Started(calls),
         "preview" \in DOMAIN calls => tab' = "optimize" /\ pid' = calls["preview"].profile,
         "preview" \notin DOMAIN calls \cup gone => PreviewFits(kept["preview"], tab', pid')
  PROVE  PreviewKnows'
<1>0. "preview" \in Slot
  BY SlotSet
<1>1. PreviewFits(slot'["preview"], tab', pid')
  <2>1. CASE "preview" \in DOMAIN calls
    <3>1. slot'["preview"].kind = "running" /\ slot'["preview"].call = calls["preview"]
      BY <1>0, <2>1, RecordFields DEF RunLeaves
    <3> QED BY <2>1, <3>1 DEF PreviewFits
  <2>2. CASE "preview" \notin DOMAIN calls /\ "preview" \in gone
    <3>1. slot'["preview"].kind = "idle"
      BY <1>0, <2>2, RecordFields DEF RunLeaves
    <3> QED BY <3>1 DEF PreviewFits
  <2>3. CASE "preview" \notin DOMAIN calls \cup gone
    <3>1. slot'["preview"] = kept["preview"]
      BY <1>0, <2>3 DEF RunLeaves
    <3> QED BY <2>3, <3>1
  <2> QED BY <2>1, <2>2, <2>3
<1>2. \A j \in jobs' : j.slot = "preview" => j.answer \in {None, Error, j.call.profile}
  BY StartedFacts DEF PreviewKnows
<1> QED BY <1>1, <1>2 DEF PreviewKnows, PreviewFits

(* Such a step keeps CreateFits, and what is gone stays gone, when nothing is created. *)
LEMMA RunCreates ==
  ASSUME CreateFits, NEW calls, "create" \notin DOMAIN calls, NEW K \in SUBSET jobs,
         jobs' = K \cup Started(calls), stored' = stored
  PROVE  CreateFits' /\ \A p : Gone(p) => Gone(p)'
<1>1. \A j \in jobs' : Creates(j) => j \in jobs
  BY StartedFacts DEF Creates
<1>2. CreateFits'
  BY <1>1 DEF CreateFits, Creates
<1>3. \A p : Gone(p) => Gone(p)'
  BY <1>1 DEF Gone, Creates
<1> QED BY <1>2, <1>3

(* Such a step keeps RemoveKnows when a list that is still awaited or shown was read
   after the delete, or is read anew. *)
LEMMA RunRemove ==
  ASSUME Slots, Slots', NEW calls, NEW gone, NEW kept, NEW K \in SUBSET jobs,
         DOMAIN calls \subseteq Slot,
         RunLeaves(calls, gone, kept), jobs' = K \cup Started(calls), stored' = stored, CreateFits,
         ~("remove" \in gone /\ "remove" \notin DOMAIN calls) =>
           /\ "remove" \in DOMAIN calls \/ kept["remove"].kind # "idle" =>
                "create" \notin DOMAIN calls /\ tab' = "profiles" /\ editor' = None
           /\ \A j \in K : HasAnswer(j, "remove", kept) =>
                kept["remove"].kind # "idle" /\ Gone(j.call.profile)
           /\ kept["remove"].kind = "done" =>
                /\ Gone(kept["remove"].call.profile)
                /\ "list" \notin DOMAIN calls =>
                     /\ kept["list"].kind = "done" => kept["remove"].call.profile \notin kept["list"].value
                     /\ \A j \in K : HasAnswer(j, "list", kept) => kept["remove"].call.profile \notin j.answer
  PROVE  RemoveKnows'
<1>0. "remove" \in Slot /\ "list" \in Slot
  BY SlotSet
<1>1. \A j \in jobs' : j.n # 0
  BY WindowAssumption DEF Slots, Shapes, IsJob
<1>2. ASSUME NEW s \in Slot, s \in DOMAIN calls, NEW j \in jobs' PROVE ~HasAnswer(j, s, slot')
  <2>1. slot'[s].job = Fresh(s)
    BY <1>2, RecordFields DEF RunLeaves
  <2>2. CASE j \in K
    BY <2>1, <2>2, FreshUnused DEF HasAnswer, Slots
  <2>3. CASE j \in Started(calls)
    BY <2>3, StartedFacts DEF HasAnswer
  <2> QED BY <2>2, <2>3
<1>3. ASSUME NEW s \in Slot, s \notin DOMAIN calls, s \in gone, NEW j \in jobs'
      PROVE  slot'[s].kind = "idle" /\ ~HasAnswer(j, s, slot')
  <2>1. slot'[s].job = 0 /\ slot'[s].kind = "idle"
    BY <1>3, RecordFields DEF RunLeaves
  <2> QED BY <1>1, <2>1 DEF HasAnswer
<1>4. ASSUME NEW s \in Slot, s \notin DOMAIN calls \cup gone
      PROVE  slot'[s] = kept[s] /\ \A j \in jobs' : HasAnswer(j, s, slot') => j \in K /\ HasAnswer(j, s, kept)
  <2>1. slot'[s] = kept[s]
    BY <1>4 DEF RunLeaves
  <2> QED BY <2>1, StartedFacts DEF HasAnswer
<1>5. CASE "remove" \in gone /\ "remove" \notin DOMAIN calls
  <2>1. slot'["remove"].kind = "idle"
    BY <1>0, <1>5, RecordFields DEF RunLeaves
  <2> QED BY <1>0, <1>3, <1>5, <2>1 DEF RemoveKnows, HasAnswer
<1>6. CASE "remove" \in DOMAIN calls
  <2>1. slot'["remove"].kind = "running"
    BY <1>0, <1>6, RecordFields DEF RunLeaves
  <2>2. tab' = "profiles" /\ editor' = None
    BY <1>6
  <2> QED BY <1>0, <1>2, <1>6, <2>1, <2>2 DEF RemoveKnows, HasAnswer
<1>7. CASE "remove" \notin DOMAIN calls \cup gone
  <2>1. slot'["remove"] = kept["remove"]
    BY <1>0, <1>4, <1>7
  <2>2. kept["remove"].kind # "idle" => \A p : Gone(p) => Gone(p)'
    BY <1>7, RunCreates
  <2>3. kept["remove"].kind # "idle" => tab' = "profiles" /\ editor' = None
    BY <1>7
  <2>4. \A j \in jobs' : HasAnswer(j, "remove", slot') => Gone(j.call.profile)'
    BY <1>0, <1>4, <1>7, <2>2
  <2>5. CASE kept["remove"].kind = "done"
    <3>1. Gone(kept["remove"].call.profile)'
      BY <1>7, <2>2, <2>5
    <3>2. slot'["list"].kind = "done" => kept["remove"].call.profile \notin slot'["list"].value
      <4>1. CASE "list" \in DOMAIN calls
        BY <1>0, <4>1, RecordFields DEF RunLeaves
      <4>2. CASE "list" \notin DOMAIN calls /\ "list" \in gone
        BY <1>0, <4>2, RecordFields DEF RunLeaves
      <4>3. CASE "list" \notin DOMAIN calls \cup gone
        BY <1>0, <1>4, <1>7, <2>5, <4>3
      <4> QED BY <4>1, <4>2, <4>3
    <3>3. \A j \in jobs' : HasAnswer(j, "list", slot') => kept["remove"].call.profile \notin j.answer
      <4>1. CASE "list" \in DOMAIN calls
        BY <1>0, <1>2, <4>1
      <4>2. CASE "list" \notin DOMAIN calls /\ "list" \in gone
        BY <1>0, <1>3, <4>2
      <4>3. CASE "list" \notin DOMAIN calls \cup gone
        BY <1>0, <1>4, <1>7, <2>5, <4>3
      <4> QED BY <4>1, <4>2, <4>3
    <3> QED BY <2>1, <2>3, <2>4, <2>5, <3>1, <3>2, <3>3 DEF RemoveKnows, HasAnswer
  <2>6. CASE kept["remove"].kind # "done"
    BY <2>1, <2>3, <2>4, <2>6 DEF RemoveKnows, HasAnswer
  <2> QED BY <2>5, <2>6
<1> QED BY <1>5, <1>6, <1>7

-----------------------------------------------------------------------------
(* The steps of the user. *)

(* What a step keeps was under way. *)
LEMMA KeptJobs ==
  ASSUME NEW gone
  PROVE  Kept(gone) \in SUBSET jobs
BY DEF Kept

(* An answer that counts is one the slot waits for. *)
LEMMA AnswerAwaited ==
  ASSUME Slots, NEW j \in jobs, NEW s, HasAnswer(j, s, slot)
  PROVE  slot[s].kind = "running"
BY DEF Slots, Settled, Awaits, HasAnswer

(* Runs keeps Slots, whatever it starts and unmounts. *)
LEMMA RunsSlots ==
  ASSUME Slots, NEW calls, DOMAIN calls \subseteq Slot, NEW gone, Runs(calls, gone)
  PROVE  Slots' /\ RunLeaves(calls, gone, slot) /\ jobs' = Kept(gone) \cup Started(calls)
<1>1. Run(calls, gone, slot) /\ jobs' = Kept(gone) \cup Started(calls) /\ Cardinality(jobs') <= MaxJobs
  BY DEF Runs
<1>2. RunLeaves(calls, gone, slot)
  BY <1>1, RunFacts
<1>3. \A s \in Slot : IsSlot(slot[s])
  BY DEF Slots, Shapes
<1>4. \A j \in Kept(gone) : j.slot \in gone \/ Awaits(slot[j.slot], j)
  BY KeptJobs DEF Slots, Settled
<1>5. Slots'
  BY <1>1, <1>3, <1>4, KeptJobs, RunSlots
<1> QED BY <1>1, <1>2, <1>5

(* A step of Runs keeps the invariant when it creates nothing, starts a preview for the
   baseline only, and leaves the delete to the profiles tab. *)
LEMMA RunsStep ==
  ASSUME IInv, NEW calls, DOMAIN calls \subseteq Slot, NEW gone, Runs(calls, gone), stored' = stored,
         tab' \in Tabs, "create" \notin DOMAIN calls,
         "preview" \in DOMAIN calls => tab' = "optimize" /\ pid' = calls["preview"].profile,
         "preview" \notin DOMAIN calls \cup gone => PreviewFits(slot["preview"], tab', pid'),
         "remove" \in DOMAIN calls \/ ("remove" \notin gone /\ slot["remove"].kind # "idle") =>
           tab' = "profiles" /\ editor' = None
  PROVE  IInv'
<1>1. Slots' /\ RunLeaves(calls, gone, slot) /\ jobs' = Kept(gone) \cup Started(calls)
  BY RunsSlots DEF IInv
<1>2. PreviewKnows'
  BY <1>1, KeptJobs, RunPreview DEF IInv
<1>3. CreateFits'
  BY <1>1, KeptJobs, RunCreates DEF IInv
<1>4. RemoveKnows'
  <2>1. \A j \in Kept(gone) :
          HasAnswer(j, "remove", slot) => slot["remove"].kind # "idle" /\ Gone(j.call.profile)
    BY KeptJobs, AnswerAwaited DEF IInv, RemoveKnows
  <2>2. slot["remove"].kind = "done" =>
          /\ Gone(slot["remove"].call.profile)
          /\ slot["list"].kind = "done" => slot["remove"].call.profile \notin slot["list"].value
          /\ \A j \in Kept(gone) :
               HasAnswer(j, "list", slot) => slot["remove"].call.profile \notin j.answer
    BY KeptJobs DEF IInv, RemoveKnows
  <2>3. Slots /\ CreateFits
    BY DEF IInv
  <2> QED BY <1>1, <2>1, <2>2, <2>3, KeptJobs, RunRemove
<1> QED BY <1>1, <1>2, <1>3, <1>4 DEF IInv

(* Nothing is asked for. *)
LEMMA QuietStep ==
  ASSUME IInv, UNCHANGED <<slot, jobs, stored, tab, pid>>, tab = "profiles" => editor' = editor
  PROVE  IInv'
<1>1. Slots' /\ PreviewKnows' /\ CreateFits'
  BY DEF IInv, Slots, Shapes, Single, Settled, PreviewKnows, PreviewFits, CreateFits
<1>2. \A p : Gone(p)' <=> Gone(p)
  BY DEF Gone
<1>3. RemoveKnows'
  BY <1>2 DEF IInv, RemoveKnows
<1> QED BY <1>1, <1>3 DEF IInv

(* What a view asks for when it is mounted: a preview is that of the baseline. *)
LEMMA MountFacts ==
  ASSUME NEW v \in Tabs \cup {"editor", "detail"}, NEW p
  PROVE  /\ DOMAIN OnMount(v, p) \subseteq Slot \ {"create", "remove"}
         /\ "preview" \in DOMAIN OnMount(v, p) => v = "optimize" /\ OnMount(v, p)["preview"].profile = p
<1>1. v \in {"models", "profiles", "optimize", "benchmark", "hardware", "editor", "detail"}
  BY DEF Tabs
<1>2. "preview" \in DOMAIN OnMount(v, p) => v = "optimize" /\ OnMount(v, p)["preview"] = Call(p, FALSE)
  BY <1>1 DEF OnMount
<1>3. DOMAIN OnMount(v, p) \subseteq Slot \ {"create", "remove"}
  BY <1>1, SlotSet DEF OnMount
<1> QED BY <1>2, <1>3 DEF Call

(* Showing a view mounts it anew: every slot starts over. *)
LEMMA ShowStep ==
  ASSUME IInv, NEW t \in Tabs, NEW e, NEW p, Show(t, e, p)
  PROVE  IInv'
<1> DEFINE view == IF t = "profiles" /\ e # None THEN "editor" ELSE t
<1>1. /\ tab' = t /\ pid' = p /\ editor' = e /\ stored' = stored
      /\ Runs(OnMount(view, p), Slot)
  BY DEF Show, sidecar
<1>2. view \in Tabs \cup {"editor", "detail"} /\ (view = "optimize" => t = "optimize")
  OBVIOUS
<1> HIDE DEF view
<1>3. "preview" \in Slot /\ "remove" \in Slot
  BY SlotSet
<1> QED BY <1>1, <1>2, <1>3, MountFacts, RunsStep

(* The window opens on the models, with one call under way. *)
LEMMA InitIInv == Init => IInv
<1> SUFFICES ASSUME Init PROVE IInv
  OBVIOUS
<1> DEFINE first == [slot |-> "context", n |-> 1, call |-> Plain, answer |-> None]
<1>1. /\ jobs = {first} /\ tab = "models" /\ pid = None
      /\ \A s \in Slot : slot[s] = IF s = "context" THEN Awaiting(Plain, 1) ELSE Idle
      /\ DOMAIN slot = Slot /\ slot = [s \in Slot |-> slot[s]]
  BY SlotSet DEF Init, Awaiting
<1>2. /\ first.slot = "context" /\ first.n = 1 /\ first.call = Plain /\ first.answer = None
      /\ first = [slot |-> first.slot, n |-> first.n, call |-> first.call, answer |-> first.answer]
  OBVIOUS
<1> HIDE DEF first
<1>3. Shapes
  <2>1. IsFiniteSet(jobs) /\ Cardinality(jobs) = 1
    BY <1>1, FS_Singleton
  <2>2. MaxJobs \in Nat \ {0}
    BY WindowAssumption
  <2>3. IsJob(first)
    BY <1>2, <2>2, SlotSet DEF IsJob
  <2>4. \A s \in Slot : IsSlot(slot[s])
    BY <1>1, RecordFields
  <2> QED BY <1>1, <2>1, <2>2, <2>3, <2>4 DEF Shapes
<1>4. Single
  BY <1>1 DEF Single
<1>5. Settled
  BY <1>1, <1>2, SlotSet, RecordFields DEF Settled, Awaits
<1>6. slot["preview"].kind = "idle" /\ slot["remove"].kind = "idle"
  BY <1>1, SlotSet, RecordFields
<1>7. PreviewKnows
  BY <1>1, <1>2, <1>6 DEF PreviewKnows, PreviewFits
<1>8. CreateFits
  BY <1>1, <1>2 DEF CreateFits, Creates
<1>9. RemoveKnows
  BY <1>1, <1>2, <1>6 DEF RemoveKnows, HasAnswer
<1> QED BY <1>1, <1>3, <1>4, <1>5, <1>7, <1>8, <1>9 DEF IInv, Slots, Tabs

(* Navigation keeps the invariant. *)
LEMMA NavigateStep ==
  ASSUME IInv, NEW t \in Tabs, Navigate(t)
  PROVE  IInv'
BY ShowStep DEF Navigate

(* A wizard mounts its view on the chosen baseline. *)
LEMMA OpenWizardStep ==
  ASSUME IInv, NEW t \in Tabs, NEW p, OpenWizard(t, p)
  PROVE  IInv'
BY ShowStep DEF OpenWizard

(* The editor replaces the list, or is chosen while the detail page is shown. *)
LEMMA OpenEditorStep ==
  ASSUME IInv, NEW e, OpenEditor(e)
  PROVE  IInv'
<1>1. CASE Show("profiles", e, None)
  BY <1>1, ShowStep DEF Tabs
<1>2. CASE Detail /\ UNCHANGED <<tab, selected, pid, asks, slot, jobs, sidecar>>
  BY <1>2, QuietStep DEF Detail, sidecar
<1> QED BY <1>1, <1>2 DEF OpenEditor

(* The list is mounted again. *)
LEMMA CloseEditorStep ==
  ASSUME IInv, CloseEditor
  PROVE  IInv'
BY ShowStep DEF CloseEditor, Tabs

(* The page of a model reads the active state. *)
LEMMA SelectModelStep ==
  ASSUME IInv, SelectModel
  PROVE  IInv'
<1>1. /\ tab = "models" /\ tab' = tab /\ pid' = pid /\ editor' = editor /\ stored' = stored
      /\ tab' \in Tabs /\ Runs(OnMount("detail", None), {})
  BY DEF SelectModel, sidecar, Tabs
<1>2. /\ DOMAIN OnMount("detail", None) \subseteq Slot \ {"create", "remove"}
      /\ "preview" \notin DOMAIN OnMount("detail", None)
  BY MountFacts
<1>3. PreviewFits(slot["preview"], tab', pid')
  BY <1>1 DEF IInv, PreviewKnows
<1>4. slot["remove"].kind # "idle" => tab' = "profiles" /\ editor' = None
  BY <1>1 DEF IInv, RemoveKnows
<1> QED BY <1>1, <1>2, <1>3, <1>4, RunsStep

(* The page of a model goes, with its slots. *)
LEMMA BackStep ==
  ASSUME IInv, Back
  PROVE  IInv'
<1>1. /\ tab = "models" /\ tab' = tab /\ pid' = pid /\ editor' = editor /\ stored' = stored
      /\ tab' \in Tabs /\ Runs(<<>>, SlotsOf.detail)
  BY DEF Back, Detail, sidecar, Tabs
<1>2. DOMAIN << >> = {}
  OBVIOUS
<1>3. PreviewFits(slot["preview"], tab', pid')
  BY <1>1 DEF IInv, PreviewKnows
<1>4. slot["remove"].kind # "idle" => tab' = "profiles" /\ editor' = None
  BY <1>1 DEF IInv, RemoveKnows
<1> QED BY <1>1, <1>2, <1>3, <1>4, RunsStep

(* A button that starts one call. *)
LEMMA PressStep ==
  ASSUME IInv, NEW s \in Slot \ {"create"}, NEW call, Press(s, call),
         s = "preview" => tab = "optimize" /\ pid = call.profile,
         s = "remove" => tab = "profiles" /\ editor = None
  PROVE  IInv'
<1> DEFINE calls == [x \in {s} |-> call]
<1>1. /\ tab' = tab /\ pid' = pid /\ editor' = editor /\ stored' = stored
      /\ tab' \in Tabs /\ Runs(calls, {})
  BY DEF Press, app, sidecar, IInv
<1>2. DOMAIN calls = {s} /\ calls[s] = call
  OBVIOUS
<1> HIDE DEF calls
<1>3. PreviewFits(slot["preview"], tab', pid')
  BY <1>1 DEF IInv, PreviewKnows
<1>4. slot["remove"].kind # "idle" => tab' = "profiles" /\ editor' = None
  BY <1>1 DEF IInv, RemoveKnows
<1>5. "create" \notin DOMAIN calls /\ DOMAIN calls \subseteq Slot
  BY <1>2
<1>6. "preview" \in DOMAIN calls => tab' = "optimize" /\ pid' = calls["preview"].profile
  BY <1>1, <1>2
<1>7. "remove" \in DOMAIN calls => tab' = "profiles" /\ editor' = None
  BY <1>1, <1>2
<1> QED BY <1>1, <1>3, <1>4, <1>5, <1>6, <1>7, RunsStep

(* A delete starts in the profiles tab only. *)
LEMMA DeleteStep ==
  ASSUME IInv, NEW p, AskDelete(p) \/ Delete(p)
  PROVE  IInv'
<1>1. CASE AskDelete(p)
  BY <1>1, QuietStep DEF AskDelete, app, sidecar
<1>2. CASE Delete(p)
  <2>1. tab = "profiles" /\ editor = None
    BY <1>2 DEF Delete, Card, Shown
  <2>2. Press("remove", Call(p, TRUE))
    BY <1>2 DEF Delete
  <2> QED BY <2>1, <2>2, SlotSet, PressStep
<1> QED BY <1>1, <1>2

(* An apply starts at once or after the user was asked. *)
LEMMA ApplyStep ==
  ASSUME IInv, NEW p, ApplyCard(p) \/ ApplyEntry(p) \/ ConfirmApply(p)
  PROVE  IInv'
<1>1. ASSUME NEW s \in {"apply", "dApply"}, NEW active, Apply(p, s, active)
      PROVE  IInv'
  <2>1. CASE Press(s, Call(p, FALSE))
    BY <1>1, <2>1, SlotSet, PressStep
  <2>2. CASE UNCHANGED <<app, slot, jobs, sidecar>>
    BY <2>2, QuietStep DEF app, sidecar
  <2> QED BY <1>1, <2>1, <2>2 DEF Apply
<1>2. CASE ApplyCard(p) \/ ApplyEntry(p)
  BY <1>1, <1>2 DEF ApplyCard, ApplyEntry
<1>3. CASE ConfirmApply(p)
  <2>1. Press("apply", Call(p, TRUE)) \/ Press("dApply", Call(p, TRUE))
    BY <1>3 DEF ConfirmApply
  <2> QED BY <2>1, SlotSet, PressStep
<1> QED BY <1>2, <1>3

(* The other buttons start one call each. *)
LEMMA ButtonStep ==
  ASSUME IInv, StartSafe \/ Go \/ Refresh \/ \E p \in Profile : ChooseDefault(p)
  PROVE  IInv'
<1>1. CASE StartSafe
  BY <1>1, SlotSet, PressStep DEF StartSafe
<1>2. CASE Go
  BY <1>2, SlotSet, PressStep DEF Go
<1>3. CASE Refresh
  <2>1. \/ Press("context", Plain)
        \/ tab = "optimize" /\ Press("preview", Call(pid, FALSE))
    BY <1>3 DEF Refresh
  <2>2. Call(pid, FALSE).profile = pid
    BY DEF Call
  <2> QED BY <2>1, <2>2, SlotSet, PressStep
<1>4. ASSUME NEW p \in Profile, ChooseDefault(p) PROVE IInv'
  BY <1>4, SlotSet, PressStep DEF ChooseDefault
<1> QED BY <1>1, <1>2, <1>3, <1>4

(* A new profile has an id that is neither stored nor about to be: no list of
   this view shows a deleted profile for it. *)
LEMMA CreateStep ==
  ASSUME IInv, tab = "profiles", editor # None, NEW p \in NewId, Press("create", Call(p, FALSE))
  PROVE  IInv'
<1> DEFINE calls == [x \in {"create"} |-> Call(p, FALSE)]
<1>1. /\ tab' = tab /\ pid' = pid /\ editor' = editor /\ stored' = stored
      /\ tab' \in Tabs /\ Runs(calls, {})
  BY DEF Press, app, sidecar, IInv
<1>2. DOMAIN calls = {"create"} /\ calls["create"].profile = p
  BY DEF Call
<1> HIDE DEF calls
<1>3. "create" \in Slot /\ DOMAIN calls \subseteq Slot
  BY <1>2, SlotSet
<1>4. Slots' /\ RunLeaves(calls, {}, slot) /\ jobs' = Kept({}) \cup Started(calls)
  BY <1>1, <1>3, RunsSlots DEF IInv
<1>5. PreviewKnows'
  <2>1. PreviewFits(slot["preview"], tab', pid') /\ "preview" \notin DOMAIN calls
    BY <1>1, <1>2 DEF IInv, PreviewKnows
  <2> QED BY <1>4, <2>1, KeptJobs, RunPreview DEF IInv
<1>6. CreateFits'
  <2>1. p \notin stored /\ \A j \in jobs : Creates(j) => j.call.profile # p
    BY DEF NewId, Creates
  <2>2. \A j \in Started(calls) : j.call.profile = p
    BY <1>2, StartedFacts
  <2>3. \A j, k \in Started(calls) : j = k
    BY <1>2, StartedFacts
  <2>4. \A j \in jobs' : j \in jobs \/ j \in Started(calls)
    BY <1>4, KeptJobs
  <2>5. \A j \in jobs' : Creates(j) => j.call.profile \notin stored
    BY <2>1, <2>2, <2>4 DEF IInv, CreateFits
  <2>6. \A j, k \in jobs' : Creates(j) /\ Creates(k) /\ j.call.profile = k.call.profile => j = k
    BY <2>1, <2>2, <2>3, <2>4 DEF IInv, CreateFits
  <2> QED BY <1>1, <2>5, <2>6 DEF CreateFits, Creates
<1>7. RemoveKnows'
  <2>1. slot["remove"].kind = "idle"
    BY <1>3 DEF IInv, RemoveKnows
  <2>2. \A j \in Kept({}) : ~HasAnswer(j, "remove", slot)
    BY <2>1, KeptJobs, AnswerAwaited DEF IInv
  <2>3. Slots /\ CreateFits /\ "remove" \notin DOMAIN calls
    BY <1>2 DEF IInv
  <2> QED BY <1>1, <1>3, <1>4, <2>1, <2>2, <2>3, KeptJobs, RunRemove
<1> QED BY <1>1, <1>4, <1>5, <1>6, <1>7 DEF IInv

(* The editor creates or updates. *)
LEMMA SubmitStep ==
  ASSUME IInv, Submit
  PROVE  IInv'
<1>1. tab = "profiles" /\ editor # None
  BY DEF Submit, Shown, Tabs, IInv
<1>2. \/ \E p \in NewId : Press("create", Call(p, FALSE))
      \/ Press("update", Call(editor, FALSE))
  BY DEF Submit
<1> QED BY <1>1, <1>2, SlotSet, CreateStep, PressStep

(* Another baseline: the preview starts over, or there is none. *)
LEMMA PickStep ==
  ASSUME IInv, NEW p, Pick(p)
  PROVE  IInv'
<1> DEFINE calls == [s \in IF tab = "optimize" /\ p # None THEN {"preview"} ELSE {} |-> Call(p, FALSE)]
<1>1. /\ tab \in {"optimize", "benchmark"} /\ tab' = tab /\ pid' = p /\ editor' = editor /\ stored' = stored
      /\ tab' \in Tabs /\ Runs(calls, {})
  BY DEF Pick, sidecar, Tabs
<1>2. /\ DOMAIN calls \subseteq {"preview"}
      /\ "preview" \in DOMAIN calls <=> tab = "optimize" /\ p # None
      /\ "preview" \in DOMAIN calls => calls["preview"].profile = p
  BY DEF Call
<1> HIDE DEF calls
<1>3. "preview" \notin DOMAIN calls => PreviewFits(slot["preview"], tab', pid')
  <2>1. PreviewFits(slot["preview"], tab, pid)
    BY DEF IInv, PreviewKnows
  <2> QED BY <1>1, <1>2, <2>1 DEF PreviewFits, IInv, Slots, Shapes, IsSlot
<1>4. slot["remove"].kind = "idle"
  BY <1>1 DEF IInv, RemoveKnows
<1>5. DOMAIN calls \subseteq Slot /\ "create" \notin DOMAIN calls /\ "remove" \notin DOMAIN calls
  BY <1>2, SlotSet
<1> QED BY <1>1, <1>2, <1>3, <1>4, <1>5, RunsStep

-----------------------------------------------------------------------------
(* The sidecar runs a call. *)

(* Dropping or replacing a call leaves the numbers as they are. *)
LEMMA AnsweredSlots ==
  ASSUME Slots, NEW j \in jobs, NEW v, Answered(j, v), slot' = slot
  PROVE  /\ Slots'
         /\ \A k \in jobs' : \/ k \in jobs /\ k # j
                             \/ k.slot = j.slot /\ k.n = j.n /\ k.call = j.call /\ k.answer = v
<1> DEFINE a == [j EXCEPT !.answer = v]
<1>1. IsJob(j) /\ IsFiniteSet(jobs) /\ Cardinality(jobs) <= MaxJobs
  BY DEF Slots, Shapes
<1>2. a = [slot |-> j.slot, n |-> j.n, call |-> j.call, answer |-> v]
  BY <1>1 DEF IsJob
<1>3. a.slot = j.slot /\ a.n = j.n /\ a.call = j.call /\ a.answer = v
  BY <1>2
<1>4. IsJob(a)
  BY <1>1, <1>2, <1>3 DEF IsJob
<1>5. jobs' = jobs \ {j} \/ jobs' = (jobs \ {j}) \cup {a}
  BY DEF Answered
<1> HIDE DEF a
<1>6. \A k \in jobs' : (k \in jobs /\ k # j) \/ k = a
  BY <1>5
<1>7. IsFiniteSet(jobs') /\ Cardinality(jobs') <= MaxJobs
  <2>0. MaxJobs \in Nat /\ Cardinality(jobs) \in Nat
    BY <1>1, WindowAssumption, FS_CardinalityType
  <2>1. IsFiniteSet(jobs \ {j}) /\ Cardinality(jobs \ {j}) = Cardinality(jobs) - 1
    BY <1>1, FS_RemoveElement
  <2>2. IsFiniteSet((jobs \ {j}) \cup {a})
        /\ Cardinality((jobs \ {j}) \cup {a}) <= Cardinality(jobs)
    <3>1. CASE a \in jobs \ {j}
      <4>1. (jobs \ {j}) \cup {a} = jobs \ {j}
        BY <3>1
      <4> QED BY <2>0, <2>1, <4>1
    <3>2. CASE a \notin jobs \ {j}
      <4>1. /\ IsFiniteSet((jobs \ {j}) \cup {a})
            /\ Cardinality((jobs \ {j}) \cup {a}) = Cardinality(jobs \ {j}) + 1
        BY <2>1, <3>2, FS_AddElement
      <4> QED BY <2>0, <2>1, <4>1
    <3> QED BY <3>1, <3>2
  <2>3. IsFiniteSet(jobs') /\ Cardinality(jobs') <= Cardinality(jobs)
    BY <1>5, <2>0, <2>1, <2>2
  <2>4. Cardinality(jobs') \in Nat
    BY <2>3, FS_CardinalityType
  <2> QED BY <1>1, <2>0, <2>3, <2>4
<1>8. Shapes'
  BY <1>4, <1>6, <1>7 DEF Slots, Shapes, IsJob, IsSlot
<1>9. Single'
  BY <1>3, <1>6 DEF Slots, Single
<1>10. Settled'
  BY <1>3, <1>6 DEF Slots, Settled, Awaits
<1> QED BY <1>3, <1>6, <1>8, <1>9, <1>10 DEF Slots

(* What the sidecar answers, and what it does to the store. *)
LEMMA ServeFacts ==
  ASSUME NEW j, Serve(j)
  PROVE  /\ j.answer = None /\ slot' = slot
         /\ tab' = tab /\ pid' = pid /\ editor' = editor
         /\ \E v :
              /\ Answered(j, v)
              /\ j.slot = "preview" => v \in {Error, j.call.profile}
              /\ j.slot = "create" => v # None
              /\ j.slot = "list" => v \in {Error, stored}
              /\ \/ stored' = stored /\ (j.slot = "remove" => v = Error)
                 \/ /\ j.slot = "remove" /\ j.call.profile \in stored
                    /\ stored' = stored \ {j.call.profile}
                 \/ j.slot = "create" /\ stored' = stored \cup {j.call.profile}
<1>1. j.answer = None /\ slot' = slot /\ tab' = tab /\ pid' = pid /\ editor' = editor
  BY DEF Serve, app
<1>2. None # Error /\ None # "ok"
  BY WindowAssumption
<1>3. CASE j.slot \in {"list", "context"} /\ Answered(j, stored) /\ UNCHANGED sidecar
  BY <1>1, <1>3 DEF sidecar
<1>4. CASE j.slot \in {"active", "dActive"} /\ Answered(j, host) /\ UNCHANGED sidecar
  BY <1>1, <1>4 DEF sidecar
<1>5. CASE j.slot \in {"apply", "dApply", "dSafe"} /\ Answered(j, "outcome") /\ UNCHANGED stored
  BY <1>1, <1>5
<1>6. CASE /\ j.slot = "remove" /\ j.call.profile \in stored
           /\ stored' = stored \ {j.call.profile}
           /\ Answered(j, "ok")
  BY <1>1, <1>6
<1>7. CASE /\ j.slot = "create"
           /\ stored' = stored \cup {j.call.profile}
           /\ Answered(j, "ok")
  BY <1>1, <1>2, <1>7
<1>8. CASE /\ j.slot \in {"preview", "save", "run", "dDefault", "update"}
           /\ Answered(j, j.call.profile) /\ UNCHANGED sidecar
  BY <1>1, <1>8 DEF sidecar
<1>9. CASE j.slot = "hardware" /\ Answered(j, "ok") /\ UNCHANGED sidecar
  BY <1>1, <1>9 DEF sidecar
<1>10. CASE Answered(j, Error) /\ UNCHANGED sidecar
  BY <1>1, <1>2, <1>10 DEF sidecar
<1> QED BY <1>3, <1>4, <1>5, <1>6, <1>7, <1>8, <1>9, <1>10 DEF Serve

(* A call that runs keeps the invariant: a profile that is created was not
   deleted from a list that is shown, a profile that is deleted is not about
   to be created, and a list is read from the store. *)
LEMMA ServeStep ==
  ASSUME IInv, NEW j \in jobs, Serve(j)
  PROVE  IInv'
<1>1. /\ j.answer = None /\ slot' = slot
      /\ tab' = tab /\ pid' = pid /\ editor' = editor
  BY ServeFacts
<1>2. PICK v :
        /\ Answered(j, v)
        /\ j.slot = "preview" => v \in {Error, j.call.profile}
        /\ j.slot = "create" => v # None
        /\ j.slot = "list" => v \in {Error, stored}
        /\ \/ stored' = stored /\ (j.slot = "remove" => v = Error)
           \/ /\ j.slot = "remove" /\ j.call.profile \in stored
              /\ stored' = stored \ {j.call.profile}
           \/ j.slot = "create" /\ stored' = stored \cup {j.call.profile}
  BY ServeFacts
<1>3. /\ Slots'
      /\ \A k \in jobs' : \/ k \in jobs /\ k # j
                          \/ k.slot = j.slot /\ k.n = j.n /\ k.call = j.call /\ k.answer = v
  BY <1>1, <1>2, AnsweredSlots DEF IInv
<1>4. \A k \in jobs' : Creates(k) => k \in jobs /\ k # j
  BY <1>2, <1>3 DEF Creates
<1>5. PreviewKnows'
  BY <1>1, <1>2, <1>3 DEF IInv, PreviewKnows, PreviewFits
<1>6. CreateFits'
  <2>1. \A k \in jobs' : Creates(k) => k.call.profile \notin stored'
    BY <1>1, <1>2, <1>4 DEF IInv, CreateFits, Creates
  <2> QED BY <1>4, <2>1 DEF IInv, CreateFits, Creates
<1>7. \A p : Gone(p) => Gone(p)'
  <2> SUFFICES ASSUME NEW p, Gone(p) PROVE Gone(p)'
    OBVIOUS
  <2>1. p \notin stored'
    BY <1>1, <1>2 DEF Gone, Creates
  <2>2. \A k \in jobs' : Creates(k) => k.call.profile # p
    BY <1>4 DEF Gone
  <2> QED BY <2>1, <2>2 DEF Gone, Creates
<1>8. \A k \in jobs' : HasAnswer(k, "remove", slot) => Gone(k.call.profile)'
  <2> SUFFICES ASSUME NEW k \in jobs', HasAnswer(k, "remove", slot) PROVE Gone(k.call.profile)'
    OBVIOUS
  <2>1. CASE k \in jobs
    BY <1>7, <2>1 DEF IInv, RemoveKnows
  <2>2. CASE k.slot = j.slot /\ k.n = j.n /\ k.call = j.call /\ k.answer = v
    <3>1. j.slot = "remove" /\ j.call.profile \in stored /\ stored' = stored \ {j.call.profile}
      BY <1>2, <2>2 DEF HasAnswer
    <3>2. \A i \in jobs' : Creates(i) => i.call.profile # j.call.profile
      BY <1>4, <3>1 DEF IInv, CreateFits
    <3> QED BY <2>2, <3>1, <3>2 DEF Gone, Creates
  <2> QED BY <1>3, <2>1, <2>2
<1>9. ASSUME slot["remove"].kind = "done", NEW k \in jobs', HasAnswer(k, "list", slot)
      PROVE  slot["remove"].call.profile \notin k.answer
  <2>1. CASE k \in jobs
    BY <1>9, <2>1 DEF IInv, RemoveKnows
  <2>2. CASE k.slot = j.slot /\ k.n = j.n /\ k.call = j.call /\ k.answer = v
    BY <1>2, <1>9, <2>2 DEF HasAnswer, IInv, RemoveKnows, Gone
  <2> QED BY <1>3, <2>1, <2>2
<1>10. RemoveKnows'
  BY <1>1, <1>7, <1>8, <1>9 DEF IInv, RemoveKnows, HasAnswer
<1> QED BY <1>1, <1>3, <1>5, <1>6, <1>10 DEF IInv

-----------------------------------------------------------------------------
(* An answer reaches the window. *)

(* An answer changes what its own slot shows, and nothing else. *)
LEMMA DeliveredFacts ==
  ASSUME Slots, NEW j \in jobs
  PROVE  /\ \A s \in Slot : IsSlot(Delivered(j)[s])
         /\ \A s \in Slot : s # j.slot => Delivered(j)[s] = slot[s]
         /\ \A s \in Slot : /\ Delivered(j)[s].job = slot[s].job
                            /\ Delivered(j)[s].call = slot[s].call
         /\ Delivered(j)[j.slot].kind = IF j.answer = Error THEN "error" ELSE "done"
         /\ Delivered(j)[j.slot].value = j.answer
<1> DEFINE r == slot[j.slot]
           d == [kind |-> IF j.answer = Error THEN "error" ELSE "done",
                 call |-> r.call, job |-> r.job, value |-> j.answer]
<1>1. /\ j.slot \in Slot /\ DOMAIN slot = Slot /\ slot = [s \in Slot |-> slot[s]]
      /\ \A s \in Slot : IsSlot(slot[s])
  BY DEF Slots, Shapes, IsJob
<1>2. r = [kind |-> r.kind, call |-> r.call, job |-> r.job, value |-> r.value]
  BY <1>1 DEF IsSlot
<1>3. d = [[r EXCEPT !.kind = IF j.answer = Error THEN "error" ELSE "done"] EXCEPT !.value = j.answer]
  <2> DEFINE k == IF j.answer = Error THEN "error" ELSE "done"
             e == [r EXCEPT !.kind = k]
  <2> HIDE DEF r, k
  <2>1. e = [kind |-> k, call |-> r.call, job |-> r.job, value |-> r.value]
    BY <1>2
  <2> HIDE DEF e
  <2>2. [e EXCEPT !.value = j.answer] = [kind |-> k, call |-> r.call, job |-> r.job, value |-> j.answer]
    BY <2>1
  <2> QED BY <2>2 DEF e, k, r
<1>4. Delivered(j) = [slot EXCEPT ![j.slot] = d]
  BY <1>1, <1>3 DEF Delivered
<1>5. /\ IsSlot(d) /\ d.job = r.job /\ d.call = r.call /\ d.value = j.answer
      /\ d.kind = IF j.answer = Error THEN "error" ELSE "done"
  BY DEF IsSlot
<1> HIDE DEF d
<1>6. Delivered(j)[j.slot] = d /\ \A s \in Slot : s # j.slot => Delivered(j)[s] = slot[s]
  BY <1>1, <1>4
<1> QED BY <1>1, <1>5, <1>6

(* What follows an answer. *)
LEMMA FollowsFacts ==
  ASSUME NEW j
  PROVE  /\ DOMAIN Follows(j) \subseteq Slot \ {"create", "remove", "preview"}
         /\ j.slot = "remove" => "list" \in DOMAIN Follows(j)
         /\ "remove" \notin Closes(j) /\ "preview" \notin Closes(j)
<1>1. /\ DOMAIN OnMount("detail", None) = {"dActive"}
      /\ DOMAIN OnMount("profiles", None) = {"list", "active"}
  BY DEF OnMount
<1>2. DOMAIN << >> = {}
  OBVIOUS
<1>3. SlotsOf.editor = {"create", "update"} /\ SlotsOf.detail = {"dActive", "dApply", "dSafe", "dDefault"}
  BY DEF SlotsOf
<1>4. "remove" \notin Closes(j) /\ "preview" \notin Closes(j)
  BY <1>3 DEF Closes
<1>5. DOMAIN Follows(j) \in {{}, {"active"}, {"list", "active"}, {"dActive"}, {"context"}}
  BY <1>1, <1>2 DEF Follows
<1>6. j.slot = "remove" => DOMAIN Follows(j) = {"list", "active"}
  <2>1. j.slot = "remove" => Follows(j) = [x \in {"list", "active"} |-> Plain]
    BY <1>3 DEF Follows
  <2> QED BY <2>1
<1> QED BY <1>4, <1>5, <1>6, SlotSet

(* An answer nobody waits for is dropped. *)
LEMMA DropStep ==
  ASSUME IInv, NEW j \in jobs, jobs' = jobs \ {j},
         UNCHANGED <<slot, tab, pid, editor, stored>>
  PROVE  IInv'
<1>1. Slots'
  <2>1. IsFiniteSet(jobs) /\ Cardinality(jobs) <= MaxJobs /\ MaxJobs \in Nat
    BY WindowAssumption DEF IInv, Slots, Shapes
  <2>2. IsFiniteSet(jobs') /\ Cardinality(jobs') <= MaxJobs
    <3>1. IsFiniteSet(jobs \ {j}) /\ Cardinality(jobs \ {j}) = Cardinality(jobs) - 1
      BY <2>1, FS_RemoveElement
    <3>2. Cardinality(jobs) \in Nat
      BY <2>1, FS_CardinalityType
    <3> QED BY <2>1, <3>1, <3>2
  <2> QED BY <2>2 DEF IInv, Slots, Shapes, Single, Settled
<1>2. PreviewKnows' /\ CreateFits'
  BY DEF IInv, PreviewKnows, PreviewFits, CreateFits
<1>3. \A p : Gone(p) => Gone(p)'
  BY DEF Gone
<1>4. RemoveKnows'
  BY <1>3 DEF IInv, RemoveKnows
<1> QED BY <1>1, <1>2, <1>4 DEF IInv

(* An answer that is waited for: a preview is that of the baseline, and after a
   delete the list is read anew before it is shown again. *)
LEMMA DeliverStep ==
  ASSUME IInv, NEW j \in jobs, Deliver(j)
  PROVE  IInv'
<1>1. j.answer # None /\ tab' = tab /\ pid' = pid /\ stored' = stored
  BY DEF Deliver, sidecar
<1>2. CASE ~Counts(j)
  <2>1. jobs' = jobs \ {j} /\ slot' = slot /\ editor' = editor
    BY <1>2 DEF Deliver
  <2> QED BY <1>1, <2>1, DropStep
<1>3. CASE Counts(j)
  <2> DEFINE calls == IF j.answer = Error THEN <<>> ELSE Follows(j)
             gone == IF j.answer = Error THEN {} ELSE Closes(j)
             kept == Delivered(j)
             K == Kept(gone) \ {j}
  <2>1. /\ Run(calls, gone, kept) /\ jobs' = K \cup Started(calls) /\ Cardinality(jobs') <= MaxJobs
        /\ editor' \in {None, editor}
    BY <1>3 DEF Deliver
  <2>2. /\ DOMAIN calls \subseteq Slot \ {"create", "remove", "preview"}
        /\ j.slot = "remove" /\ j.answer # Error => "list" \in DOMAIN calls
        /\ "remove" \notin gone /\ "preview" \notin gone
    <3>1. DOMAIN << >> = {}
      OBVIOUS
    <3> QED BY <3>1, FollowsFacts
  <2>3. K \in SUBSET jobs /\ j \notin K
    BY KeptJobs
  <2>4. /\ slot[j.slot].kind = "running" /\ slot[j.slot].call = j.call
        /\ slot[j.slot].job = j.n /\ j.slot \in Slot
    BY <1>3 DEF Counts, IInv, Slots, Shapes, IsJob, Settled, Awaits
  <2>5. /\ \A s \in Slot : IsSlot(kept[s])
        /\ \A s \in Slot : s # j.slot => kept[s] = slot[s]
        /\ \A s \in Slot : kept[s].job = slot[s].job /\ kept[s].call = slot[s].call
        /\ kept[j.slot].kind = (IF j.answer = Error THEN "error" ELSE "done")
        /\ kept[j.slot].value = j.answer
    BY DeliveredFacts DEF IInv
  <2> HIDE DEF calls, gone, kept, K
  <2>6. ASSUME NEW k \in K PROVE Awaits(kept[k.slot], k)
    <3>1. CASE k.slot = j.slot
      <4>1. k.n # j.n
        BY <2>3, <3>1 DEF IInv, Slots, Single
      <4> QED BY <2>4, <2>5, <3>1, <4>1 DEF Awaits
    <3>2. CASE k.slot # j.slot
      BY <2>3, <2>5, <3>2 DEF IInv, Slots, Shapes, IsJob, Settled
    <3> QED BY <3>1, <3>2
  <2>7. Slots'
    BY <2>1, <2>2, <2>3, <2>5, <2>6, RunSlots DEF IInv
  <2>8. RunLeaves(calls, gone, kept) /\ "preview" \in Slot /\ "remove" \in Slot /\ "list" \in Slot
    BY <2>1, RunFacts, SlotSet
  <2>9. PreviewFits(kept["preview"], tab', pid')
    <3>1. CASE j.slot = "preview"
      BY <1>1, <2>4, <2>5, <3>1 DEF IInv, PreviewKnows, PreviewFits
    <3>2. CASE j.slot # "preview"
      BY <1>1, <2>5, <2>8, <3>2 DEF IInv, PreviewKnows
    <3> QED BY <3>1, <3>2
  <2>10. PreviewKnows'
    BY <2>1, <2>2, <2>3, <2>8, <2>9, RunPreview DEF IInv
  <2>11. CreateFits'
    BY <1>1, <2>1, <2>2, <2>3, RunCreates DEF IInv
  <2>12. ASSUME NEW s \in Slot, NEW k \in K, HasAnswer(k, s, kept) PROVE HasAnswer(k, s, slot)
    BY <2>5, <2>12 DEF HasAnswer
  <2>13. HasAnswer(j, "list", slot) <=> j.slot = "list" /\ j.answer # Error
    BY <1>1, <2>4 DEF HasAnswer
  <2>14. HasAnswer(j, "remove", slot) <=> j.slot = "remove" /\ j.answer # Error
    BY <1>1, <2>4 DEF HasAnswer
  <2>15. kept["remove"].kind # "idle" => tab' = "profiles" /\ editor' = None
    <3>1. kept["remove"].kind # "idle" => slot["remove"].kind # "idle"
      BY <2>4, <2>5, <2>8
    <3> QED BY <1>1, <2>1, <3>1 DEF IInv, RemoveKnows
  <2>16. ASSUME NEW k \in K, HasAnswer(k, "remove", kept)
         PROVE  kept["remove"].kind # "idle" /\ Gone(k.call.profile)
    <3>1. HasAnswer(k, "remove", slot)
      BY <2>8, <2>12, <2>16
    <3>2. slot["remove"].kind = "running"
      BY <2>3, <3>1, AnswerAwaited DEF IInv
    <3>3. kept["remove"].kind # "idle"
      BY <2>5, <2>8, <3>2
    <3> QED BY <2>3, <3>1, <3>3 DEF IInv, RemoveKnows
  <2>17. ASSUME kept["remove"].kind = "done"
         PROVE  RemoveKnows'
    <3>1. Gone(kept["remove"].call.profile)
          /\ ("list" \notin DOMAIN calls => j.slot # "remove" /\ slot["remove"].kind = "done")
      <4>1. CASE j.slot = "remove"
        <5>1. j.answer # Error
          BY <2>5, <2>17, <4>1
        <5> QED BY <2>2, <2>4, <2>5, <2>8, <2>14, <4>1, <5>1 DEF IInv, RemoveKnows
      <4>2. CASE j.slot # "remove"
        BY <2>5, <2>8, <2>17, <4>2 DEF IInv, RemoveKnows
      <4> QED BY <4>1, <4>2
    <3>2. ASSUME "list" \notin DOMAIN calls, kept["list"].kind = "done"
          PROVE  kept["remove"].call.profile \notin kept["list"].value
      <4>1. j.slot # "remove" /\ slot["remove"].kind = "done" /\ kept["remove"].call = slot["remove"].call
        BY <2>5, <2>8, <3>1, <3>2
      <4>2. CASE j.slot = "list"
        <5>1. j.answer # Error
          BY <2>5, <3>2, <4>2
        <5> QED BY <2>5, <2>13, <4>1, <4>2, <5>1 DEF IInv, RemoveKnows
      <4>3. CASE j.slot # "list"
        BY <2>5, <2>8, <3>2, <4>1, <4>3 DEF IInv, RemoveKnows
      <4> QED BY <4>2, <4>3
    <3>3. ASSUME "list" \notin DOMAIN calls, NEW k \in K, HasAnswer(k, "list", kept)
          PROVE  kept["remove"].call.profile \notin k.answer
      BY <2>3, <2>5, <2>8, <2>12, <3>1, <3>3 DEF IInv, RemoveKnows
    <3>4. Slots /\ CreateFits /\ DOMAIN calls \subseteq Slot /\ "create" \notin DOMAIN calls
      BY <2>2 DEF IInv
    <3> QED BY <1>1, <2>1, <2>2, <2>3, <2>7, <2>8, <2>15, <2>16, <2>17, <3>1, <3>2, <3>3, <3>4, RunRemove
  <2>18. ASSUME kept["remove"].kind # "done"
         PROVE  RemoveKnows'
    <3>1. Slots /\ CreateFits /\ DOMAIN calls \subseteq Slot /\ "create" \notin DOMAIN calls
      BY <2>2 DEF IInv
    <3> QED BY <1>1, <2>1, <2>2, <2>3, <2>7, <2>8, <2>15, <2>16, <2>18, <3>1, RunRemove
  <2>19. RemoveKnows'
    BY <2>17, <2>18
  <2>20. tab' \in Tabs
    BY <1>1 DEF IInv
  <2> QED BY <2>7, <2>10, <2>11, <2>19, <2>20 DEF IInv
<1> QED BY <1>2, <1>3

-----------------------------------------------------------------------------

(* The invariant is inductive. *)
LEMMA NextIInv == IInv /\ [Next]_vars => IInv'
<1> SUFFICES ASSUME IInv, [Next]_vars PROVE IInv'
  OBVIOUS
<1>1. ASSUME NEW t \in Tabs, Navigate(t) PROVE IInv'
  BY <1>1, NavigateStep
<1>2. ASSUME NEW t \in Tabs, NEW p \in Profile, OpenWizard(t, p) PROVE IInv'
  BY <1>2, OpenWizardStep
<1>3. ASSUME NEW e \in Profile \cup {"create"}, OpenEditor(e) PROVE IInv'
  BY <1>3, OpenEditorStep
<1>4. CASE CloseEditor
  BY <1>4, CloseEditorStep
<1>5. CASE SelectModel
  BY <1>5, SelectModelStep
<1>6. CASE Back
  BY <1>6, BackStep
<1>7. CASE StartSafe \/ Go \/ Refresh
  BY <1>7, ButtonStep
<1>8. CASE Submit
  BY <1>8, SubmitStep
<1>9. ASSUME NEW p \in Profile, AskDelete(p) \/ Delete(p) PROVE IInv'
  BY <1>9, DeleteStep
<1>10. ASSUME NEW p \in Profile, ApplyCard(p) \/ ApplyEntry(p) \/ ConfirmApply(p) PROVE IInv'
  BY <1>10, ApplyStep
<1>11. ASSUME NEW p \in Profile, ChooseDefault(p) PROVE IInv'
  BY <1>11, ButtonStep
<1>12. ASSUME NEW p \in Profile \cup {None}, Pick(p) PROVE IInv'
  BY <1>12, PickStep
<1>13. ASSUME NEW j \in jobs, Serve(j) \/ Deliver(j) PROVE IInv'
  BY <1>13, ServeStep, DeliverStep
<1>14. CASE UNCHANGED vars
  BY <1>14, QuietStep DEF vars, app, sidecar
<1> QED
  BY <1>1, <1>2, <1>3, <1>4, <1>5, <1>6, <1>7, <1>8, <1>9, <1>10, <1>11, <1>12, <1>13, <1>14
  DEF Next

(* What a wizard shows for a baseline was computed for it (PreviewOfBaseline),
   however many previews are under way and in whatever order their answers come:
   OptimizeView.tsx over the stale guard of hooks.ts. *)
THEOREM PreviewIsOfBaseline == Spec => []PreviewOfBaseline
<1>1. IInv => PreviewOfBaseline
  BY DEF IInv, PreviewKnows, PreviewFits, PreviewOfBaseline
<1> QED BY <1>1, InitIInv, NextIInv, PTL DEF Spec

(* A profile whose deletion was answered is not offered again (DeletedGone): the
   refetch of App.tsx, with lists asked for earlier still under way. *)
THEOREM DeletedStaysGone == Spec => []DeletedGone
<1>1. IInv => DeletedGone
  BY DEF IInv, RemoveKnows, DeletedGone
<1> QED BY <1>1, InitIInv, NextIInv, PTL DEF Spec
=============================================================================
