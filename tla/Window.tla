------------------------------- MODULE Window -------------------------------
(***************************************************************************)
(* The window of the desktop (frontend/src): its tabs, the views they      *)
(* mount, and the calls to the sidecar whose answers the views show.       *)
(*                                                                         *)
(* A view keeps each call in a slot of useTypedRpc (hooks.ts): a new call  *)
(* takes the slot over, the answer of the one before it is dropped, and so *)
(* are the answers for a view that is no longer mounted.  The sidecar runs *)
(* every call all the same.  Rendering and the effects it triggers are one *)
(* step with the event they follow.                                        *)
(***************************************************************************)
EXTENDS Naturals, FiniteSets, Functions

CONSTANTS
  Profile,     \* profiles, all of the one model of the models tab
  None, Safe,  \* nothing loaded; the safe baseline, which has no profile
  Error,       \* the answer of a call that fails
  MaxJobs      \* calls under way, a bound

ASSUME WindowAssumption ==
  /\ MaxJobs \in Nat \ {0}
  /\ None \notin Profile \cup {"ok", "create", Error} /\ "create" \notin Profile

VARIABLES
  tab, editor,    \* App: the tab; the profile in the editor, "create" or None
  selected,       \* ModelsView: its model is selected
  pid,            \* OptimizeView, BenchmarkView: the baseline
  confirmDelete, confirmApply,   \* what the user is asked about
  slot,           \* the slots of all views; those not mounted are idle
  jobs,           \* the calls under way
  stored, host    \* the sidecar: the profile store and what is loaded

app == <<tab, editor, selected, pid>>
asks == <<confirmDelete, confirmApply>>
sidecar == <<stored, host>>
vars == <<app, asks, slot, jobs, sidecar>>

SlotsOf ==
  [profiles |-> {"list", "active", "apply", "remove"},
   models |-> {"context"},
   detail |-> {"dActive", "dApply", "dSafe", "dDefault"},
   editor |-> {"create", "update"},   \* one slot, by the mode of the editor
   optimize |-> {"list", "preview", "save"},
   benchmark |-> {"list", "run"},
   hardware |-> {"hardware"}]
Slot == UNION Range(SlotsOf)

Idle == [kind |-> "idle", call |-> None, job |-> 0, value |-> None]
Call(p, asked) == [profile |-> p, asked |-> asked]
Plain == Call(None, FALSE)

Init ==
  /\ tab = "models" /\ editor = None /\ selected = FALSE /\ pid = None
  /\ confirmDelete = None /\ confirmApply = None
  /\ stored \in SUBSET Profile /\ host \in Profile \cup {None}
  /\ slot = [[s \in Slot |-> Idle] EXCEPT
       !["context"] = [kind |-> "running", call |-> Plain, job |-> 1, value |-> None]]
  /\ jobs = {[slot |-> "context", n |-> 1, call |-> Plain, answer |-> None]}

-----------------------------------------------------------------------------
(* Slots. *)

Unused(s) == {n \in 1 .. MaxJobs + 1 : ~\E j \in jobs : j.slot = s /\ j.n = n}
Fresh(s) == CHOOSE n \in Unused(s) : TRUE

Started(calls) ==
  {[slot |-> s, n |-> Fresh(s), call |-> calls[s], answer |-> None] : s \in DOMAIN calls}

(* Nobody sees the answer of a read for a view that is gone. *)
Writes == {"apply", "dApply", "dSafe", "remove", "create", "update"}
Kept(gone) == {j \in jobs : j.slot \in gone => j.slot \in Writes}

(* run: the slots in "calls" start a call, those in "gone" are unmounted. *)
Run(calls, gone, kept) ==
  slot' = [s \in Slot |->
    IF s \in DOMAIN calls
    THEN [kind |-> "running", call |-> calls[s], job |-> Fresh(s), value |-> None]
    ELSE IF s \in gone THEN Idle ELSE kept[s]]

Runs(calls, gone) ==
  /\ Run(calls, gone, slot)
  /\ jobs' = Kept(gone) \cup Started(calls)
  /\ Cardinality(jobs') <= MaxJobs

(* What a view asks for when it is mounted. *)
OnMount(view, p) ==
  LET read == CASE view = "profiles" -> {"list", "active"}
                [] view = "models" -> {"context"}
                [] view = "detail" -> {"dActive"}
                [] view = "editor" -> {}
                [] view \in {"optimize", "benchmark"} -> {"list"}
                [] view = "hardware" -> {"hardware"}
  IN [s \in read \cup IF view = "optimize" /\ p # None THEN {"preview"} ELSE {}
        |-> IF s = "preview" THEN Call(p, FALSE) ELSE Plain]

NoAsk == confirmDelete' = None /\ confirmApply' = None

(* The window shows the tab t, with the editor on e or a wizard on p. *)
Show(t, e, p) ==
  /\ tab' = t /\ editor' = e /\ pid' = p /\ selected' = FALSE
  /\ NoAsk
  /\ Runs(OnMount(IF t = "profiles" /\ e # None THEN "editor" ELSE t, p), Slot)
  /\ UNCHANGED sidecar

-----------------------------------------------------------------------------
(* App: navigation. *)

Tabs == {"models", "profiles", "optimize", "benchmark", "hardware"}

Shown == IF tab = "profiles" /\ editor # None THEN "editor" ELSE tab
Detail == tab = "models" /\ selected /\ slot["context"].kind = "done"

Navigate(t) == t # tab /\ Show(t, None, None)

(* The cards of the profiles tab, and the rows of the model's own page. *)
Card(p) ==
  /\ Shown = "profiles" /\ slot["list"].kind = "done" /\ p \in slot["list"].value
Entry(p) == Detail /\ p \in slot["context"].value

OpenWizard(t, p) ==
  /\ t \in {"optimize", "benchmark"}
  /\ Card(p) \/ (Entry(p) /\ t = "benchmark")
  /\ Show(t, editor, p)

OpenEditor(e) ==
  /\ \/ Shown = "profiles" /\ (e = "create" \/ (e \in Profile /\ Card(e)))
        /\ Show("profiles", e, None)
     \/ Detail /\ e = "create" /\ editor' = e
        /\ UNCHANGED <<tab, selected, pid, asks, slot, jobs, sidecar>>

CloseEditor == Shown = "editor" /\ Show("profiles", None, None)

SelectModel ==
  /\ tab = "models" /\ ~selected /\ slot["context"].kind = "done"
  /\ selected' = TRUE
  /\ Runs(OnMount("detail", None), {})
  /\ UNCHANGED <<tab, editor, pid, asks, sidecar>>

Back ==
  /\ Detail
  /\ selected' = FALSE
  /\ NoAsk
  /\ Runs(<<>>, SlotsOf.detail)
  /\ UNCHANGED <<tab, editor, pid, sidecar>>

-----------------------------------------------------------------------------
(* The buttons. *)

Press(s, call) ==
  /\ Runs([x \in {s} |-> call], {})
  /\ UNCHANGED <<app, sidecar>>

AskDelete(p) ==
  /\ Card(p) /\ confirmDelete' = p
  /\ UNCHANGED <<app, confirmApply, slot, jobs, sidecar>>
Delete(p) ==
  /\ Card(p) /\ confirmDelete = p
  /\ confirmDelete' = None
  /\ Press("remove", Call(p, TRUE)) /\ UNCHANGED confirmApply

(* confirmOrApply and applyOrConfirm: the user is asked when the active state
   the view has read is another profile's. *)
Current(s) == IF slot[s].kind = "done" THEN slot[s].value ELSE None
Apply(p, s, active) ==
  /\ slot[s].kind # "running"
  /\ IF Current(active) \notin {None, p}
     THEN confirmApply' = p /\ UNCHANGED <<app, slot, jobs, sidecar>>
     ELSE confirmApply' = None /\ Press(s, Call(p, FALSE))
  /\ UNCHANGED confirmDelete

ApplyCard(p) == Card(p) /\ Apply(p, "apply", "active")
ApplyEntry(p) == Entry(p) /\ Apply(p, "dApply", "dActive")
ConfirmApply(p) ==
  /\ confirmApply = p /\ confirmApply' = None
  /\ \/ Card(p) /\ Press("apply", Call(p, TRUE))
     \/ Entry(p) /\ Press("dApply", Call(p, TRUE))
  /\ UNCHANGED confirmDelete

(* Start without a profile: offered where the model has none. *)
StartSafe ==
  /\ Detail /\ slot["context"].value = {} /\ slot["dSafe"].kind # "running"
  /\ Press("dSafe", Call(Safe, FALSE)) /\ UNCHANGED asks

ChooseDefault(p) ==
  /\ Entry(p) /\ slot["dDefault"].kind # "running"
  /\ Press("dDefault", Call(p, FALSE)) /\ UNCHANGED asks

(* A new profile gets an id nobody has, or is about to get. *)
NewId == {p \in Profile \ stored : ~\E j \in jobs : j.slot = "create" /\ j.call.profile = p}

Submit ==
  /\ Shown = "editor" /\ \A s \in SlotsOf.editor : slot[s].kind # "running"
  /\ \/ editor = "create" /\ \E p \in NewId : Press("create", Call(p, FALSE))
     \/ editor # "create" /\ Press("update", Call(editor, FALSE))
  /\ UNCHANGED asks

(* Another baseline starts another preview at once; "save" runs the
   optimization of the baseline again. *)
Pick(p) ==
  /\ tab \in {"optimize", "benchmark"} /\ p # pid
  /\ slot["list"].kind = "done" /\ p \in slot["list"].value \cup {None}
  /\ pid' = p
  /\ Runs([s \in IF tab = "optimize" /\ p # None THEN {"preview"} ELSE {} |-> Call(p, FALSE)], {})
  /\ UNCHANGED <<tab, editor, selected, asks, sidecar>>

Go ==
  /\ pid # None
  /\ \/ tab = "optimize" /\ slot["preview"].kind = "done" /\ Press("save", Call(pid, FALSE))
     \/ tab = "benchmark" /\ slot["run"].kind # "running" /\ Press("run", Call(pid, FALSE))
  /\ UNCHANGED asks

(* The refresh of the list of models, and the preview button of the wizard. *)
Refresh ==
  /\ \/ tab = "models" /\ ~Detail /\ slot["context"].kind # "running" /\ Press("context", Plain)
     \/ tab = "optimize" /\ pid # None /\ slot["preview"].kind # "running"
        /\ Press("preview", Call(pid, FALSE))
  /\ UNCHANGED asks

-----------------------------------------------------------------------------
(* The sidecar runs a call, and its answer reaches the window. *)

Answered(j, value) ==
  jobs' = (jobs \ {j}) \cup
            IF slot[j.slot].kind = "idle" THEN {} ELSE {[j EXCEPT !.answer = value]}

Serve(j) ==
  /\ j.answer = None
  /\ \/ j.slot \in {"list", "context"} /\ Answered(j, stored) /\ UNCHANGED sidecar
     \/ j.slot \in {"active", "dActive"} /\ Answered(j, host) /\ UNCHANGED sidecar
     \/ /\ j.slot \in {"apply", "dApply", "dSafe"}
        /\ host' \in {j.call.profile, host, None}
        /\ Answered(j, "outcome") /\ UNCHANGED stored
     \/ /\ j.slot = "remove" /\ j.call.profile \in stored
        /\ stored' = stored \ {j.call.profile}
        /\ Answered(j, "ok") /\ UNCHANGED host
     \/ /\ j.slot = "create"
        /\ stored' = stored \cup {j.call.profile}
        /\ Answered(j, "ok") /\ UNCHANGED host
     \/ /\ j.slot \in {"preview", "save", "run", "dDefault", "update"}
        /\ j.call.profile \in stored
        /\ Answered(j, j.call.profile) /\ UNCHANGED sidecar
     \/ j.slot = "hardware" /\ Answered(j, "ok") /\ UNCHANGED sidecar
     \/ Answered(j, Error) /\ UNCHANGED sidecar
  /\ UNCHANGED <<app, asks, slot>>

(* (Faulty variant: the first answer counts, whoever was asked.) *)
CountsAlways(j) == slot[j.slot].kind = "running"

(* The job of a slot whose answer counts. *)
Counts(j) == slot[j.slot].job = j.n

Delivered(j) ==
  [slot EXCEPT ![j.slot].kind = IF j.answer = Error THEN "error" ELSE "done",
               ![j.slot].value = j.answer]

(* (Faulty variant: a delete refreshes the badge of the active profile, and not the
   list.) *)
FollowsBadge(j) ==
  CASE j.slot \in {"apply", "remove"} -> [x \in {"active"} |-> Plain]
    [] j.slot = "dSafe" -> [x \in {"dActive"} |-> Plain]
    [] j.slot = "context" /\ selected -> OnMount("detail", None)
    [] j.slot = "dDefault" -> [x \in {"context"} |-> Plain]
    [] j.slot \in SlotsOf.editor -> OnMount("profiles", None)
    [] OTHER -> <<>>

(* The effects that follow an answer: what is asked for next, what goes. *)
Follows(j) ==
  CASE j.slot = "apply" -> [x \in {"active"} |-> Plain]
    [] j.slot = "remove" -> [x \in {"list", "active"} |-> Plain]   \* refreshKey
    [] j.slot = "dSafe" -> [x \in {"dActive"} |-> Plain]
    [] j.slot = "context" /\ selected -> OnMount("detail", None)
    [] j.slot = "dDefault" -> [x \in {"context"} |-> Plain]
    [] j.slot \in SlotsOf.editor -> OnMount("profiles", None)
    [] OTHER -> <<>>

Closes(j) ==
  CASE j.slot = "dDefault" -> SlotsOf.detail   \* the page goes while its list is read
    [] j.slot \in SlotsOf.editor -> SlotsOf.editor
    [] OTHER -> {}

Deliver(j) ==
  /\ j.answer # None
  /\ IF Counts(j)
     THEN LET calls == IF j.answer = Error THEN <<>> ELSE Follows(j)
              gone == IF j.answer = Error THEN {} ELSE Closes(j)
          IN /\ Run(calls, gone, Delivered(j))
             /\ jobs' = (Kept(gone) \ {j}) \cup Started(calls)
             /\ Cardinality(jobs') <= MaxJobs
             /\ editor' = IF gone = SlotsOf.editor THEN None ELSE editor
             /\ confirmDelete' = IF j.slot = "remove" /\ j.answer # Error THEN None
                                 ELSE confirmDelete
             /\ confirmApply' = IF gone = {} THEN confirmApply ELSE None
     ELSE jobs' = jobs \ {j} /\ UNCHANGED <<slot, editor, asks>>
  /\ UNCHANGED <<tab, selected, pid, sidecar>>

Next ==
  \/ \E t \in Tabs : Navigate(t)
  \/ \E t \in Tabs, p \in Profile : OpenWizard(t, p)
  \/ \E e \in Profile \cup {"create"} : OpenEditor(e)
  \/ CloseEditor \/ SelectModel \/ Back \/ StartSafe \/ Submit \/ Go \/ Refresh
  \/ \E p \in Profile :
       \/ AskDelete(p) \/ Delete(p) \/ ApplyCard(p) \/ ApplyEntry(p) \/ ConfirmApply(p)
       \/ ChooseDefault(p)
  \/ \E p \in Profile \cup {None} : Pick(p)
  \/ \E j \in jobs : Serve(j) \/ Deliver(j)

Spec == Init /\ [][Next]_vars

-----------------------------------------------------------------------------

(* What a wizard shows for a baseline was computed for that baseline, also
   when the baseline was changed while the preview of another was under way
   (hooks.ts: "a stale response can never clobber a newer call's state"). *)
PreviewOfBaseline ==
  slot["preview"].kind = "done" => pid \in {slot["preview"].value, None}

(* A profile whose deletion was answered is not offered again: the list is
   read anew, and no list that was asked for earlier replaces it (App.tsx,
   "Bumped after profile mutations so open lists refetch"). *)
DeletedGone ==
  slot["remove"].kind = "done" /\ slot["list"].kind = "done"
    => slot["remove"].call.profile \notin slot["list"].value

(* Not kept by the code, and refuted by TLC on MCWindow's instance: of
   handlers.ts, "the frontend asks before sending when a different profile
   is active": a call that replaces what is loaded was confirmed, the window
   being the only one that loads models. *)
ReplacementConfirmed ==
  [][\A j \in jobs' \ jobs :
       j.answer = None /\ j.slot \in {"apply", "dApply"} /\ ~j.call.asked
         => host \in {None, j.call.profile}]_vars
=============================================================================
