-------------------------------- MODULE Tray --------------------------------
(***************************************************************************)
(* The tray of the desktop (tray.rs TrayController) against the handlers   *)
(* of the sidecar it calls (handlers.ts activation.apply, activation.unload*)
(* and tray.menu).  Every click and every event starts a task of its own   *)
(* on the async runtime; the tasks share a cached spec and a busy flag.    *)
(* Drawing the menu reads both, builds the native menu and hands it to the *)
(* main thread: other tasks run in between.  The notice of a past failure  *)
(* is left out.                                                            *)
(***************************************************************************)
EXTENDS TrayMenu

CONSTANTS
  HostLine,             \* what others leave the host with
  ApplyTask, Refresh,   \* tasks of run_apply and refresh_async: a bound on
                        \* how many of each overlap
  MaxTasks,             \* a bound on how many overlap in all
  None

VARIABLES
  line,     \* the host, as activation.status reads it
  running,  \* the profiles the sidecar is activating, for the tray or not
  spec,     \* the cached spec, None before the first one
  busy,     \* the flag of run_apply
  menu,     \* the native menu
  task      \* the tasks: where each is, its profile, what it holds

trayVars == <<line, running, spec, busy, menu, task>>
sidecar == <<line, running>>

ActionTask == ApplyTask \cup {"unload"}   \* the tasks that end in a refresh
Tasks == Refresh \cup ActionTask
Idle == [pc |-> "idle", holds |-> None]
NextPc == [show |-> "set", set |-> "call", reshow |-> "reset", reset |-> "refresh",
           draw |-> "put", put |-> "idle"]

TrayInit ==
  /\ line \in HostLine /\ running = {}
  /\ spec = None /\ busy = FALSE /\ menu = placeholder_plan
  /\ task = [t \in Tasks |-> Idle]

-----------------------------------------------------------------------------
(* The sidecar. *)

store == SetToSeq(Profile)   \* listed latest first

Active(p) == [kind |-> "active", profileId |-> p, modelKey |-> ModelOf[p]]

(* A CLI or LM Studio itself changes what is loaded. *)
Elsewhere ==
  /\ line' \in HostLine
  /\ UNCHANGED <<running, spec, busy, menu, task>>

(* An activation succeeds, or leaves what was there or nothing. *)
Finishes(p) == line' \in {Active(p), line, [kind |-> "none"]}

(* The run of a call nobody waits for any more ends. *)
Awaited(p) == \E a \in ApplyTask : task[a].pc = "run" /\ task[a].holds = p

RunsOut(p) ==
  /\ p \in running /\ ~Awaited(p)
  /\ Finishes(p)
  /\ running' = running \ {p}
  /\ UNCHANGED <<spec, busy, menu, task>>

-----------------------------------------------------------------------------
(* Drawing the menu: TrayController::render. *)

Room == Cardinality({t \in Tasks : task[t].pc # "idle"}) < MaxTasks

Goes(t, pc, holds) == task' = [task EXCEPT ![t] = [pc |-> pc, holds |-> holds]]

Plan == IF spec = None THEN placeholder_plan
        ELSE spec_to_plan(choose_spec_half(spec, busy))

Composes(t) ==
  /\ task[t].pc \in {"show", "reshow", "draw"}
  /\ task' = [task EXCEPT ![t] = [pc |-> NextPc[@.pc],
                                  holds |-> [plan |-> Plan, of |-> @.holds]]]
  /\ UNCHANGED <<sidecar, spec, busy, menu>>

Draws(t) ==
  /\ task[t].pc \in {"set", "reset", "put"}
  /\ menu' = task[t].holds.plan
  /\ task' = [task EXCEPT ![t] = [pc |-> NextPc[@.pc], holds |-> @.holds.of]]
  /\ UNCHANGED <<sidecar, spec, busy>>

-----------------------------------------------------------------------------
(* run_apply. *)

(* (Faulty variant: the flag is not looked at.) *)
ClickAgain(a, p) ==
  /\ Offers(menu, ApplyId(p))
  /\ task[a].pc = "idle" /\ Room
  /\ busy' = TRUE
  /\ Goes(a, "show", p)
  /\ UNCHANGED <<sidecar, spec, menu>>

ClickApply(a, p) ==
  /\ Offers(menu, ApplyId(p))
  /\ ~busy                        \* a second click returns
  /\ task[a].pc = "idle" /\ Room
  /\ busy' = TRUE
  /\ Goes(a, "show", p)
  /\ UNCHANGED <<sidecar, spec, menu>>

(* activation.apply starts its run, unless the lock is taken. *)
Applies(a) ==
  /\ task[a].pc = "call"
  /\ running = {}
  /\ running' = {task[a].holds}
  /\ Goes(a, "run", task[a].holds)
  /\ UNCHANGED <<line, spec, busy, menu>>

(* The run of the call ends; or the call is refused, fails, or the shell stops
   waiting for it. *)
Result(a) ==
  \/ task[a].pc = "run" /\ Finishes(task[a].holds) /\ running' = {}
  \/ UNCHANGED sidecar

(* (Faulty variant: a call the shell stops waiting for leaves the flag.) *)
ReturnsLate(a) ==
  /\ task[a].pc \in {"call", "run"}
  /\ Result(a)
  /\ busy' = (sidecar' = sidecar)
  /\ Goes(a, "reshow", None)
  /\ UNCHANGED <<spec, menu>>

Returns(a) ==
  /\ task[a].pc \in {"call", "run"}
  /\ Result(a)
  /\ busy' = FALSE
  /\ Goes(a, "reshow", None)
  /\ UNCHANGED <<spec, menu>>

-----------------------------------------------------------------------------
(* run_unload and refresh_async. *)

ClickUnload ==
  /\ Offers(menu, <<"unload">>)
  /\ task["unload"].pc = "idle" /\ Room
  /\ Goes("unload", "unload", None)
  /\ UNCHANGED <<sidecar, spec, busy, menu>>

(* activation.unload is done, has nothing to do, is refused or timed out. *)
Unloads ==
  /\ task["unload"].pc = "unload"
  /\ \/ /\ running = {} /\ line.kind = "active"
        /\ line' = [kind |-> "none"]
     \/ UNCHANGED line
  /\ Goes("unload", "refresh", None)
  /\ UNCHANGED <<running, spec, busy, menu>>

(* A click on the icon, or the supervisor says "connected". *)
Asks(r) ==
  /\ task[r].pc = "idle" /\ Room
  /\ Goes(r, "fetch", None)
  /\ UNCHANGED <<sidecar, spec, busy, menu>>

(* The task of an apply or an unload ends in a refresh of its own. *)
Hands(t, r) ==
  /\ task[t].pc = "refresh" /\ task[r].pc = "idle"
  /\ task' = [task EXCEPT ![t] = Idle, ![r] = [pc |-> "fetch", holds |-> None]]
  /\ UNCHANGED <<sidecar, spec, busy, menu>>

(* tray.menu: the spec of this moment; it fails when the host answers with
   another error than "unreachable". *)
Answers(r) ==
  /\ task[r].pc = "fetch"
  /\ \/ Goes(r, "keep", buildTraySpec(store, line, FALSE))
     \/ Goes(r, "draw", None)
  /\ UNCHANGED <<sidecar, spec, busy, menu>>

Keeps(r) ==
  /\ task[r].pc = "keep"
  /\ spec' = task[r].holds
  /\ Goes(r, "draw", None)
  /\ UNCHANGED <<sidecar, busy, menu>>

-----------------------------------------------------------------------------

TaskStep(t) == Composes(t) \/ Draws(t)
ApplyStep(a) == Applies(a) \/ Returns(a)
RefreshStep(r) == Answers(r) \/ Keeps(r)

TrayNext ==
  \/ Elsewhere
  \/ \E t \in Tasks : TaskStep(t)
  \/ \E p \in Profile : RunsOut(p)
  \/ \E a \in ApplyTask : ApplyStep(a) \/ \E p \in Profile : ClickApply(a, p)
  \/ ClickUnload \/ Unloads
  \/ \E r \in Refresh : Asks(r) \/ RefreshStep(r)
  \/ \E t \in ActionTask, r \in Refresh : Hands(t, r)

(* The runtime runs its tasks, and a call returns or is timed out. *)
TrayFairness ==
  /\ \A t \in Tasks : WF_trayVars(TaskStep(t))
  /\ \A a \in ApplyTask : WF_trayVars(ApplyStep(a))
  /\ WF_trayVars(Unloads)
  /\ \A r \in Refresh : WF_trayVars(RefreshStep(r))
  /\ \A t \in ActionTask : SF_trayVars(\E r \in Refresh : Hands(t, r))

TraySpec == TrayInit /\ [][TrayNext]_trayVars /\ TrayFairness

-----------------------------------------------------------------------------

(* The shell waits for at most one apply of its own, and its busy flag says
   whether it does: no click slips in between and no failure, refusal or
   timeout leaves the flag set (TrayController::run_apply). *)
Waiting == {a \in ApplyTask : task[a].pc \in {"show", "set", "call", "run"}}

OneApplyAwaited ==
  /\ \A a, b \in Waiting : a = b
  /\ busy <=> Waiting # {}

(* The profiles are in the menu and none can be clicked. *)
Greyed ==
  \E p \in Profile : /\ \E i \in DOMAIN menu : menu[i].id = ApplyId(p)
                     /\ ~Offers(menu, ApplyId(p))

(* After an apply the user can click again, whether the sidecar answers,
   refuses or hangs, and whatever is drawn in between: the flag is cleared and
   a menu that shows it is on the screen.  (A refresh that composed its menu
   before that, and is slow to draw it, may grey it out again until the next
   refresh.) *)
BusyEnds == busy ~> (~busy /\ ~Greyed)
=============================================================================
