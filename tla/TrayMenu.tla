------------------------------ MODULE TrayMenu ------------------------------
(***************************************************************************)
(* The tray menu as data: what the sidecar answers to tray.menu            *)
(* (handlers.ts buildTraySpec) and what the shell makes of it (tray.rs     *)
(* spec_to_plan, TrayAction::parse).  Labels are left out; a row is its    *)
(* id, its kind and whether it is disabled or checked.                     *)
(***************************************************************************)
EXTENDS Naturals, Sequences, SequencesExt

CONSTANTS
  Profile, Model, ModelOf,   \* stored profiles and the model of each
  NoId,                      \* the host reports no profile, or no model
  RecentLimit                \* TRAY_RECENT_LIMIT

(* What getActiveState said: nothing loaded, a profile or only its model, or
   a host that does not answer. *)
Lines ==
  {[kind |-> "none"], [kind |-> "unreachable"]}
    \cup [kind : {"active"}, profileId : Profile \cup {NoId}, modelKey : Model]

trayIsActive(p, line) ==
  /\ line.kind = "active"
  /\ IF line.profileId # NoId THEN line.profileId = p ELSE line.modelKey = ModelOf[p]

Row(id, kind, disabled) ==
  [id |-> id, kind |-> kind, disabled |-> disabled, checked |-> FALSE]
ApplyId(p) == <<"apply", p>>

specItems(ps, line, disabled) ==
  [i \in DOMAIN ps |->
    [Row(ApplyId(ps[i]), "item", disabled) EXCEPT !.checked = trayIsActive(ps[i], line)]]

(* "byRecent" is the store's list, latest update first. *)
Sections(byRecent, line, disabled) ==
  LET recent == SubSeq(byRecent, 1, RecentLimit)
      rest == SubSeq(byRecent, RecentLimit + 1, Len(byRecent))
      Under(header, ps) ==
        IF ps = <<>> THEN <<>>
        ELSE <<Row(<<header>>, "status", TRUE)>> \o specItems(ps, line, disabled)
  IN Under("section-recent", recent) \o Under("section-all", rest)

Actions(unloadDisabled) ==
  <<Row(<<"unload">>, "item", unloadDisabled), Row(<<"open">>, "item", FALSE),
    Row(<<"quit">>, "item", FALSE)>>

StatusRow(line) ==
  Row(IF line.kind = "unreachable" THEN <<"status-unreachable">> ELSE <<"status">>, "status", FALSE)

buildTraySpec(byRecent, line, failure) ==
  LET notice == IF failure THEN <<Row(<<"notice">>, "status", FALSE)>> ELSE <<>>
  IN [idle |-> notice \o <<StatusRow(line)>> \o Sections(byRecent, line, FALSE)
                 \o Actions(line.kind # "active"),
      busy |-> <<Row(<<"status">>, "status", FALSE)>> \o Sections(byRecent, line, TRUE)
                 \o Actions(TRUE)]

-----------------------------------------------------------------------------
(* The shell. *)

spec_to_plan(items) ==
  [i \in DOMAIN items |->
    [id |-> items[i].id,
     enabled |-> items[i].kind # "status" /\ ~items[i].disabled,
     checked |-> items[i].kind = "item" /\ items[i].checked]]

placeholder_plan ==
  [i \in 1 .. 2 |-> [id |-> << <<"open", "quit">>[i] >>, enabled |-> TRUE, checked |-> FALSE]]

choose_spec_half(spec, busy) == IF busy THEN spec.busy ELSE spec.idle

Offers(plan, id) == \E i \in DOMAIN plan : plan[i].id = id /\ plan[i].enabled
=============================================================================
