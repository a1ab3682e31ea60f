---------------------------- MODULE RuleMatching ----------------------------
(***************************************************************************)
(* The two documents that map an outside name to a profile, and how a      *)
(* request is matched against them: hook rules (domain/src/hook-rules.ts)  *)
(* and virtual aliases (domain/src/virtual-aliases.ts).  Both deny by      *)
(* default: what is not named exactly resolves to nothing.                 *)
(*                                                                         *)
(* A document is a record with its enabled switch and a sequence of        *)
(* entries.  The optional switches of an entry are given their meaning:    *)
(* an absent "enabled" is TRUE, an absent "activate" FALSE.                *)
(***************************************************************************)
EXTENDS Integers, Sequences, FiniteSets, FiniteSetsExt

CONSTANTS
  Nothing,   \* null: a request that resolves to no target
  NoTask     \* an absent taskKind

(* The positions of the entries that pass a test, and the first of them. *)
Named(entries, Test(_)) == {i \in DOMAIN entries : Test(entries[i])}
FirstIn(entries, positions) == entries[Min(positions)]

-----------------------------------------------------------------------------
(* Hook rules: an app, perhaps a task, and the profile to activate. *)

HookTarget(rule) == [profileId |-> rule.profileId, ruleId |-> rule.id]

(* The rule of the task first, then the one task-less rule of the app; two
   task-less rules of an app are ambiguous and deny. *)
matchHookRule(document, request) ==
  LET rules == document.rules
      appRules == Named(rules, LAMBDA r : r.enabled /\ r.app = request.app)
      withTask == {i \in appRules : rules[i].taskKind = request.taskKind}
      generic  == {i \in appRules : rules[i].taskKind = NoTask}
  IN  IF ~document.enabled THEN Nothing
      ELSE IF request.taskKind # NoTask /\ withTask # {} THEN HookTarget(FirstIn(rules, withTask))
      ELSE IF Cardinality(generic) = 1 THEN HookTarget(FirstIn(rules, generic))
      ELSE Nothing

(* What validateHookRules reports: rules that repeat the app and task of an
   earlier one, and apps with several task-less rules.  Rules that are switched
   off count too. *)
validateHookRules(document) ==
  LET rules == document.rules
      Repeats(i) == \E j \in 1 .. (i - 1) :
                      rules[j].app = rules[i].app /\ rules[j].taskKind = rules[i].taskKind
      Generic(app) == Named(rules, LAMBDA r : r.app = app /\ r.taskKind = NoTask)
  IN  [duplicates |-> {rules[i].id : i \in {k \in DOMAIN rules : Repeats(k)}},
       ambiguous  |-> {app \in {rules[i].app : i \in DOMAIN rules} : Cardinality(Generic(app)) > 1}]

hookRulesOk(document) ==
  validateHookRules(document) = [duplicates |-> {}, ambiguous |-> {}]

-----------------------------------------------------------------------------
(* Virtual aliases: a public model name and the profile that serves it. *)

Enabled(document) == Named(document.aliases, LAMBDA a : a.enabled)

(* The first alias that is on and has exactly this name. *)
matchVirtualAlias(document, model) ==
  LET named == {i \in Enabled(document) : document.aliases[i].virtualModel = model}
  IN  IF ~document.enabled \/ named = {} THEN Nothing ELSE FirstIn(document.aliases, named)

(* The aliases that repeat the name of an earlier one; those switched off are
   not looked at. *)
validateVirtualAliases(document) ==
  LET aliases == document.aliases
      Repeats(i) == \E j \in Enabled(document) :
                      j < i /\ aliases[j].virtualModel = aliases[i].virtualModel
  IN  {aliases[i].id : i \in {k \in Enabled(document) : Repeats(k)}}

(* The names GET /v1/models lists. *)
listedModels(document) ==
  IF ~document.enabled THEN {}
  ELSE {document.aliases[i].virtualModel : i \in Enabled(document)}
=============================================================================
