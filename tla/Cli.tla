--------------------------------- MODULE Cli ---------------------------------
(***************************************************************************)
(* One run of the lmps command (apps/cli) as a function: the words of the  *)
(* command line and the world it finds, to its exit code and the world it  *)
(* leaves.  The world is what the commands read and write: the profiles    *)
(* and their backups, text files, the two documents under hooks/, the      *)
(* token, the stored language, and LM Studio.  The benchmark commands are  *)
(* in Evidence; texts are left out, and of what is said only what the      *)
(* properties ask for is kept.                                             *)
(***************************************************************************)
EXTENDS Integers, FiniteSets, FiniteSetsExt, SequencesExt, TLC, RuleMatching

CONSTANTS
  Broken,         \* a file that is no JSON, or no profile
  NonConforming,  \* a document its schema refuses
  Ids,            \* every profile id, in the order of the store's lists
  InvalidIds,
  Timeouts,       \* the texts that are a number of milliseconds
  Generations,    \* the texts that are an alias's generation
  LanguageTag     \* from a text to its primary and secondary language tag

OrElse(x, y) == IF x = Nothing THEN y ELSE x
Keyed(key, value, fun) == [k \in DOMAIN fun \cup {key} |-> IF k = key THEN value ELSE fun[k]]
Dropped(keys, fun) == [k \in DOMAIN fun \ keys |-> fun[k]]

-----------------------------------------------------------------------------
(* The command line (options.ts). *)

Word(text) == [kind |-> "word", text |-> text, name |-> text, value |-> Nothing]
Flag(name) == [kind |-> "flag", text |-> "--" \o name, name |-> name, value |-> Nothing]
With(name, value) ==
  [kind |-> "flag", text |-> "--" \o name \o "=" \o value, name |-> name, value |-> value]
Short(name) == [kind |-> "short", text |-> "-" \o name, name |-> name, value |-> Nothing]
EndOfFlags == [kind |-> "end", text |-> "--", name |-> "", value |-> Nothing]

Given(s, name, value) ==
  IF name = "timeout" /\ value \notin Timeouts THEN [s EXCEPT !.error = TRUE]
  ELSE [s EXCEPT !.want = Nothing, !.lang = IF name = "lang" THEN value ELSE @]

(* Global flags count wherever they stand; a flag that waits for its value
   takes the next word, whatever it is. *)
parseArgs(argv) ==
  LET step(s, t) ==
        CASE s.error -> s
          [] ~s.error /\ s.want # Nothing -> Given(s, s.want, t.text)
          [] OTHER ->
               IF t = Flag("help") \/ t = Short("h") THEN [s EXCEPT !.help = TRUE]
               ELSE IF t \in {Flag("json"), Flag("verbose"), Flag("no-color")} THEN s
               ELSE IF t.kind = "flag" /\ t.name \in {"lang", "timeout"}
                 THEN IF t.value = Nothing THEN [s EXCEPT !.want = t.name]
                      ELSE Given(s, t.name, t.value)
               ELSE IF s.command = Nothing /\ t.kind = "word" THEN [s EXCEPT !.command = t.text]
               ELSE [s EXCEPT !.args = Append(@, t)]
      end == FoldLeft(step, [lang |-> Nothing, help |-> FALSE, command |-> Nothing, args |-> <<>>,
                             want |-> Nothing, error |-> FALSE], argv)
  IN  [end EXCEPT !.error = @ \/ end.want # Nothing]

(* What a command accepts: flags without and with a value, -o for "output" or
   no short flags at all, and how many words. *)
CommandSpec(switches, values, short, max) ==
  [switches |-> switches, values |-> values, short |-> short, max |-> max]

parseCommandArgs(spec, args) ==
  LET Takes(s, name, value) ==
        IF value = Nothing THEN [s EXCEPT !.want = name]
        ELSE [s EXCEPT !.want = Nothing, !.flags = Keyed(name, value, @)]
      step(s, t) ==
        CASE s.error -> s
          [] ~s.error /\ s.want # Nothing -> Takes(s, s.want, t.text)
          [] ~s.error /\ s.want = Nothing /\ s.rest -> [s EXCEPT !.words = Append(@, t.text)]
          [] OTHER ->
               IF t.kind = "end" THEN [s EXCEPT !.rest = TRUE]
               ELSE IF t.kind = "flag" /\ t.name \in spec.values THEN Takes(s, t.name, t.value)
               ELSE IF t.kind = "flag" /\ t.name \in spec.switches /\ t.value = Nothing
                 THEN [s EXCEPT !.flags = Keyed(t.name, "true", @)]
               ELSE IF t.kind = "short" /\ spec.short /\ t.name = "o" THEN Takes(s, "output", Nothing)
               ELSE IF t.kind = "flag" \/ (t.kind = "short" /\ spec.short) THEN [s EXCEPT !.error = TRUE]
               ELSE [s EXCEPT !.words = Append(@, t.text)]
      end == FoldLeft(step, [flags |-> [n \in {} |-> ""], words |-> <<>>, rest |-> FALSE,
                             want |-> Nothing, error |-> FALSE], args)
  IN  [end EXCEPT !.error = @ \/ end.want # Nothing \/ Len(end.words) > spec.max]

FlagOf(p, name) == IF name \in DOMAIN p.flags THEN p.flags[name] ELSE Nothing
WordOf(p, i) == IF i <= Len(p.words) THEN p.words[i] ELSE Nothing

-----------------------------------------------------------------------------
(* How a run ends (exit-codes.ts). *)

exitCodeForActivation(status) ==
  CASE status = "active" -> 0
    [] status = "canceled" -> 2
    [] status = "failed-but-recovered" -> 3
    [] status = "failed" -> 5

exitCodeForError(code) ==
  CASE code = "CAPABILITY_UNSUPPORTED" -> 6
    [] code \in {"USAGE", "LM_UNREACHABLE", "ACTIVATION_LOCK_BUSY", "ACTIVATION_PREFLIGHT", "DOMAIN",
                 "STORE_NOT_FOUND", "STORE_ALREADY_EXISTS", "STORE_INVALID_ID", "STORE_IMPORT_FAILED"} -> 4
    [] code = "ACTIVATION_CANCELED" -> 2
    [] OTHER -> 10

Ends(w, exit, said) == [exit |-> exit, code |-> "ok", world |-> w, said |-> said]
Done(w) == Ends(w, 0, Nothing)
Refused(w, code) == [Ends(w, exitCodeForError(code), Nothing) EXCEPT !.code = code]
Usage(w) == Refused(w, "USAGE")

-----------------------------------------------------------------------------
(* The profile store, one call at a time (profile-store store.ts). *)

LoadError(w, id) ==
  CASE id \in InvalidIds \cup {Nothing} -> "STORE_INVALID_ID"
    [] id \notin InvalidIds \cup DOMAIN w.profiles \cup {Nothing} -> "STORE_NOT_FOUND"
    [] OTHER -> IF w.profiles[id] = Broken THEN "STORE_CORRUPTED" ELSE "ok"

Loaded(w, id, Body(_)) ==
  IF LoadError(w, id) = "ok" THEN Body(w.profiles[id]) ELSE Refused(w, LoadError(w, id))

listed(w) == SelectSeq(Ids, LAMBDA id : LoadError(w, id) = "ok")

Created(w, doc) == [w EXCEPT !.profiles = Keyed(doc.id, doc, @)]
Deleted(w, id) == [w EXCEPT !.profiles = Dropped({id}, @)]

create(w, doc) ==
  IF doc.id \in InvalidIds THEN Refused(w, "STORE_INVALID_ID")
  ELSE IF doc.id \in DOMAIN w.profiles THEN Refused(w, "STORE_ALREADY_EXISTS")
  ELSE Ends(Created(w, doc), 0, doc.id)

(* A patch keeps a backup of what it changes; it may not set the id, nor leave
   a document that does not conform. *)
update(w, id, patch) ==
  LET updated(doc) ==
        [w EXCEPT !.backups = Keyed(id, Append(IF id \in DOMAIN @ THEN @[id] ELSE <<>>, doc), @),
                  !.profiles = Keyed(id, [doc EXCEPT !.task = patch.task], @)]
  IN  IF patch # NonConforming /\ patch.id # Nothing THEN Refused(w, "STORE_INVALID_ID")
      ELSE Loaded(w, id, LAMBDA doc : IF patch = NonConforming THEN Refused(w, "DOMAIN")
                                      ELSE Ends(updated(doc), 0, id))

delete(w, id) ==
  IF LoadError(w, id) \in {"STORE_INVALID_ID", "STORE_NOT_FOUND"} THEN Refused(w, LoadError(w, id))
  ELSE Ends(Deleted(w, id), 0, id)

CopyId(id, n) == id \o "-copy" \o (IF n = 1 THEN "" ELSE "-" \o ToString(n))

(* A document with the id of a stored profile is refused, or renamed. *)
importText(w, content, strict, allowRename) ==
  IF content \in {Broken, NonConforming} \/ content.id = Nothing \/ (strict /\ content.extra)
    THEN Refused(w, "STORE_IMPORT_FAILED")
  ELSE IF content.id \notin DOMAIN w.profiles THEN create(w, content)
  ELSE LET free == {n \in 1 .. 1000 : CopyId(content.id, n) \notin DOMAIN w.profiles}
       IN  IF ~allowRename \/ free = {} THEN Refused(w, "STORE_ALREADY_EXISTS")
           ELSE create(w, [content EXCEPT !.id = CopyId(@, Min(free))])

(* The newest backup that is readable replaces a file that is not. *)
recover(w) ==
  LET readable(id) == SelectSeq(w.backups[id], LAMBDA b : b # Broken)
      restored == {id \in DOMAIN w.profiles :
                     w.profiles[id] = Broken /\ id \in DOMAIN w.backups /\ readable(id) # <<>>}
  IN  [w EXCEPT !.profiles = [id \in DOMAIN @ |-> IF id \in restored THEN Last(readable(id)) ELSE @[id]]]

-----------------------------------------------------------------------------
(* lmps profile (commands/profile.ts). *)

Extensions == {"json", "yaml"}

(* (Faulty variant: a profile of another name is reported and kept.) *)
profileCreateKeeps(w, p) ==
  LET name == FlagOf(p, "name")
      file == FlagOf(p, "file")
  IN  IF Nothing \in {name, file} \/ LoadError(w, name) = "ok" THEN Usage(w)
      ELSE IF file \notin DOMAIN w.files \/ w.files[file].ext \notin Extensions \cup {"stdin"} THEN Usage(w)
      ELSE LET made == importText(w, w.files[file].content, FALSE, FALSE)
           IN  IF made.exit # 0 \/ made.said = name THEN made ELSE Usage(made.world)

(* The document has to have the id that was asked for; otherwise what was
   imported is deleted again. *)
profileCreate(w, p) ==
  LET name == FlagOf(p, "name")
      file == FlagOf(p, "file")
  IN  IF Nothing \in {name, file} \/ LoadError(w, name) = "ok" THEN Usage(w)
      ELSE IF file \notin DOMAIN w.files \/ w.files[file].ext \notin Extensions \cup {"stdin"} THEN Usage(w)
      ELSE LET made == importText(w, w.files[file].content, FALSE, FALSE)
           IN  IF made.exit # 0 \/ made.said = name THEN made
               ELSE Usage(Deleted(made.world, made.said))

(* Without a patch the document is printed. *)
profileEdit(w, p) ==
  LET id == WordOf(p, 1)
      path == FlagOf(p, "patch")
      patch == IF path \in DOMAIN w.files THEN w.files[path].content ELSE Broken
  IN  CASE id = Nothing \/ (path # Nothing /\ patch = Broken) -> Usage(w)
        [] id # Nothing /\ path = Nothing -> Loaded(w, id, LAMBDA doc : Done(w))
        [] OTHER -> update(w, id, patch)

profileClone(w, p) ==
  IF Len(p.words) < 2 THEN Usage(w)
  ELSE Loaded(w, p.words[1], LAMBDA doc : create(w, [doc EXCEPT !.id = p.words[2]]))

profileDelete(w, p) ==
  LET id == WordOf(p, 1)
  IN  IF id = Nothing \/ FlagOf(p, "yes") = Nothing THEN Usage(w) ELSE delete(w, id)

profileImport(w, p) ==
  LET path == WordOf(p, 1)
  IN  IF path \notin DOMAIN w.files \/ w.files[path].ext \notin Extensions THEN Usage(w)
      ELSE importText(w, w.files[path].content, TRUE, FlagOf(p, "allow-rename") # Nothing)

profileExport(w, p) ==
  LET id == WordOf(p, 1)
      format == OrElse(FlagOf(p, "format"), "json")
      output == FlagOf(p, "output")
  IN  IF id = Nothing \/ format \notin Extensions THEN Usage(w)
      ELSE Loaded(w, id, LAMBDA doc :
             CASE output = Nothing -> Done(w)
               [] output \in w.unwritable -> Usage(w)
               [] OTHER -> Done([w EXCEPT !.files = Keyed(output, [ext |-> format, content |-> doc], @)]))

ProfileSpec ==
  [list |-> CommandSpec({}, {"model", "task"}, FALSE, 0), show |-> CommandSpec({}, {}, FALSE, 1),
   create |-> CommandSpec({}, {"name", "file"}, FALSE, 0), edit |-> CommandSpec({}, {"patch"}, FALSE, 1),
   clone |-> CommandSpec({}, {}, FALSE, 2), delete |-> CommandSpec({"yes"}, {}, FALSE, 1),
   import |-> CommandSpec({"allow-rename"}, {}, FALSE, 1), export |-> CommandSpec({}, {"format"}, TRUE, 1)]

runProfileCommand(w, sub, p) ==
  CASE sub = "list" -> Ends(w, 0, listed(w))
    [] sub = "show" -> IF p.words = <<>> THEN Usage(w) ELSE Loaded(w, p.words[1], LAMBDA doc : Done(w))
    [] sub = "create" -> profileCreate(w, p)
    [] sub = "edit" -> profileEdit(w, p)
    [] sub = "clone" -> profileClone(w, p)
    [] sub = "delete" -> profileDelete(w, p)
    [] sub = "import" -> profileImport(w, p)
    [] sub = "export" -> profileExport(w, p)

-----------------------------------------------------------------------------
(* The documents under hooks/ (commands/hook.ts, commands/proxy.ts). *)

(* A file that is no JSON is an internal error, one that does not conform a
   usage error; Nothing is a file that is not there. *)
Reading(w, file, Body(_)) ==
  CASE file = Broken -> Refused(w, "INTERNAL")
    [] file = NonConforming -> Usage(w)
    [] OTHER -> Body(file)

(* The verdict of "validate": every target exists and nothing is doubled. *)
Validated(w, file, ok(_), targets(_)) ==
  CASE file = Broken -> Refused(w, "INTERNAL")
    [] file \in {Nothing, NonConforming} -> Ends(w, 0, "invalid")
    [] OTHER -> Ends(w, 0, IF ok(file) /\ targets(file) \subseteq ToSet(listed(w))
                           THEN "valid" ELSE "invalid")

Switched(w, file, Put(_), enabled) ==
  Reading(w, file, LAMBDA doc :
    IF doc = Nothing THEN Usage(w) ELSE Done(Put([doc EXCEPT !.enabled = enabled])))

PutRules(w, doc) == [w EXCEPT !.rules = doc]
PutAliases(w, doc) == [w EXCEPT !.aliases = doc]

hookRules(w, action) ==
  CASE action = "show" -> Reading(w, w.rules, LAMBDA doc : Done(w))
    [] action = "validate" -> Validated(w, w.rules, hookRulesOk,
                                        LAMBDA doc : {r.profileId : r \in ToSet(doc.rules)})
    [] OTHER -> Usage(w)

hookToken(w, action) ==
  CASE action = "show" -> Reading(w, w.token, LAMBDA token : Done(w))
    [] action = "rotate" -> Done([w EXCEPT !.token = "new"])
    [] OTHER -> Usage(w)

HookSpec ==
  [status |-> CommandSpec({}, {}, FALSE, 0), token |-> CommandSpec({}, {}, FALSE, 1),
   rules |-> CommandSpec({}, {}, FALSE, 1), enable |-> CommandSpec({}, {}, FALSE, 0), disable |-> CommandSpec({}, {}, FALSE, 0)]

runHookCommand(w, sub, p) ==
  CASE sub = "status" -> Reading(w, w.rules, LAMBDA doc : Reading(w, w.token, LAMBDA token :
                            Reading(w, w.address, LAMBDA address : Ends(w, 0, address))))
    [] sub = "token" -> hookToken(w, OrElse(WordOf(p, 1), "show"))
    [] sub = "rules" -> hookRules(w, OrElse(WordOf(p, 1), "show"))
    [] sub \in {"enable", "disable"} -> Switched(w, w.rules, LAMBDA doc : PutRules(w, doc), sub = "enable")

defaultDocument == [enabled |-> TRUE, sessionLock |-> TRUE, aliases |-> <<>>]

(* (Faulty variant: an alias of the name stays in front of the new one.) *)
WithAliasLast(doc, entry) == [doc EXCEPT !.aliases = Append(@, entry)]

(* The first alias of the name is replaced and keeps its id; whether it was on
   and what else it said is lost. *)
WithAlias(doc, entry) ==
  LET same == {i \in DOMAIN doc.aliases : doc.aliases[i].virtualModel = entry.virtualModel}
      i == Min(same)
  IN  IF same = {} THEN [doc EXCEPT !.aliases = Append(@, entry)]
      ELSE [doc EXCEPT !.aliases[i] = [entry EXCEPT !.id = doc.aliases[i].id]]

(* An empty name or profile id is written all the same, and the document then
   no longer conforms to its own schema. *)
aliasAdd(w, p) ==
  LET name == WordOf(p, 2)
      profile == WordOf(p, 3)
      params == FlagOf(p, "params")
      entry == [id |-> name, virtualModel |-> name, profileId |-> profile, enabled |-> TRUE,
                activate |-> FlagOf(p, "activate") # Nothing,
                lockSession |-> FlagOf(p, "no-lock-session") = Nothing, generation |-> params]
  IN  IF Nothing \in {name, profile} THEN Usage(w)
      ELSE Reading(w, w.aliases, LAMBDA doc :
             IF params # Nothing /\ params \notin Generations THEN Usage(w)
             ELSE Done(PutAliases(w, IF "" \in {name, profile} THEN NonConforming
                                     ELSE WithAlias(OrElse(doc, defaultDocument), entry))))

aliasRemove(w, target) ==
  IF target = Nothing THEN Usage(w)
  ELSE Reading(w, w.aliases, LAMBDA doc :
         IF doc = Nothing THEN Usage(w)
         ELSE LET left == SelectSeq(doc.aliases, LAMBDA a : target \notin {a.virtualModel, a.id})
              IN  IF left = doc.aliases THEN Usage(w)
                  ELSE Done(PutAliases(w, [doc EXCEPT !.aliases = left])))

proxyAliases(w, p) ==
  LET action == IF WordOf(p, 1) \in {Nothing, ""} THEN "show" ELSE p.words[1]
  IN  CASE action = "show" -> Reading(w, w.aliases, LAMBDA doc : Done(w))
        [] action = "add" -> aliasAdd(w, p)
        [] action = "remove" -> aliasRemove(w, WordOf(p, 2))
        [] action = "validate" ->
             Validated(w, w.aliases, LAMBDA doc : validateVirtualAliases(doc) = {},
                       LAMBDA doc : {a.profileId : a \in ToSet(doc.aliases)})
        [] OTHER -> Usage(w)

ProxySpec ==
  [status |-> CommandSpec({}, {}, FALSE, 0), enable |-> CommandSpec({}, {}, FALSE, 0), disable |-> CommandSpec({}, {}, FALSE, 0),
   aliases |-> CommandSpec({"activate", "no-lock-session"}, {"params"}, FALSE, 3)]

runProxyCommand(w, sub, p) ==
  CASE sub = "status" -> Reading(w, w.aliases, LAMBDA doc : Done(w))
    [] sub = "aliases" -> proxyAliases(w, p)
    [] sub \in {"enable", "disable"} -> Switched(w, w.aliases, LAMBDA doc : PutAliases(w, doc), sub = "enable")

-----------------------------------------------------------------------------
(* LM Studio: apply, optimize, models, current, snapshot. *)

Unreachable == {"unreachable", "timeout", "auth"}

(* How a call to the host failed, if it did. *)
Reaching(w, Body) ==
  CASE w.host.fails = Nothing -> Body
    [] w.host.fails \in Unreachable -> Refused(w, "LM_UNREACHABLE")
    [] OTHER -> Refused(w, "INTERNAL")

(* What the transaction answers, and what it leaves on the host, is
   Activation's. *)
Activated(w, doc) ==
  LET run == w.host.run
  IN  IF run.outcome \in {"ACTIVATION_LOCK_BUSY", "ACTIVATION_PREFLIGHT"} THEN Refused(w, run.outcome)
      ELSE Ends([w EXCEPT !.host.active = IF run.outcome = "active" THEN doc.model ELSE run.leaves],
                exitCodeForActivation(run.outcome), run.outcome)

(* REST never knows the profile of the active model, so that every switch
   needs --yes, also one to the model that is active. *)
runApplyCommand(w, p) ==
  LET id == WordOf(p, 1)
  IN  IF id = Nothing THEN Usage(w)
      ELSE Loaded(w, id, LAMBDA doc :
             Reaching(w, IF FlagOf(p, "yes") = Nothing /\ w.host.profileId # id THEN Usage(w)
                         ELSE Activated(w, doc)))

(* The head candidate is saved only when its estimate or its measurement is
   firm; the record of the save is written after the profile. *)
SaveHead(w, doc) ==
  LET made == create(w, [doc EXCEPT !.id = @ \o "-" \o w.head.ruleVersion,
                                    !.source = "rule-recommended"])
  IN  IF made.exit = 0 /\ ~w.head.audited THEN Refused(made.world, "INTERNAL") ELSE made

runOptimizeCommand(w, p) ==
  LET id == WordOf(p, 1)
  IN  IF id = Nothing THEN Usage(w)
      ELSE Loaded(w, id, LAMBDA doc :
             IF FlagOf(p, "yes") = Nothing THEN Done(w)
             ELSE IF w.head = Nothing THEN Usage(w)
             ELSE IF w.head.confidence # "high" THEN Usage(w) ELSE SaveHead(w, doc))

FirstOr(entries, Pick(_)) == IF entries = <<>> THEN Nothing ELSE Pick(Head(entries))

profileIdForModelKey(w, model) ==
  FirstOr(SelectSeq(listed(w), LAMBDA id : w.profiles[id].model = model), LAMBDA id : id)

(* The profile of the active model is looked up; a snapshot only does so when
   the adapter does not know it. *)
runCurrentCommand(w) ==
  Reaching(w, Ends(w, 0, IF w.host.active = Nothing THEN Nothing
                         ELSE profileIdForModelKey(w, w.host.active)))

runSnapshotCommand(w) ==
  Reaching(w, Ends(w, 0, IF w.host.active = Nothing THEN Nothing
                         ELSE OrElse(w.host.profileId, profileIdForModelKey(w, w.host.active))))

-----------------------------------------------------------------------------
(* The language (i18n service.ts, detect.ts; run.ts, deps.ts). *)

normalizeLocale(text) ==
  CASE LanguageTag[text].primary = "en" -> "en"
    [] LanguageTag[text].primary = "zh" ->
         IF LanguageTag[text].secondary \in {"hant", "tw", "hk", "mo"} THEN Nothing ELSE "zh-CN"
    [] OTHER -> Nothing

(* The first of the variables of the environment that names a language. *)
systemLocaleFromEnv(variables) ==
  FirstOr(SelectSeq(variables, LAMBDA text : normalizeLocale(text) # Nothing), normalizeLocale)

Started(w) == [w EXCEPT !.locale.current = OrElse(w.locale.stored, "en")]

Stored(w, language) == IF w.locale.writable THEN [w EXCEPT !.locale.stored = language] ELSE w

(* Only a language other than the current one is stored, if it can be. *)
setLocale(w, language) ==
  IF language = w.locale.current THEN w
  ELSE Stored([w EXCEPT !.locale.current = language], language)

resolveLocale(w, requested) ==
  LET asked == IF requested = Nothing THEN Nothing ELSE normalizeLocale(requested)
  IN  OrElse(asked, OrElse(w.locale.stored, OrElse(systemLocaleFromEnv(w.locale.system), "en")))

runLangCommand(w, p) ==
  LET language == normalizeLocale(p.words[1])
  IN  CASE p.words = <<>> -> Done(w)
        [] p.words # <<>> /\ language = Nothing -> Usage(w)
        [] OTHER -> IF w.locale.writable \/ language = w.locale.current THEN Done(setLocale(w, language))
                    ELSE Refused(setLocale(w, language), "INTERNAL")

-----------------------------------------------------------------------------
(* A run (run.ts, index.ts). *)

(* A command with subcommands takes the first of its arguments as one. *)
Sub(w, args, specs, Body(_, _)) ==
  IF args = <<>> THEN Usage(w)
  ELSE IF args[1].kind # "word" \/ args[1].text \notin DOMAIN specs THEN Usage(w)
  ELSE LET p == parseCommandArgs(specs[args[1].text], Tail(args))
       IN  IF p.error THEN Usage(w) ELSE Body(args[1].text, p)

Plain(w, args, spec, Body(_)) ==
  LET p == parseCommandArgs(spec, args) IN IF p.error THEN Usage(w) ELSE Body(p)

Subject == CommandSpec({"yes"}, {}, FALSE, 1)
Bare == CommandSpec({}, {}, FALSE, 0)

dispatchCommand(w, command, args) ==
  CASE command = "profile" -> Sub(w, args, ProfileSpec, LAMBDA s, p : runProfileCommand(w, s, p))
    [] command = "hook" -> Sub(w, args, HookSpec, LAMBDA s, p : runHookCommand(w, s, p))
    [] command = "proxy" -> Sub(w, args, ProxySpec, LAMBDA s, p : runProxyCommand(w, s, p))
    [] command = "apply" -> Plain(w, args, Subject, LAMBDA p : runApplyCommand(w, p))
    [] command = "optimize" -> Plain(w, args, Subject, LAMBDA p : runOptimizeCommand(w, p))
    [] command = "models" -> Plain(w, args, Bare, LAMBDA p : Reaching(w, Done(w)))
    [] command = "current" -> Plain(w, args, Bare, LAMBDA p : runCurrentCommand(w))
    [] command = "snapshot" -> Plain(w, args, Bare, LAMBDA p : runSnapshotCommand(w))
    [] command = "lang" -> Plain(w, args, CommandSpec({}, {}, FALSE, 1), LAMBDA p : runLangCommand(w, p))
    [] command = "doctor" -> Plain(w, args, CommandSpec({"bundle"}, {}, FALSE, 0), LAMBDA p : Done(recover(w)))
    [] command = "hardware" -> Done(w)
    [] OTHER -> Usage(w)

runCli(argv, world) ==
  LET parsed == parseArgs(argv)
      w == setLocale(Started(world), resolveLocale(world, IF parsed.error THEN Nothing ELSE parsed.lang))
  IN  CASE world.locale.stored = Broken -> Refused(world, "INTERNAL")
        [] world.locale.stored # Broken /\ parsed.error -> Usage(w)
        [] OTHER -> IF parsed.help \/ parsed.command = "help" THEN Done(w)
                    ELSE dispatchCommand(w, parsed.command, parsed.args)
=============================================================================
