------------------------------- MODULE Sidecar -------------------------------
(***************************************************************************)
(* One call of a method of the sidecar (handlers.ts) as a function: the    *)
(* method, its parameters and the world it finds, to the code it answers   *)
(* and the world it leaves.  The world is the commands' (Cli), with what   *)
(* only the sidecar has: the seams that are wired, the index of default    *)
(* profiles, the rows of the hook's log, and the notice of the tray.  The  *)
(* calls that wait for a benchmark are in Evidence and Benchmark, the menu *)
(* is in TrayMenu, the proxy in Proxy.                                     *)
(***************************************************************************)
EXTENDS Cli

CONSTANT Trim  \* from a text with blanks around it to the text without them

Param(params, key) == IF key \in DOMAIN params THEN params[key] ELSE Nothing
Trimmed(text) == IF text \in DOMAIN Trim THEN Trim[text] ELSE text
Blank == {Nothing, ""}

Wired(w, seam, Body) == IF seam \in w.wired THEN Body ELSE Refused(w, "METHOD_UNSUPPORTED")

(* A profile that does not conform has a code of its own. *)
guard(answer) ==
  IF answer.code = "DOMAIN" THEN Refused(answer.world, "PROFILE_INVALID") ELSE answer

Stores(w, id, Body(_)) == Wired(w, "store", Loaded(w, id, Body))

(* Some methods look at the id before they look for the store. *)
Asked(w, id, Body) == IF id = Nothing THEN Refused(w, "STORE_INVALID_ID") ELSE Body

-----------------------------------------------------------------------------
(* The language and the default profiles. *)

getLocale(w) ==
  CASE "root" \notin w.wired -> Done(w)
    [] "root" \in w.wired /\ w.locale.stored = Broken -> Refused(w, "INTERNAL")
    [] OTHER -> Ends(w, 0, w.locale.stored)

(* Unlike the command, a language is stored also when it is the current one. *)
storeLocale(w, language) ==
  LET locale == IF language = Nothing THEN Nothing ELSE normalizeLocale(language)
  IN  CASE locale = Nothing -> Refused(w, "INTERNAL")
        [] locale # Nothing /\ "root" \notin w.wired -> Ends(w, 0, locale)
        [] OTHER -> IF w.locale.writable THEN Ends(Stored(w, locale), 0, locale)
                    ELSE Refused(w, "INTERNAL")

(* The default of a model and scenario; an index that cannot be read is not
   replaced. *)
setDefault(w, doc) ==
  IF w.defaults = Broken THEN Refused(w, "STORE_CORRUPTED")
  ELSE Ends([w EXCEPT !.defaults = Keyed(<<doc.model, doc.task>>, doc.id, @)], 0, doc.id)

-----------------------------------------------------------------------------
(* Models, and a start without a profile. *)

(* A host that does not answer has no models, unless the lms command lists
   them; but an index of defaults that cannot be read fails the whole view. *)
Discovered(w) == IF w.host.fails = Nothing \/ w.host.lms THEN w.host.models ELSE {}

ReadModels(w, Body(_)) ==
  Wired(w, "modelContext",
        IF w.defaults = Broken THEN Refused(w, "STORE_CORRUPTED") ELSE Body(Discovered(w)))

modelsContext(w) ==
  ReadModels(w, LAMBDA models :
    Wired(w, "store", Ends(w, 0, [models |-> models, profiles |-> listed(w)])))

(* The draft is activated and never stored. *)
safeBaselineForModel(w, params, Body(_)) ==
  LET model == Trimmed(Param(params, "modelKey"))
      task == Trimmed(Param(params, "taskType"))
  IN  IF {model, task} \cap Blank # {} THEN Refused(w, "PROFILE_INVALID")
      ELSE ReadModels(w, LAMBDA models :
             IF model \in models THEN Body([model |-> model, task |-> task])
             ELSE Refused(w, "STORE_NOT_FOUND"))

-----------------------------------------------------------------------------
(* Activation.  The tray shows how the last one failed; an unload that finds
   nothing loaded leaves the notice. *)

recordOutcome(answer) ==
  LET notice == CASE answer.code # "ok" -> answer.code
                  [] answer.code = "ok" /\ answer.said = "active" -> Nothing
                  [] answer.code = "ok" /\ answer.said = "canceled" -> "ACTIVATION_CANCELED"
                  [] OTHER -> "ACTIVATION_STEP_FAILED"
  IN  [answer EXCEPT !.world.notice = notice]

activationStatus(w) == Wired(w, "activation", Reaching(w, Ends(w, 0, w.host.active)))

activationApply(w, params) ==
  LET id == Param(params, "id")
  IN  recordOutcome(Wired(w, "activation",
        Asked(w, id, Stores(w, id, LAMBDA doc : Reaching(w, Activated(w, doc))))))

startSafe(w, params) ==
  recordOutcome(IF "modelContext" \notin w.wired THEN Refused(w, "METHOD_UNSUPPORTED")
    ELSE Wired(w, "activation",
           safeBaselineForModel(w, params, LAMBDA doc : Reaching(w, Activated(w, doc)))))

unload(w) ==
  LET answer ==
        Wired(w, "activation", Reaching(w,
          CASE w.host.active = Nothing -> Done(w)
            [] w.host.active # Nothing /\ w.host.run.outcome = "ACTIVATION_LOCK_BUSY" ->
                 Refused(w, "ACTIVATION_LOCK_BUSY")
            [] w.host.active # Nothing /\ w.host.run.outcome = "failed" ->
                 Refused([w EXCEPT !.host.active = w.host.run.leaves], "INTERNAL")
            [] OTHER -> Done([w EXCEPT !.host.active = Nothing, !.notice = Nothing])))
  IN  IF answer.code = "ok" THEN answer ELSE recordOutcome(answer)

-----------------------------------------------------------------------------
(* Recommendations (the recommendation itself is Optimizer's). *)

optimizePreview(w, params) ==
  Wired(w, "recommendation",
        Stores(w, Param(params, "profileId"), LAMBDA doc : Ends(w, 0, w.head)))

optimizeSave(w, params) ==
  Wired(w, "recommendation",
    Stores(w, Param(params, "profileId"), LAMBDA doc :
      IF w.head = Nothing THEN Refused(w, "OPTIMIZE_REFUSED")
      ELSE IF w.head.confidence # "high" THEN Refused(w, "OPTIMIZE_REFUSED") ELSE SaveHead(w, doc)))

-----------------------------------------------------------------------------
(* The hook and the aliases. *)

Conforming(w, file, invalid, Body(_)) ==
  CASE file = Broken -> Refused(w, "INTERNAL")
    [] file = NonConforming -> Refused(w, invalid)
    [] OTHER -> Body(file)

hookStatus(w) ==
  Wired(w, "hook", Conforming(w, w.rules, "HOOK_RULES_INVALID", LAMBDA doc :
    Conforming(w, w.token, "INTERNAL", LAMBDA token : Ends(w, 0, token # Nothing))))

hookRulesOf(w) ==
  Wired(w, "hook", Conforming(w, w.rules, "HOOK_RULES_INVALID", LAMBDA doc : Done(w)))

Audited(answer, row) == [answer EXCEPT !.world.audits = Append(@, row)]

Denial(doc) ==
  CASE doc = Nothing -> "HOOK_UNCONFIGURED"
    [] OTHER -> IF doc.enabled THEN "HOOK_DENIED" ELSE "HOOK_DISABLED"

(* What the rules deny is logged before any work on the host; what they allow
   is logged when the activation has answered, and not when it threw. *)
hookSwitch(w, params) ==
  LET app == Trimmed(Param(params, "app"))
      task == IF Param(params, "taskKind") \in Blank THEN NoTask ELSE params.taskKind
      Row(outcome, target) == [app |-> app, taskKind |-> task, outcome |-> outcome, target |-> target]
      Allowed(target, answer) ==
        IF answer.code = "ok" THEN Audited(answer, Row(answer.said, target)) ELSE answer
      Decide(doc) ==
        LET target == IF doc = Nothing THEN Nothing
                      ELSE matchHookRule(doc, [app |-> app, taskKind |-> task])
        IN  IF target = Nothing THEN Audited(Refused(w, Denial(doc)), Row(Denial(doc), Nothing))
            ELSE Stores(w, target.profileId, LAMBDA profile :
                   Wired(w, "activation", Reaching(w, Allowed(target, Activated(w, profile)))))
  IN  Wired(w, "hook",
        IF app \in Blank THEN Refused(w, "HOOK_INVALID_REQUEST")
        ELSE Conforming(w, w.rules, "HOOK_RULES_INVALID", Decide))

aliasesStatus(w) ==
  Wired(w, "alias", Conforming(w, w.aliases, "ALIASES_INVALID", LAMBDA doc :
    Ends(w, 0, IF doc = Nothing THEN {} ELSE {a.virtualModel : a \in ToSet(doc.aliases)})))

-----------------------------------------------------------------------------
(* The token of the transport: the shell passes one to each process; a server
   for hooks keeps one in a file and makes it on its first start. *)
resolveToken(w, kind, explicit) ==
  CASE explicit # Nothing -> Ends(w, 0, explicit)
    [] explicit = Nothing /\ kind = "http" ->
         Conforming(w, w.token, "INTERNAL", LAMBDA token :
           IF token # Nothing THEN Ends(w, 0, token) ELSE Ends([w EXCEPT !.token = "new"], 0, "new"))
    [] OTHER -> Refused(w, "INTERNAL")

(* The start of the process.  What the shell passes wins over the environment, an
   unknown transport is the standard one, and the port is read for http alone.
   Only a server for hooks that listens leaves its address in a file; one that
   finds its port taken has stored its token by then. *)
resolveSidecarSettings(argv, env) ==
  LET asked == OrElse(argv.transport, env.transport)
      kind == IF asked \in {"stdio", "pipe", "http"} THEN asked ELSE "stdio"
  IN  [kind |-> kind, token |-> OrElse(argv.token, env.token),
       port |-> IF kind = "http" THEN env.port ELSE Nothing]

Listening(w, settings, token) ==
  IF settings.port \in w.taken THEN Refused(w, "INTERNAL")
  ELSE Ends([w EXCEPT !.address = IF settings.kind = "http" THEN "this server" ELSE @], 0,
            [kind |-> settings.kind, token |-> token])

main(w, argv, env) ==
  LET settings == resolveSidecarSettings(argv, env)
      resolved == resolveToken(w, settings.kind, settings.token)
  IN  IF settings.port = Broken THEN Refused(w, "INTERNAL")
      ELSE IF resolved.code # "ok" THEN resolved
      ELSE Listening(resolved.world, settings, resolved.said)

-----------------------------------------------------------------------------
(* A method with an object for a parameter refuses anything else. *)
Object(w, value, Body) == IF value = Nothing THEN Refused(w, "PROFILE_INVALID") ELSE Body

createProfile(w, doc) ==
  Object(w, doc, Wired(w, "store", IF doc = NonConforming THEN Refused(w, "DOMAIN") ELSE create(w, doc)))

handle(method, params, w) ==
  LET id == Param(params, "id")
      profileId == Param(params, "profileId")
  IN  guard(
    CASE method = "settings.getLocale" -> getLocale(w)
      [] method = "settings.setLocale" -> storeLocale(w, Param(params, "locale"))
      [] method = "models.context" -> modelsContext(w)
      [] method = "defaults.set" ->
           Wired(w, "root", Asked(w, profileId, Stores(w, profileId, LAMBDA doc : setDefault(w, doc))))
      [] method = "optimization.setDefault" ->
           Wired(w, "optimization", Loaded(w, profileId, LAMBDA doc : setDefault(w, doc)))
      [] method = "profiles.list" -> Wired(w, "store", Ends(w, 0, listed(w)))
      [] method = "profiles.show" -> Stores(w, id, LAMBDA doc : Ends(w, 0, doc))
      [] method = "profiles.create" -> createProfile(w, Param(params, "profile"))
      [] method = "profiles.update" ->
           LET patch == Param(params, "patch")
           IN  Object(w, patch, Wired(w, "store", update(w, id, patch)))
      [] method = "profiles.delete" -> Wired(w, "store", delete(w, id))
      [] method = "optimize.preview" -> optimizePreview(w, params)
      [] method = "optimize.save" -> optimizeSave(w, params)
      [] method = "activation.status" -> activationStatus(w)
      [] method = "activation.apply" -> activationApply(w, params)
      [] method = "activation.startSafe" -> startSafe(w, params)
      [] method = "activation.unload" -> unload(w)
      [] method = "hook.status" -> hookStatus(w)
      [] method = "hook.rules" -> hookRulesOf(w)
      [] method = "hook.switch" -> hookSwitch(w, params)
      [] method = "aliases.status" -> aliasesStatus(w)
      [] OTHER -> Refused(w, "METHOD_NOT_FOUND"))
=============================================================================
