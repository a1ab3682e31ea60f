---------------------------- MODULE MCAlgorithms ----------------------------
(***************************************************************************)
(* The pure algorithms on bounded inputs: one step computes the output of  *)
(* one input, and a channel is served one event after the other.  A        *)
(* baseline of every offload and context, rules with up to two ranges of   *)
(* which the second is the context, hosts from no memory to plenty, and    *)
(* models that are smaller and larger than the GPU.                        *)
(***************************************************************************)
EXTENDS Answers

Unknown == Nothing

(* The constants of the commands and methods. *)
StoredIds == <<"p1", "p1-copy", "p2">>
WithoutBlanks == " app" :> "app" @@ " " :> ""
LanguageTags ==
  [t \in {"zh-TW", "zh", "en", "fr"} |->
     [primary |-> CASE t = "zh-TW" -> "zh" [] OTHER -> t, secondary |-> IF t = "zh-TW" THEN "tw" ELSE None]]

B == INSTANCE ChatBody WITH
  Field <- {"seed"}, Null <- None, Absent <- Unknown, MaxMessages <- 2

H == INSTANCE Hardware WITH Nothing <- Unknown, Garbage <- Broken

L == INSTANCE LmHost WITH Nothing <- Unknown, Garbage <- Broken, Ratios <- {"0.5"}

D == INSTANCE Documents WITH
  Nothing <- Unknown,
  Required <- {<<"displayName", "en">>, <<"model", "modelKey">>, <<"task", "type">>, <<"metadata", "updatedAt">>},
  Optional <- {<<"generation", "maxTokens">>}, Dropping <- {"displayName"},
  Misfit <- "misfit", Numbers <- {"0", "1", "2", "3"}, Current <- "2", Older <- {"1"}, Legacy <- {"0", "1", "2"},
  Blank <- {" "}, SecretKeys <- {"apiKey", "maxTokens"}, Private <- {"/home/me"}, Hidden <- "<private>",
  Null <- "null", Stamp <- "now"

E == INSTANCE Editor WITH
  Nothing <- Unknown,
  Required <- {<<"displayName", "zh-CN">>, <<"displayName", "en">>, <<"model", "modelKey">>, <<"task", "type">>,
               <<"behavior", "mode">>, <<"metadata", "updatedAt">>},
  Optional <- {<<"description", "en">>, <<"model", "family">>, <<"task", "kind">>, <<"runtime", "contextLength">>,
               <<"runtime", "gpuOffload">>, <<"generation", "temperature">>}, Dropping <- {"displayName"},
  Misfit <- "", Numbers <- {"1", "2"}, Current <- "2", Older <- {"1"}, Legacy <- {"1", "2"},
  Blank <- {""}, SecretKeys <- {"apiKey"}, Private <- {"/home/me"}, Hidden <- "<private>",
  Null <- "null", Stamp <- "now", Ids <- {"p1"}, Trim <- (" " :> "" @@ " x" :> "x" @@ " p1" :> "p1"),
  Rounded <- ("0" :> "0" @@ "0.5" :> "1" @@ "0.4" :> "0" @@ "8" :> "8"), Positive <- {"1", "8"}

T == INSTANCE Transport WITH Nothing <- Unknown, CallIds <- {1, 2}, channel <- output

vars == <<input, output>>

-----------------------------------------------------------------------------
(* Recommendations. *)

Configs == [offload : 0 .. 4 \cup {Unknown}, context : 1 .. 8 \cup {Unknown}]

(* What LM Studio answers for a model of a size: the offload shares its layers
   between GPU and host.  It may have no exact figures, and fail for the
   largest context. *)
Footprint(model, config) ==
  LET offload == OrDefault(config.offload, 4)
      whole == model.size + OrDefault(config.context, 2) \div 2
      vram == (whole * offload) \div 4
  IN  [exact |-> model.exact, vram |-> vram, ram |-> whole - vram, total |-> Unknown,
       offload |-> offload]

Footprints(model) ==
  [c \in Configs |-> IF model.fails /\ c.context = 8 THEN Unknown ELSE Footprint(model, c)]

Between(key, min, max) == [key |-> key, min |-> min, max |-> max]

Rules ==
  [architectureFits : {TRUE}, concurrencyFits : {TRUE}, support : {"exact"},
   hints : {<<>>, <<Between("offload", 2, 4)>>, <<Between("context", 2, 8), Between("offload", 0, 4)>>},
   minContext : {Unknown, 4}, minVram : {Unknown, 6}, weights : {<<1, 1, 1, 1>>}]

Hosts ==
  [vramTotal : {16}, vramFree : {Unknown, 4, 12}, ramTotal : {64},
   ramFree : {Unknown, 8, 48}, host : {1}]

(* Nothing was measured; or a host-resident configuration was, here or on
   another machine, and later again without a figure. *)
Record(config, host, decode, at) ==
  [completed |-> TRUE, decode |-> decode, ttft |-> 100, config |-> config, host |-> host, at |-> at]
Logs ==
  {<<>>} \cup {<<Record([offload |-> o, context |-> c], h, 5, 1),
                 Record([offload |-> o, context |-> c], 1, Unknown, 2)>> :
                 o \in {0, 2}, c \in {2, 8}, h \in {1, 2}}

RecommendInputs ==
  [kind : {"recommend"},
   base : [offload : {Unknown, 4}, context : {Unknown, 2}], rule : Rules, host : Hosts,
   model : [size : {3, 14}, exact : BOOLEAN, fails : BOOLEAN], records : Logs]
ASSUME RecommendInputsAssumption ==
  \A i \in RecommendInputs : IsQuestion(Posed(i)) /\ HostedWithoutGpu(Posed(i).estimator)

-----------------------------------------------------------------------------
(* Measurements. *)

UsageReadings == [vram : {Unknown, 1, 3}, ram : {1, 4}]
UsageInputs ==
  [kind : {"usage"}, before : UsageReadings, readings : UNION {[1 .. n -> UsageReadings] : n \in 0 .. 2},
   estimate : {[total |-> Unknown, vram |-> v, ram |-> r] : v \in {Unknown, 1, 2}, r \in {0, 2}},
   status : {"completed", "failed"}]

SampleInputs ==
  [kind : {"samples"}, peaks : {{}, {2, 5}},
   samples : LET Sample == [ttft : {Unknown, 0, 100}, total : {100, 300}, tokens : {0, 5}, prompt : {10}]
             IN  UNION {[1 .. n -> Sample] : n \in 0 .. 3}]

(* Two models, one of them not discovered, with evidence of this machine or
   another one, on days 0 to 9; evidence counts for 7 days. *)
Evidence == [at : {Unknown, 0, 8, 9}, host : {Unknown, 1, 2}, lmStudio : {1}]
ContextInputs ==
  {[kind |-> "context", models |-> {1}, profiles |-> ps, benchmarks |-> bs,
    defaults |-> [key \in {1, 2} \X {1} |-> d], now |-> 8, ttl |-> 7,
    ready |-> [host |-> h, lmStudio |-> 1], active |-> Unknown, runtime |-> "idle",
    discovery |-> "ready"] :
     ps \in {{}} \cup {{[id |-> 1, model |-> m, task |-> 1, validation |-> v]} :
                          m \in 1 .. 2, v \in Evidence \cup {Unknown}},
     bs \in {{}} \cup {{[at |-> e.at, host |-> e.host, lmStudio |-> e.lmStudio,
                          model |-> 1, task |-> 1]} : e \in {x \in Evidence : x.at # Unknown}},
     d \in {Unknown, 1, 2}, h \in {Unknown, 1}}

-----------------------------------------------------------------------------
(* Command lines, and the worlds they find. *)

Words(texts) == [i \in DOMAIN texts |-> Word(texts[i])]
Line(texts, flags) == Words(texts) \o flags

Document(id) == [id |-> id, model |-> "m1", task |-> "chat", source |-> "user", extra |-> FALSE]
Text(ext, content) == [ext |-> ext, content |-> content]
Files ==
  ("p1.json" :> Text("json", Document("p1")) @@ "p2.json" :> Text("json", Document("p2"))
   @@ "p2.yml" :> Text("yaml", [Document("p2") EXCEPT !.extra = TRUE])
   @@ "p2.txt" :> Text("txt", Document("p2")) @@ "-" :> Text("stdin", Document("p2"))
   @@ "bad.json" :> Text("json", Broken) @@ "odd.json" :> Text("json", NonConforming)
   @@ "patch.json" :> Text("json", [Document(Unknown) EXCEPT !.task = "agent"]))

World ==
  [profiles |-> "p1" :> Document("p1"), backups |-> [id \in {} |-> <<>>], files |-> Files,
   unwritable |-> {"dir"}, rules |-> Unknown, aliases |-> Unknown, token |-> Unknown, head |-> Unknown,
   address |-> Unknown, taken |-> {},
   wired |-> {"root", "store", "modelContext", "optimization", "recommendation", "activation", "hook", "alias"},
   defaults |-> [k \in {} |-> Unknown], audits |-> <<>>, notice |-> Unknown,
   host |-> [fails |-> Unknown, lms |-> FALSE, models |-> {"m1"}, active |-> Unknown, profileId |-> Unknown,
             run |-> [outcome |-> "active", leaves |-> Unknown]],
   locale |-> [stored |-> Unknown, system |-> <<>>, current |-> "en", writable |-> TRUE]]

StoreStates ==
  {[profiles |-> "p1" :> Document("p1"), backups |-> [id \in {} |-> <<>>]],
   [profiles |-> "p1" :> Document("p1") @@ "p1-copy" :> Document("p1-copy"),
    backups |-> "p1" :> <<Document("p1")>>],
   [profiles |-> "p1" :> Broken @@ "p2" :> Document("p2"),
    backups |-> "p1" :> <<Document("p1"), Broken>>]}

ProfileLines ==
  {Line(<<"profile", "create">>, <<Flag("name"), Word(id), With("file", f)>>) :
     id \in {"p1", "p2", "p3"}, f \in DOMAIN Files \cup {"none"}}
  \cup {Line(<<"profile", "import", f>>, flags) :
           f \in DOMAIN Files, flags \in {<<>>, <<Flag("allow-rename")>>}}
  \cup {Line(<<"profile", "edit", id>>, flags) : id \in {"p1", "p2", "?"},
           flags \in {<<>>} \cup {<<With("patch", f)>> : f \in DOMAIN Files}}
  \cup {Line(<<"profile", sub, "p1">> \o more, flags) :
           sub \in {"clone", "delete", "show", "export", "list"}, more \in {<<>>, <<"p2">>},
           flags \in {<<>>, <<Flag("yes")>>, <<Short("o"), Word("out")>>,
                     <<Short("o"), Word("dir")>>, <<EndOfFlags, Flag("yes")>>}}
  \cup {Words(<<"doctor">>), Words(<<"profile">>), Words(<<"profile", "list">>), <<Short("h")>>}
ProfileInputs ==
  {[kind |-> "command", argv |-> line,
    world |-> [World EXCEPT !.profiles = s.profiles, !.backups = s.backups]] :
     line \in ProfileLines, s \in StoreStates}

VirtualAlias(id, name, p, enabled) ==
  [id |-> id, virtualModel |-> name, profileId |-> p, enabled |-> enabled,
   activate |-> FALSE, lockSession |-> TRUE, generation |-> Unknown]
AliasDocs ==
  {Unknown, Broken, NonConforming} \cup
  {[enabled |-> on, sessionLock |-> TRUE, aliases |-> as] : on \in BOOLEAN,
     as \in {<<>>, <<VirtualAlias("x", "m", "p1", TRUE)>>,
            <<VirtualAlias("x", "m", "p1", FALSE), VirtualAlias("y", "m", "p1-copy", TRUE)>>,
            <<VirtualAlias("m", "n", "p1", TRUE), VirtualAlias("n", "m", "p1", TRUE)>>}}
Rule(id, app, task) == [id |-> id, app |-> app, taskKind |-> task, profileId |-> "p1", enabled |-> TRUE]
RuleDocs ==
  {Unknown, Broken, NonConforming} \cup
  {[enabled |-> TRUE, rules |-> rs] :
     rs \in {<<>>, <<Rule("x", "app", NoTask), Rule("y", "app", "chat")>>,
            <<Rule("x", "app", NoTask), Rule("y", "app", NoTask)>>,
            <<Rule("x", "app", "chat"), [Rule("y", "app", "chat") EXCEPT !.profileId = "p2"]>>}}

Add(name, p) == Words(<<"proxy", "aliases", "add", name, p>>)
Drop(name) == Words(<<"proxy", "aliases", "remove", name>>)
HookLines ==
  {Add(name, p) \o flags : name \in {"m", "n", ""}, p \in {"p1", "p2"},
     flags \in {<<>>, <<Flag("activate")>>, <<With("params", "{seed}")>>, <<With("params", "{")>>,
               <<With("activate", "yes")>>}}
  \cup {Drop(name) : name \in {"m", "x"}}
  \cup {Words(ws) : ws \in {<<"proxy">>, <<"proxy", "aliases">>, <<"proxy", "aliases", "validate">>,
                           <<"proxy", "aliases", "drop">>}}
  \cup {Words(<<c, sub>>) : c \in {"hook", "proxy"}, sub \in {"status", "enable", "disable", "token", "rules"}}
  \cup {Words(<<"hook", sub, action>>) : sub \in {"token", "rules"},
                                        action \in {"show", "rotate", "validate"}}
HookInputs ==
  {[kind |-> "command", argv |-> line,
    world |-> [World EXCEPT !.aliases = IF line[1] = Word("proxy") THEN d ELSE Unknown,
                            !.rules = IF line[1] = Word("hook") THEN r ELSE Unknown, !.token = t]] :
     line \in HookLines, d \in AliasDocs, r \in RuleDocs, t \in {Unknown, Broken, "old"}}

HostLines ==
  {Line(<<c>> \o more, flags) : c \in {"apply", "optimize", "models", "current", "snapshot", "hardware"},
     more \in {<<>>, <<"p1">>, <<"p2">>}, flags \in {<<>>, <<Flag("yes")>>}}
Best(confidence, audited) == [confidence |-> confidence, ruleVersion |-> "copy", audited |-> audited]
HostInputs ==
  {[kind |-> "command", argv |-> line,
    world |-> [World EXCEPT !.host.fails = up, !.host.active = a, !.host.profileId = id, !.host.run.outcome = o,
                            !.head = h]] :
     line \in HostLines, up \in {Unknown, "auth", "parse"}, a \in {Unknown, "m1"}, id \in {Unknown, "p1"}, h \in
       {Unknown, Best("low", TRUE), Best("high", TRUE), Best("high", FALSE)},
     o \in {"active", "canceled", "failed-but-recovered", "failed", "ACTIVATION_LOCK_BUSY"}}

LanguageInputs ==
  {[kind |-> "command", argv |-> line,
    world |-> [World EXCEPT !.locale.stored = st, !.locale.system = sy, !.locale.writable = w]] :
     line \in {Words(<<"lang", t>>) : t \in {"zh", "zh-TW", "en", "fr"}}
             \cup {<<Flag("lang"), Word(t), Word("lang")>> : t \in {"zh", "fr"}}
             \cup {<<Flag("timeout"), Word("soon"), Word("lang")>>, <<Word("lang"), Flag("lang")>>},
     st \in {Unknown, Broken, "en", "zh-CN"}, sy \in {<<>>, <<"fr", "zh">>}, w \in BOOLEAN}

(* Calls of the sidecar, with parameters of every kind. *)
AskedIds == {"p1", "p2", "?", Unknown}
DocumentCalls ==
  {[method |-> m, params |-> [id |-> id]] : m \in {"profiles.list", "profiles.show", "profiles.delete"}, id \in AskedIds}
  \cup {[method |-> "profiles.create", params |-> [profile |-> d]] :
           d \in {Unknown, NonConforming, Document("p1"), Document("p2"), Document("?")}}
  \cup {[method |-> "profiles.update", params |-> [id |-> id, patch |-> d]] :
           id \in AskedIds, d \in {Unknown, NonConforming, Document("p2"), [Document(Unknown) EXCEPT !.task = "agent"]}}
  \cup {[method |-> m, params |-> [profileId |-> id]] :
           m \in {"defaults.set", "optimization.setDefault", "optimize.preview", "optimize.save"}, id \in AskedIds}
  \cup {[method |-> m, params |-> [locale |-> l]] : m \in {"settings.getLocale", "settings.setLocale"},
           l \in {Unknown, "zh", "fr"}}
HostCalls ==
  {[method |-> "activation.apply", params |-> [id |-> id]] : id \in AskedIds}
  \cup {[method |-> "activation.startSafe", params |-> [modelKey |-> m, taskType |-> t]] :
           m \in {"m1", "m2", " "}, t \in {Unknown, "chat"}}
  \cup {[method |-> m, params |-> [id |-> Unknown]] :
           m \in {"activation.status", "activation.unload", "models.context", "sdk"}}
RuleCalls ==
  {[method |-> "hook.switch", params |-> [app |-> a, taskKind |-> t]] :
     a \in {"app", " app", "other", " ", Unknown}, t \in {Unknown, "chat", "code"}}
  \cup {[method |-> m, params |-> [app |-> Unknown]] : m \in {"hook.status", "hook.rules", "aliases.status"}}
Calling(call, world) ==
  input = [kind |-> "call", method |-> call.method, params |-> call.params, world |-> world]

Seams == {World.wired} \cup {World.wired \ {s} : s \in World.wired}
CallsDocuments ==
  \E c \in DocumentCalls, s \in StoreStates, x \in Seams, d \in {World.defaults, Broken}, l \in {Unknown, Broken},
     h \in {Unknown, Best("low", TRUE), Best("high", TRUE), Best("high", FALSE)} :
    Calling(c, [World EXCEPT !.profiles = s.profiles, !.backups = s.backups, !.wired = x, !.head = h,
                             !.defaults = d, !.locale.stored = l])
CallsHost ==
  \E c \in HostCalls, x \in Seams, f \in {Unknown, "auth", "parse"}, lms \in BOOLEAN, a \in {Unknown, "m2"},
     d \in {World.defaults, Broken}, o \in {"active", "canceled", "failed", "ACTIVATION_LOCK_BUSY"} :
    Calling(c, [World EXCEPT !.wired = x, !.host.fails = f, !.host.lms = lms, !.host.active = a,
                             !.host.run.outcome = o, !.defaults = d, !.notice = "old"])
CallsHook ==
  \E c \in RuleCalls, x \in Seams, r \in RuleDocs \cup {[enabled |-> FALSE, rules |-> <<Rule("x", "app", NoTask)>>]},
     d \in {Unknown, Broken, NonConforming}, t \in {Unknown, Broken}, f \in {Unknown, "auth"} :
    Calling(c, [World EXCEPT !.wired = x, !.rules = r, !.aliases = d, !.token = t, !.host.fails = f])
StartInputs ==
  {[kind |-> "start", argv |-> [transport |-> k, token |-> e], env |-> [transport |-> n, token |-> v, port |-> p],
    world |-> [World EXCEPT !.token = t, !.address = a, !.taken = {"8124"}]] :
     k \in {Unknown, "http", "typo"}, n \in {Unknown, "pipe", "http"}, e \in {Unknown, "given"}, v \in {Unknown, "inherited"},
     p \in {Unknown, Broken, "8123", "8124"}, t \in {Unknown, Broken, "old"}, a \in {Unknown, "ended server"}}

CommandInputs == ProfileInputs \cup HookInputs \cup HostInputs \cup LanguageInputs

(* The commands are run in worlds the theorems of RequestProofs speak of; the
   methods' differ in the same fields. *)
ASSUME WorldsAssumption == \A i \in CommandInputs : IsWorld(i.world)

-----------------------------------------------------------------------------
(* Hosts as their commands show them: each answers, is missing, is late, fails
   with what it printed so far, or prints garbage. *)

Process(end, rows) == [end |-> end, rows |-> rows]
Prints(tables) ==
  {Process("missing", <<>>), Process("late", <<>>)} \cup {Process(e, t) : e \in {"failed", "done"}, t \in tables}

Gpu(name, total, free) == [name |-> name, total |-> total, free |-> free]
Disk(id, size, driveType) == [id |-> id, size |-> size, free |-> 1, driveType |-> driveType]
Drive(id, interface, pnp, media) ==
  [id |-> id, model |-> id, interface |-> interface, pnp |-> pnp, media |-> media]
Ref(class, id) == [class |-> class, id |-> id]
Link(a, b) == [antecedent |-> a, dependent |-> b]

Quiet == Process("done", <<>>)
BareHost ==
  [smi |-> Process("missing", <<>>), controllers |-> Quiet, registry |-> Quiet, logical |-> Quiet,
   drives |-> Quiet, diskToPartition |-> Quiet, logicalToPartition |-> Quiet, battery |-> Quiet,
   processors |-> Quiet, homeRoot |-> "C", statfs |-> [blocks |-> 3, bavail |-> 2, bsize |-> 2],
   os |-> [label |-> "os", arch |-> "x64", cpus |-> <<"cpu", "cpu">>, totalmem |-> 64]]

GpuHosts ==
  {[BareHost EXCEPT !.smi = s, !.controllers = c, !.registry = r] :
     s \in Prints({<<>>, <<Gpu(2, 8, 4), Gpu(1, 8, 4), Gpu(2, 8, 4)>>, <<Gpu(2, Unknown, 4), Gpu(Unknown, 8, 4)>>,
                   <<Gpu(2, 8, Unknown), Gpu(1, 8, 3)>>}),
     c \in Prints({Broken, <<3, Unknown, 1>>}), r \in Prints({<<1, 2>>})}

Logical == Ref("LogicalDisk", "C")
DiskHosts ==
  {[BareHost EXCEPT !.logical = l, !.drives = Process("done", <<d, Drive("d2", "SCSI", Unknown, Unknown)>>),
                !.diskToPartition = p, !.logicalToPartition = q] :
     l \in Prints({Broken, <<Disk("C", 9, 3), Disk("E", 5, 2), Disk("F", Unknown, 3)>>, <<Disk("C", 4, 3), Unknown>>}),
     d \in {Unknown, Drive(Unknown, "USB", Unknown, Unknown), Drive("d1", "USB", "PCI", "FIXED"),
            Drive("d1", "UNKNOWN", Unknown, "EXTERNAL"), Drive("d1", Unknown, Unknown, "UNKNOWN")},
     p \in {Process("late", <<>>), Process("failed", <<Link(Ref("DiskDrive", "d1"), Ref("Partition", "p1"))>>)}
          \cup {Process("done", t) : t \in
                  {<<Link(Ref("DiskDrive", "d1"), Ref("Partition", "p1")), Link(Ref("Partition", "p2"), Ref("DiskDrive", "d2"))>>,
                   <<Unknown, Link(Unknown, Ref("Partition", "p1")), Link(Ref("Partition", "p1"), Ref("DiskDrive", "d1"))>>}},
     q \in Prints({Broken, <<Link(Ref("Partition", "p1"), Logical)>>, <<Link(Logical, Ref("Partition", "p2"))>>,
                   <<Link(Logical, Ref("DiskDrive", "d1"))>>})}

PartHosts ==
  {[BareHost EXCEPT !.battery = b, !.processors = p, !.homeRoot = h, !.os.cpus = c, !.os.totalmem = m] :
     b \in Prints({Broken, <<>>, <<1, 2>>, <<2>>, <<Unknown>>}), p \in Prints({Broken, <<4>>, <<0>>}),
     h \in {"C", Unknown}, c \in {<<>>, <<"cpu">>}, m \in {0, 64}}

HostInputsOf(hosts) == [kind : {"hardware"}, env : hosts]

(* The same host, whose tables come in the reverse order. *)
Reversed(env) ==
  LET Turned(p) == [p EXCEPT !.rows = IF p.rows = Broken THEN Broken ELSE Reverse(p.rows)]
  IN  [env EXCEPT !.smi = Turned(@), !.controllers = Turned(@), !.registry = Turned(@), !.logical = Turned(@),
                  !.drives = Turned(@), !.diskToPartition = Turned(@), !.logicalToPartition = Turned(@)]

-----------------------------------------------------------------------------
(* What LM Studio answers: the estimate of lms, on lines that have a figure
   after each label; a stream of events, cut anywhere or broken off; and the
   list of models before and after a load. *)

Says(label) == [label |-> label, n |-> 0, power |-> 0, binary |-> FALSE]
Size(n, power, binary) == [label |-> "size", n |-> n, power |-> power, binary |-> binary]
EstimateLines ==
  {<<Says("gpu memory"), Says("usage"), Size(6, 1, TRUE)>>, <<Says("total memory"), Size(8, 1, TRUE)>>,
   <<Says("vram"), Size(4, 1, FALSE), Says("system ram"), Size(1, 1, FALSE)>>,
   <<Says("system ram"), Size(2, 2, FALSE), Says("total memory"), Size(9, 1, TRUE)>>, <<Says("usage"), Size(7, 0, FALSE)>>}
ProfileOf(offload, context) == [model |-> "m", settings |-> "s", offload |-> offload, context |-> context]
EstimateInputs ==
  {[kind |-> "estimate", profile |-> ProfileOf(o, c),
    process |-> [end |-> e, code |-> x, out |-> [stdout |-> ls, stderr |-> rest]]] :
     o \in {"0.5", "max", "off", "auto", Unknown}, c \in {Unknown, 2}, e \in {"exited", "late", "missing"}, x \in {0, 1},
     ls \in {<<>>} \cup [1 .. 2 -> EstimateLines], rest \in {<<>>} \cup [1 .. 1 -> EstimateLines]}

Choice(content, reasoning, finish) == [content |-> content, reasoning |-> reasoning, finish |-> finish]
Event(choices, completion) == [choices |-> choices, usage |-> [completion |-> completion, prompt |-> Unknown]]
Events ==
  "think" :> Event(<<Choice(<<>>, <<"t">>, Unknown)>>, Unknown)
  @@ "text" :> Event(<<Choice(<<"x">>, <<>>, Unknown)>>, Unknown)
  @@ "stop" :> Event(<<Choice(<<>>, <<>>, "stop")>>, 7) @@ "usage" :> Event(<<>>, 9) @@ "bad" :> Broken
DataLine(payload, ending) == <<"data:", payload>> \o ending
Bodies ==
  {DataLine(a, <<"\n">>) \o DataLine(b, <<"\r", "\n">>) \o DataLine(c, <<>>) :
     a \in {"think", "text", "bad"}, b \in {"text", "stop", "[DONE]"}, c \in {"text", "stop", "usage", "[DONE]"}}
Cut(body, at) ==
  LET from == {0} \cup at
  IN  [i \in 1 .. Cardinality(from) |->
         LET start == CHOOSE f \in from : Cardinality({g \in from : g < f}) = i - 1
         IN  SubSeq(body, start + 1, Min({g \in from \cup {Len(body)} : g > start}))]
StreamInputs ==
  {[kind |-> "stream", body |-> body, at |-> at, read |-> r] :
     body \in Bodies, at \in {s \in SUBSET (1 .. 8) : Cardinality(s) <= 2}, r \in 0 .. 3}
Pieces(in) == LET all == Cut(in.body, in.at) IN L!streamBody(all, Min({in.read, Len(all)}))
Measured(pieces) ==
  L!measure([end |-> "answered", status |-> 200], pieces, Events, [i \in DOMAIN pieces |-> 10 * i], 10 * Len(pieces))

Listed(id, key, loaded, config, ids) ==
  [id |-> id, key |-> key, loaded |-> loaded, config |-> config, instances |-> [i \in DOMAIN ids |-> [id |-> ids[i]]]]
ModelRow ==
  {Unknown, Listed(Unknown, Unknown, TRUE, Unknown, <<"?">>), Listed(Unknown, "m", FALSE, Unknown, <<"m", "m:2">>),
   Listed(Unknown, "m", FALSE, Unknown, <<>>), Listed("n", "m", TRUE, Unknown, <<>>), Listed("n", Unknown, FALSE, "cfg", <<"n">>),
   Listed("m", Unknown, FALSE, Unknown, <<Unknown, "m:2">>)}
HostAnswers ==
  {[end |-> "refused", status |-> 0, body |-> Unknown], [end |-> "answered", status |-> 401, body |-> Unknown],
   [end |-> "answered", status |-> 500, body |-> Broken], [end |-> "answered", status |-> 200, body |-> Unknown]}
  \cup {[end |-> "answered", status |-> 200, body |-> rows] : rows \in UNION {[1 .. n -> ModelRow] : n \in 0 .. 2}}
ListInputs == [kind : {"list"}, before : HostAnswers, now : HostAnswers]

(* Chat requests, the generations of a profile and an alias, and an answer in
   two chunks. *)
Message == [role : {"system", "user"}, content : {"a", "b"}, wellFormed : {TRUE}]
Generation(prompt, texts) ==
  [values : [{"seed"} -> {Unknown, None, prompt}], systemPrompt : {Unknown, None} \cup texts]
ChatChunks == [delta : {<<>>, <<"x">>}, finishReason : {Unknown, "stop"}, usage : {Unknown, 7}]
ChatInputs ==
  {[kind |-> "chat", profile |-> p, alias |-> a, chunks |-> <<>>,
    request |-> [isRecord |-> TRUE, asksTools |-> t, model |-> "m", messages |-> ms, sampling |-> [f \in {"seed"} |-> s]]] :
     p \in Generation(1, {"p"}), a \in Generation(2, {"q"}), t \in BOOLEAN, s \in {Unknown, None, 3},
     ms \in UNION {[1 .. n -> Message] : n \in 0 .. 2} \cup {<<[role |-> "user", content |-> "a", wellFormed |-> FALSE]>>}}
  \cup {[kind |-> "answer", chunks |-> cs] : cs \in UNION {[1 .. n -> ChatChunks] : n \in 0 .. 2}}

(* Documents of every version, with and without what the schema asks for, and
   with fields it does not know; and patches of them. *)
WithoutNothing(doc) == [p \in {q \in DOMAIN doc : doc[q] # Unknown} |-> doc[p]]
Unknowns ==
  {[p \in {} |-> ""], <<"notes">> :> "/home/me", <<"notes", "maxTokens">> :> "9", <<"apiKey">> :> "s", <<"apiKey", "x">> :> "/home/me",
   <<"model", "apiKey">> :> "s" @@ <<"displayName", "fr">> :> "n", <<"generation", "maxTokens">> :> "misfit",
   <<"generation", "maxTokens">> :> "9" @@ <<"generation", "apiKey">> :> "s"}
Profiles ==
  {WithoutNothing(<<"schemaVersion">> :> v @@ <<"displayName", "en">> :> "n" @@ <<"model", "modelKey">> :> m @@ <<"task", "type">> :> t
          @@ <<"metadata", "updatedAt">> :> "then" @@ more) :
     v \in {Unknown, "0", "1", "2", "3", "text"}, m \in {Unknown, "m", " ", "misfit", "/home/me"}, t \in {Unknown, "chat"},
     more \in Unknowns}
DocumentInputs ==
  [kind : {"document"}, doc : Profiles \cup {Broken},
   patch : Unknowns \cup {<<"model", "modelKey">> :> "n", <<"model">> :> "n", <<"schemaVersion">> :> "1"}]

(* Forms: a stored profile is shown and at most one choice changed; or the
   fields a new one needs are filled in. *)
StoredDocuments ==
  {WithoutNothing(<<"schemaVersion">> :> v @@ <<"id">> :> "p1" @@ <<"displayName", "zh-CN">> :> "z" @@ <<"displayName", "en">> :> "n"
          @@ <<"description", "en">> :> d @@ <<"description", "fr">> :> "/home/me"
          @@ <<"model", "modelKey">> :> m @@ <<"model", "family">> :> f @@ <<"model", "apiKey">> :> "s"
          @@ <<"task", "type">> :> "chat" @@ <<"task", "kind">> :> k @@ <<"runtime", "contextLength">> :> c
          @@ <<"runtime", "gpuOffload">> :> o @@ <<"behavior", "mode">> :> "coexist"
          @@ <<"metadata", "updatedAt">> :> "then" @@ <<"notes">> :> "/home/me") :
     v \in {"1", "2"}, d \in {Unknown, "d", "/home/me"}, m \in {"m", "/home/me"}, f \in {Unknown, "null", "f"},
     k \in {Unknown, "coding"}, c \in {Unknown, "8"}, o \in {Unknown, "null", "max", "0.5"}}
Typed == {"", " ", " x", "y"}
Changes ==
  {<<>>} \cup {f :> t : f \in {"zhName", "enDesc", "modelKey", "family", "taskType"}, t \in Typed}
  \cup {"taskKind" :> t : t \in {"", "agent"}}
  \cup {f :> t : f \in {"contextLength", "temperature"}, t \in {"", "0", "0.4", "0.5", "8"}}
  \cup {"gpuOffload" :> "number" @@ "gpuOffloadNumeric" :> t : t \in {"", "0.5"}} \cup {"gpuOffload" :> "off"}
Filled ==
  {"id" :> i @@ "zhName" :> z @@ "enName" :> n @@ "modelKey" :> m :
     i \in {"", "p1", " p1"}, z \in {" ", "z"}, n \in {"", "n"}, m \in {"", "m"}}
FormInputs ==
  [kind : {"form"}, isEdit : {TRUE}, doc : StoredDocuments, change : Changes]
    \cup [kind : {"form"}, isEdit : {FALSE}, doc : {<<>>}, change : {c @@ f : c \in Changes, f \in Filled}]

(* A channel, with at most MaxCalls calls and one chunk each. *)
MaxCalls == 2
Channels == [kind : {"channel"}, transport : {"line", "http"}]
-----------------------------------------------------------------------------
Inputs ==
  \/ CallsDocuments \/ CallsHost \/ CallsHook
  \/ input \in RecommendInputs \cup SampleInputs \cup UsageInputs \cup ContextInputs \cup CommandInputs \cup StartInputs
                 \cup ChatInputs
                 \cup HostInputsOf(GpuHosts \cup DiskHosts \cup PartHosts)
                 \cup EstimateInputs \cup StreamInputs \cup ListInputs
                 \cup DocumentInputs \cup FormInputs

Init ==
  \/ input \in Channels /\ output = T!Serving(input.transport)
  \/ Inputs /\ output = None

Aggregate ==
  /\ input.kind = "samples"
  /\ output' = aggregateSamples(input.samples, input.peaks)

Calibrate ==
  /\ input.kind = "usage"
  /\ LET usage == buildResourceUsageEvidence(input.before, input.readings)
     IN  output' = [usage |-> usage,
                    verdict |-> calibrateEstimate(input.estimate, input.status, usage)]

Start ==
  /\ input.kind = "start"
  /\ output' = main(input.world, input.argv, input.env)

Probe ==
  /\ input.kind = "hardware"
  /\ output' = H!probeHardware(input.env)

AskHost ==
  \/ /\ input.kind = "estimate"
     /\ output' = L!estimate(input.profile, input.process)
  \/ /\ input.kind = "stream"
     /\ output' = Measured(Pieces(input)).value
  \/ /\ input.kind = "list"
     /\ output' = [target |-> L!UnloadTarget(input.now), active |-> L!getActiveState(input.now),
                   healthy |-> ~L!Failed(L!healthCheck(ProfileOf(Unknown, Unknown), input.now)),
                   restored |-> L!RestoreTargets(input.before, input.now)]

Chat ==
  \/ /\ input.kind = "chat"
     /\ output' = LET checked == B!parseChatCompletionsRequest(input.request)
                  IN  IF checked = "ok" THEN B!upstreamBody(input.profile, input.alias, input.request) ELSE checked
  \/ /\ input.kind = "answer"
     /\ output' = B!nonStreamBody(input.chunks)

(* Each export is imported again, and exported once more. *)
Store ==
  /\ input.kind = "document"
  /\ LET copy == D!exported(input.doc)
         again == D!parseImport(copy.doc, FALSE)
     IN  output' = [entry |-> D!entryKind(input.doc), read |-> D!parseStored(input.doc),
                    patched |-> D!patched(input.doc, input.patch), exported |-> copy,
                    strict |-> IF copy.code = "ok" THEN D!parseImport(copy.doc, TRUE) ELSE copy,
                    again |-> IF copy.code # "ok" THEN copy
                              ELSE IF again.code = "ok" THEN D!exported(again.doc) ELSE again]

Save ==
  /\ input.kind = "form"
  /\ LET draft == input.change @@ IF input.isEdit THEN E!draftOf(E!exported(input.doc).doc) ELSE E!emptyDraft
     IN  output' = [draft |-> draft, saved |-> E!onSubmit(input.doc, draft, input.isEdit)]

Compute ==
  /\ output = None /\ UNCHANGED input
  /\ Recommend \/ Aggregate \/ Calibrate \/ Project \/ Command \/ Call \/ Start \/ Probe \/ AskHost \/ Chat \/ Store \/ Save

(* A channel, one event after the other. *)
Receive ==
  /\ T!Receives
  /\ Len(output'.calls) <= MaxCalls

Work ==
  /\ T!Works
  /\ \A n \in DOMAIN output'.calls : output'.calls[n].count <= 1

Serve ==
  /\ input.kind = "channel" /\ UNCHANGED input
  /\ Receive \/ Work \/ T!Hangs

Next == Compute \/ Serve

Spec == Init /\ [][Next]_vars

-----------------------------------------------------------------------------
(* The decode rate lies between those of the samples that went on after their
   first token, and is null exactly when none did (metrics.ts:36-41). *)
SamplesMeasured ==
  Answered("samples") =>
    LET rates == {(1000 * s.tokens) \div (s.total - s.ttft) :
                    s \in {x \in ToSet(input.samples) :
                             x.ttft # Unknown /\ x.total > x.ttft /\ x.tokens > 0}}
    IN  IF rates = {} THEN output.decode = Unknown
        ELSE 2 * Min(rates) <= output.decode /\ output.decode <= 2 * Max(rates)

(* An overrun is told only when GPU and host together held that much at one
   moment, for peaks of different moments are not added
   (resource-usage.ts:62-67, calibration.ts:93-122). *)
UsageMeasured ==
  Answered("usage") =>
    /\ output.verdict.confidence = "low" =>
         \E i \in DOMAIN input.readings :
           /\ Unknown \notin {input.before.vram, input.readings[i].vram}
           /\ delta(input.readings[i].vram, input.before.vram)
                + delta(input.readings[i].ram, input.before.ram)
              > input.estimate.vram + input.estimate.ram
    /\ output.verdict.applied => input.status = "completed"

(* GPUs have the figures of one answer of nvidia-smi.  Every usable row of the
   logical disks is a volume, whatever else failed; it has the bus of the drive
   that the associations lead to, on whichever side they list it; a removable
   one is external, and none is called built in without a drive.  The state of
   the battery is that of an answer.  The order of the tables does not show in
   the fingerprint (parse.ts:230-240, gpu.ts:5-8, fingerprint.ts:20-24). *)
HardwareMeasured ==
  Answered("hardware") =>
    LET env == input.env
        Rows(process) == IF process.rows = Broken THEN {} ELSE ToSet(process.rows) \ {Unknown}
        Leads(volume, drive) ==
          \E n \in {"p1", "p2"}, l \in Rows(env.logicalToPartition), d \in Rows(env.diskToPartition) :
            /\ {l.antecedent, l.dependent} = {Ref("LogicalDisk", volume.mount), Ref("Partition", n)}
            /\ {d.antecedent, d.dependent} = {Ref("DiskDrive", drive.id), Ref("Partition", n)}
        drives == {d \in Rows(env.drives) : d.id # Unknown}
        usable == {r \in Rows(env.logical) : r.size # Unknown}
        volumes == IF output.volumes = Unknown THEN {} ELSE ToSet(output.volumes)
    IN  /\ output.gpus # Unknown =>
             \A g \in ToSet(output.gpus) : Unknown \notin {g.total, g.free} /\ g \in ToSet(env.smi.rows)
        /\ env.logical.end = "done" =>
             \A r \in usable : \E v \in volumes : v.mount = r.id /\ v.total = r.size /\ v.available = r.free
        /\ \A v \in volumes :
             /\ v.driveType # Unknown => env.logical.end = "done"
             /\ v.bus # Unknown => \E d \in drives : d.interface = v.bus /\ Leads(v, d)
             /\ v.driveType # Unknown /\ env.diskToPartition.end = "done" /\ env.logicalToPartition.end = "done" =>
                  \A d \in drives : Leads(v, d) => v.bus = d.interface
             /\ v.driveType = 2 => v.external = TRUE
             /\ v.external = FALSE => v.driveType = 3 /\ v.model # Unknown
        /\ output.power # Unknown => env.battery.end = "done" /\ env.battery.rows # Broken
        /\ output.fingerprint = H!probeHardware(Reversed(env)).fingerprint

(* An estimate is exact only if lms ended well, and each of its figures is one
   that was printed with that label and no other, so that the total is never
   taken for system memory; else it has no figures
   (cli-adapter.ts:302-341, estimate-port.ts:1-7). *)
EstimateAttributed ==
  Answered("estimate") =>
    LET lines == ToSet(input.process.out.stdout \o input.process.out.stderr)
        LabelAt(line, j) == LET before == SelectSeq(SubSeq(line, 1, j), LAMBDA w : w.label \notin {"size", "usage"})
                            IN  IF before = <<>> THEN "none" ELSE Last(before).label
        PrintedAs(labels) ==
          UNION {{L!sizeToBytes(l[j]) : j \in {i \in DOMAIN l : L!IsSize(l[i]) /\ LabelAt(l, i) \in labels}} : l \in lines}
    IN  IF output.provider = "exact"
        THEN /\ input.process.end = "exited" /\ input.process.code = 0
             /\ output.vram \in PrintedAs({"vram", "gpu memory"}) \cup {Unknown}
             /\ output.total \in PrintedAs({"total memory"}) \cup {Unknown}
             /\ output.ram \in PrintedAs({"system ram"}) \cup {Unknown}
             /\ {output.vram, output.total, output.ram} # {Unknown}
        ELSE {output.vram, output.total, output.ram} = {Unknown}

(* A sample is the same however the transport cuts the stream; its first token
   is not timed after its end; and a stream that breaks off yields a part of
   what the whole one would have (chat.ts:90-119, node-env.ts:173-178). *)
StreamMeasured ==
  Answered("stream") =>
    LET read == FlattenSeq(Pieces(input))
        once == Measured(<<read>>).value
        Chunks(body) == LET cs == L!parseSseChatStream(<<body>>, Events) IN [i \in DOMAIN cs |-> cs[i].chunk]
    IN  /\ output.tokens = once.tokens /\ output.finish = once.finish
        /\ output.ttft = Unknown <=> once.ttft = Unknown
        /\ output.ttft # Unknown => output.ttft <= output.total
        /\ IsPrefix(Chunks(read), Chunks(input.body))

(* What is unloaded is loaded: an instance the host lists for its first loaded
   model, or that model where no instance is known.  A model found healthy is
   loaded, and a benchmark's restore unloads no instance that the list of before
   its load had (v1.ts:123-130, 230-236; rest-v1-adapter.ts:101-104). *)
ListAttributed ==
  Answered("list") =>
    LET rows == IF L!Failed(L!restListModels(input.now)) THEN {} ELSE ToSet(L!Or(input.now.body, <<>>)) \ {Unknown}
        InstanceIds(row) == {row.instances[i].id : i \in DOMAIN row.instances} \ {Unknown}
        Key(row) == IF row.id = Unknown THEN row.key ELSE row.id
        IsLoaded(row) == row.loaded \/ row.config # Unknown \/ row.instances # <<>>
    IN  /\ output.target.value # Unknown =>
             \E r \in rows : IsLoaded(r) /\ output.target.value \in IF InstanceIds(r) = {} THEN {Key(r)} ELSE InstanceIds(r)
        /\ output.healthy => \E r \in rows : IsLoaded(r) /\ Key(r) = "m"
        /\ output.active.value # Unknown <=> output.target.value # Unknown
        /\ \A i \in output.restored :
             /\ \E r \in rows : i \in InstanceIds(r)
             /\ input.before.status = 200 /\ input.before.body # Unknown =>
                  \A r \in ToSet(input.before.body) \ {Unknown} : Key(r) # Unknown => i \notin InstanceIds(r)

(* No figure is invented: not of the samples or the memory in use, nor of the
   host, nor of what LM Studio answers. *)
FiguresAreMeasured ==
  /\ SamplesMeasured /\ UsageMeasured /\ HardwareMeasured
  /\ EstimateAttributed /\ StreamMeasured /\ ListAttributed

(* What the commands say of the two documents is what the proxy and the hook
   then do.  After "aliases add" the name is served by that profile, unless
   the document is off; after "remove" by none; other names are served as
   before.  In a document found valid, every listed name has a profile that
   can be read, and every rule is the one its app and task resolve to. *)
CommandsAsSaid ==
  Answered("command") /\ output.exit = 0 =>
    LET before == input.world.aliases
        after == output.world.aliases
        Serving(doc, n) == IF doc \in {Unknown, NonConforming} THEN Unknown ELSE matchVirtualAlias(doc, n)
        rules == input.world.rules
    IN  /\ \A n \in {"m", "n"}, p \in {"p1", "p2"} :
             IsPrefix(Add(n, p), input.argv) =>
               /\ after.enabled => Serving(after, n).profileId = p
               /\ \A k \in {"m", "n"} \ {n} : Serving(after, k) = Serving(before, k)
        /\ \A t \in {"m", "x"} :
             input.argv = Drop(t) =>
               /\ Serving(after, t) = Unknown
               /\ \A k \in {"m", "n"} \ {t} :
                    Serving(after, k) # Serving(before, k) => Serving(before, k).id = t
        /\ input.argv = Words(<<"proxy", "aliases", "validate">>) /\ output.said = "valid" =>
             \A n \in listedModels(before) : Serving(before, n).profileId \in DOMAIN input.world.profiles
        /\ input.argv = Words(<<"hook", "rules", "validate">>) /\ output.said = "valid" =>
             \A r \in ToSet(rules.rules) : matchHookRule(rules, r).ruleId = r.id

(* The hook switches to the profile of a rule that is on for that app, the one
   of the task before a general one; and every refusal by the rules is in its
   log, while the host was not asked (handlers.ts:1083-1091). *)
HookAsRuled ==
  Answered("call") /\ input.method = "hook.switch" =>
    LET rules == input.world.rules
        asked == input.params
        Fits(r) == r.enabled /\ r.app = Trimmed(asked.app) /\ r.taskKind \in {asked.taskKind, NoTask}
        logged == output.world.audits
    IN  /\ output.world.host # input.world.host =>
             /\ logged # <<>>
             /\ rules.enabled
             /\ \E r \in ToSet(rules.rules) :
                  /\ Fits(r) /\ r.id = logged[1].target.ruleId
                  /\ output.world.host.active = input.world.profiles[r.profileId].model
                  /\ r.taskKind = NoTask => \A s \in ToSet(rules.rules) : Fits(s) => s.taskKind = NoTask
        /\ output.code \in {"HOOK_UNCONFIGURED", "HOOK_DISABLED", "HOOK_DENIED"} =>
             /\ Len(logged) = 1 /\ logged[1].target = Unknown
             /\ output.code = handle("hook.switch", asked, [input.world EXCEPT !.host.fails = "parse"]).code

(* The tray and the window do as the command line does: the same code for an
   activation or a delete, and the same profiles, defaults aside, and host
   (handlers.ts:843-848, 902-905, 926-931; exit-codes.ts). *)
SidecarAgrees ==
  Answered("call") /\ input.world.wired = World.wired /\ input.world.locale = World.locale =>
    LET line == CASE input.method = "activation.apply" -> <<"apply", input.params.id>>
                  [] input.method = "profiles.delete" -> <<"profile", "delete", input.params.id>>
                  [] input.method = "optimize.save" -> <<"optimize", input.params.profileId>>
                  [] OTHER -> <<>>
        command == runCli(Line(line, <<Flag("yes")>>), input.world)
    IN  line # <<>> /\ Unknown \notin ToSet(line) =>
          /\ output.world.profiles = command.world.profiles
          /\ output.world.host = command.world.host
          /\ input.method # "optimize.save" => output.exit = command.exit

(* A server has the token it was given, the shell's before the environment's, or
   else the stored one; the address in the file is that of the last server for
   hooks that listened; and a stored token is never replaced (index.ts:50-58,
   settings.ts:83-105). *)
StartsAsSaid ==
  Answered("start") =>
    LET given == {input.argv.token, input.env.token} \ {Unknown}
        token == output.world.token
    IN  /\ input.world.token # Unknown => token = input.world.token
        /\ output.world.address # input.world.address =>
              output.code = "ok" /\ output.said.kind = "http" /\ input.env.port \notin input.world.taken
        /\ output.code = "ok" =>
              /\ output.said.token # Unknown
              /\ output.said.token \in IF given = {} THEN {token} ELSE given
              /\ input.argv.token # Unknown => output.said.token = input.argv.token
              /\ given = {} => output.said.kind = "http" /\ output.world.address # Unknown

(* What the client says of a request holds against alias and profile, and the
   alias against the profile: at most one system message is added, it has the
   alias's prompt, and no other message is touched (proxy.ts:405-419). *)
ChatAsAsked ==
  /\ Answered("chat") =>
       LET asked == input.request
           Said(messages, systems) == SelectSeq(messages, LAMBDA m : (m.role = "system") = systems)
           prompts == SelectSeq(<<input.alias.systemPrompt, input.profile.systemPrompt>>,
                                LAMBDA t : t \notin {None, Unknown})
           before == Said(asked.messages, TRUE)
       IN  IF asked.asksTools \/ asked.messages = <<>> \/ \E m \in ToSet(asked.messages) : ~m.wellFormed
           THEN output = IF asked.asksTools THEN "UNSUPPORTED_CAPABILITY" ELSE "INVALID_REQUEST"
           ELSE LET after == Said(output.messages, TRUE)
                IN  /\ Said(output.messages, FALSE) = Said(asked.messages, FALSE)
                    /\ output.params.seed = LET given == SelectSeq(<<asked.sampling.seed, input.alias.values.seed,
                                                                   input.profile.values.seed>>, LAMBDA v : v # Unknown)
                                            IN  IF given = <<>> \/ given[1] = None THEN Unknown ELSE given[1]
                    /\ IF prompts = <<>> THEN after = before
                       ELSE /\ Len(after) = Max({1, Len(before)}) /\ Last(after).content = prompts[1]
                            /\ Front(after) = IF before = <<>> THEN <<>> ELSE Front(before)
  /\ Answered("answer") =>
       output.content = FlattenSeq([i \in DOMAIN input.chunks |-> input.chunks[i].delta])

(* A document is read whatever its unknown fields are.  It keeps through
   reading, patching and export all that the patch or the export's rules do not
   name, unknown fields included; what a patch leaves can be read.  An export
   holds no home path and nothing under a secret's name, and is exported as it
   was when it is imported again.  A strict import refuses an unknown topmost
   field, and refuses no document without unknown fields.  What cannot be read
   is listed as something else (sanitize.ts:12-14, serialize.ts:4-8).
   Two cases are left out, where the code does less than is said of it: other
   languages of the name are lost, of which version.ts:6-8 says that no field
   is; and of unknown fields below the topmost, which serialize.ts:4-8 has a
   strict import refuse, nothing is asked. *)
DocumentsKept ==
  Answered("document") =>
    LET doc == input.doc
        Same(a, b, paths) == \A p \in paths : D!At(a, p) = D!At(b, p)
        other == {p \in IF doc = Broken THEN {} ELSE DOMAIN doc : p # D!Version /\ p # <<"displayName", "fr">>}
        meets == {p \in other : \E q \in DOMAIN input.patch : IsPrefix(p, q) \/ IsPrefix(q, p)}
        copy == output.exported.doc
    IN  /\ (output.entry = "profile") = (output.read.code = "ok")
        /\ (output.read.code = "ok") =
             /\ doc # Broken /\ D!At(doc, D!Version) \in {"1", "2"}
             /\ D!At(doc, <<"model", "modelKey">>) \notin {Unknown, "misfit"} /\ D!At(doc, <<"task", "type">>) # Unknown
             /\ D!At(doc, <<"generation", "maxTokens">>) # "misfit"
        /\ output.read.code = "ok" =>
             /\ Same(output.read.doc, doc, other)
             /\ \A p \in DOMAIN copy : copy[p] # "/home/me" /\ (p # <<"apiKey">> /\ Last(p) = "apiKey" => copy[p] = "null")
             /\ <<"apiKey", "x">> \notin DOMAIN copy /\ D!At(copy, <<"apiKey">>) \in {Unknown, "null"}
             /\ \A p \in D!Contract : D!At(copy, p) \in {D!At(doc, p)} \cup {"<private>"}
             /\ output.strict.code = "ok" => \A p \in DOMAIN doc : p[1] \notin {"notes", "apiKey"}
             /\ (\A p \in DOMAIN doc : p \in D!Contract \cup {D!Version}) => output.strict.code = "ok"
             /\ output.again = output.exported
        /\ output.patched.code = "ok" =>
             /\ output.read.code = "ok"
             /\ Same(output.patched.doc, doc, other \ (meets \cup {D!UpdatedAt}))
             /\ Same(output.patched.doc, input.patch, DOMAIN input.patch \ {<<"displayName", "fr">>})
             /\ D!entryKind(output.patched.doc) = "profile"

(* A form that is saved writes what was typed, without the blanks around it, and
   leaves what its field was emptied of.  Of the rest of the profile it changes
   three things: texts the export hid are overwritten by what they were hidden
   behind, a numeric or missing offload becomes "auto", and a missing kind the
   first of the list.  A new profile is shown again as it was filled in
   (EditorView.tsx:1-7, 99-184; sanitize.ts:11-13). *)
FormsAsTyped ==
  Answered("form") /\ output.saved.code = "ok" =>
    LET doc == input.doc
        after == output.saved.doc
        Value(p) == E!At(doc, p)
        Typing(p) == {f \in DOMAIN input.change \cap DOMAIN E!TextFields : E!TextFields[f] = p}
        Empties(f) == E!trim(input.change[f]) = "" /\ f \notin {"zhName", "modelKey"}
        Reads(f) ==
          CASE f = "contextLength" /\ input.change[f] = "0.5" -> "1"
            [] f \in {"enDesc", "family", "taskType"} -> E!trim(input.change[f])
            [] OTHER -> input.change[f]
        offload == E!Offload
        described == E!trim(output.draft["enDesc"]) # ""
        shown == E!Contract \cup IF described THEN {<<"description", "fr">>} ELSE {}
        Leaves(p) ==
          CASE p \in shown /\ Value(p) = "/home/me" -> "<private>"
            [] p = offload /\ Value(p) # "max" -> "auto"
            [] p = <<"task", "kind">> /\ Value(p) = Unknown -> "quick-chat"
            [] OTHER -> Value(p)
        Offloaded ==
          CASE input.change["gpuOffload"] = "off" -> "off"
            [] OTHER -> IF input.change["gpuOffloadNumeric"] = "" THEN Value(offload) ELSE "0.5"
    IN  IF input.isEdit
        THEN /\ \A p \in (DOMAIN doc \cup DOMAIN after \cup E!Contract) \ {E!UpdatedAt, E!Version} :
                  E!At(after, p) =
                    CASE Typing(p) # {} ->
                           (LET f == CHOOSE f \in Typing(p) : TRUE
                            IN  IF Empties(f) THEN Value(p) ELSE Reads(f))
                      [] p = offload /\ "gpuOffload" \in DOMAIN input.change -> Offloaded
                      [] OTHER -> Leaves(p)
             /\ after[E!UpdatedAt] = "now"
        ELSE \A f \in DOMAIN E!emptyDraft \ {"contextLength", "gpuOffload", "gpuOffloadNumeric"} :
               LET draft == E!draftOf(after)
               IN  draft[f] \in {output.draft[f], E!trim(output.draft[f])} \cup
                     IF f = "taskKind" /\ output.draft[f] = "" THEN {"quick-chat"} ELSE {}

(* What the command line, the hook, the sidecar and a request say is what is
   done: the same document has the same effect whoever reads it. *)
DoneAsSaid == CommandsAsSaid /\ HookAsRuled /\ SidecarAgrees /\ StartsAsSaid /\ ChatAsAsked

(* What a profile holds is not lost on its way through a file, a patch, an
   export or the form of the window. *)
ContentKept == DocumentsKept /\ FormsAsTyped

(* Whatever ids the peers of a channel choose, and whenever handlers return, a
   cancel reaches the latest open call of its id and no other one, and the end
   of the channel reaches all that a cancel would.  A stream that a line has
   begun is left out: nothing reaches it, although protocol.ts:37-39 has a
   cancel abort it. *)
CancelReachesCall == Answered("channel") => T!CancelsReach
=============================================================================
