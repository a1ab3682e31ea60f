------------------------------- MODULE LmHost -------------------------------
(***************************************************************************)
(* What the adapters make of LM Studio's answers                           *)
(* (packages/lmstudio-adapter): the REST responses (rest/v1.ts,            *)
(* rest-v1-adapter.ts), the chat stream and the sample measured from it    *)
(* (rest/chat.ts), and the lms command, of which the estimate is read      *)
(* (cli/cli-adapter.ts, estimate/).                                        *)
(*                                                                         *)
(* JSON that does not parse is Garbage; a field that is absent or of the   *)
(* wrong type is Nothing.  An operation ends in a record with its value,   *)
(* or with the kind of the error it throws.  A ratio of the GPU offload is *)
(* the text it is printed as.                                              *)
(***************************************************************************)
EXTENDS Integers, Sequences, SequencesExt

CONSTANTS
  Nothing,   \* null
  Garbage,   \* text that is no JSON
  Ratios     \* the numeric offloads

Value(v) == [value |-> v, error |-> "none"]
Fails(kind) == [value |-> Nothing, error |-> kind]
Failed(result) == result.error # "none"
Then(result, Op(_)) == IF Failed(result) THEN result ELSE Value(Op(result.value))

Or(x, y) == IF x = Nothing THEN y ELSE x
Present(seq) == SelectSeq(seq, LAMBDA x : x # Nothing)
Mapped(Op(_), seq) == [i \in DOMAIN seq |-> Op(seq[i])]
FirstWhere(seq, Test(_)) ==
  LET found == SelectSeq(seq, Test) IN IF found = <<>> THEN Nothing ELSE Head(found)

-----------------------------------------------------------------------------
(* errors.ts, node-env.ts: a response, and how a request fails. *)

classifyHttpFailure(status) ==
  CASE status \in {401, 403} -> "auth"
    [] status = 404 -> "unsupported"
    [] status \in {408, 429} -> "timeout"
    [] status >= 500 -> "internal"
    [] OTHER -> "parse"

IsOk(status) == status \in 200 .. 299

http(answer) ==
  CASE answer.end = "refused" -> Fails("thrown")
    [] answer.end = "late" -> Fails("timeout")
    [] answer.end = "answered" -> Value(answer)

(* Whatever http throws is unreachable, and the body is parsed before the
   status is looked at. *)
restRequestJson(answer) ==
  IF Failed(http(answer)) THEN Fails("unreachable")
  ELSE IF answer.body = Garbage THEN Fails("parse")
  ELSE IF IsOk(answer.status) THEN Value(answer.body)
  ELSE Fails(classifyHttpFailure(answer.status))

(* How a run of lms ends: late is killed, and a command that is not there
   cannot be spawned. *)
runLms(process) ==
  CASE process.end = "late" -> [exit |-> 124, out |-> process.out]
    [] process.end = "missing" -> [exit |-> 127, out |-> process.out]
    [] process.end = "exited" -> [exit |-> process.code, out |-> process.out]

(* What a command printed, if it ended with one of the codes. *)
Printed(process, codes) ==
  LET result == runLms(process)
  IN  IF result.exit = 124 THEN Fails("timeout")
      ELSE IF result.exit \notin codes THEN Fails("process")
      ELSE Value(result.out)

-----------------------------------------------------------------------------
(* v1.ts: the models the host lists, and the load it is asked for. *)

parseListResponse(body) ==
  LET Read(row) ==
        LET id == IF row = Nothing THEN Nothing ELSE Or(row.id, row.key)
            ids == Present(Mapped(LAMBDA i : i.id, Present(row.instances)))
        IN  IF id = Nothing THEN Nothing
            ELSE [id |-> id, config |-> row.config, ids |-> ids,
                  loaded |-> row.loaded \/ row.config # Nothing \/ Present(row.instances) # <<>>]
  IN  IF body = Nothing THEN <<>> ELSE Present(Mapped(Read, body))

restListModels(answer) == Then(restRequestJson(answer), parseListResponse)
FirstLoaded(models) == FirstWhere(models, LAMBDA r : r.loaded)

(* An offload other than a ratio is left out of the body. *)
buildRestLoadBody(profile) ==
  [model |-> profile.model, settings |-> profile.settings, context |-> profile.context,
   gpu_offload |-> IF profile.offload \in Ratios THEN profile.offload ELSE Nothing]
parseLoadResponse(body) == IF body = Nothing THEN Nothing ELSE body.config

(* rest-v1-adapter.ts *)
getActiveState(answer) ==
  Then(restListModels(answer),
       LAMBDA models : LET r == FirstLoaded(models) IN IF r = Nothing THEN Nothing ELSE r.id)

(* The instance that unload names to the host; Nothing, and no request. *)
UnloadTarget(answer) ==
  Then(restListModels(answer),
       LAMBDA models : LET r == FirstLoaded(models)
                       IN  IF r = Nothing THEN Nothing ELSE IF r.ids = <<>> THEN r.id ELSE Head(r.ids))

load(profile, answer) ==
  Then(restRequestJson(answer), LAMBDA body : Or(parseLoadResponse(body), profile.model))

healthCheck(profile, answer) ==
  LET listed == restListModels(answer)
  IN  IF Failed(listed) THEN listed
      ELSE IF \E r \in ToSet(listed.value) : r.id = profile.model /\ r.loaded THEN Value(Nothing)
      ELSE Fails("health")

readEffectiveConfig(profile, answer) ==
  Then(restListModels(answer),
       LAMBDA models : LET r == FirstWhere(models, LAMBDA x : x.id = profile.model)
                       IN  IF r = Nothing THEN Nothing ELSE r.config)

(* The instances a benchmark's restore unloads: those its snapshot of before
   the load did not have; a list that failed is an empty snapshot. *)
InstanceIds(answer) ==
  LET listed == restListModels(answer)
  IN  IF Failed(listed) THEN {} ELSE UNION {ToSet(r.ids) : r \in ToSet(listed.value)}
RestoreTargets(before, now) == InstanceIds(now) \ InstanceIds(before)

-----------------------------------------------------------------------------
(* chat.ts: a stream of pieces, cut anywhere, into chunks.  A body is a
   sequence of words: "data:", an event's payload, "\r" and "\n". *)

parseUsage(usage) ==
  IF usage = Nothing \/ (usage.completion = Nothing /\ usage.prompt = Nothing) THEN Nothing ELSE usage

(* A payload is an event with at most one choice, which is all that is read. *)
parseChatData(event) ==
  IF event = Garbage \/ event.choices = <<>> THEN Nothing
  ELSE LET choice == Head(event.choices)
           chunk == [content |-> choice.reasoning \o choice.content, finish |-> choice.finish,
                     usage |-> parseUsage(event.usage)]
       IN  IF chunk = [content |-> <<>>, finish |-> Nothing, usage |-> Nothing] THEN Nothing ELSE chunk

(* Events[payload] is the JSON of a payload. *)
parseSseChatStream(pieces, Events) ==
  LET Bare(line) == IF line # <<>> /\ Last(line) = "\r" THEN Front(line) ELSE line
      Take(state, raw) ==
        LET line == Bare(raw)
            chunk == IF Len(line) = 2 THEN parseChatData(Events[line[2]]) ELSE Nothing
        IN  IF state.done \/ line = <<>> \/ line[1] # "data:" THEN state
            ELSE IF Tail(line) = <<"[DONE]">> THEN [state EXCEPT !.done = TRUE]
            ELSE IF chunk = Nothing THEN state
            ELSE [state EXCEPT !.chunks = Append(@, [chunk |-> chunk, piece |-> state.piece])]
      Add(state, word) ==
        IF word = "\n" THEN [Take(state, state.buffer) EXCEPT !.buffer = <<>>]
        ELSE [state EXCEPT !.buffer = Append(@, word)]
      Piece(state, piece) == FoldLeft(Add, [state EXCEPT !.piece = @ + 1], piece)
      ended == FoldLeft(Piece, [buffer |-> <<>>, chunks |-> <<>>, done |-> FALSE, piece |-> 0], pieces)
  IN  Take(ended, ended.buffer).chunks

(* The timeout ends with the headers; a transport that breaks ends the stream
   without a word, after the pieces that were read. *)
streamBody(pieces, read) == SubSeq(pieces, 1, read)
restOpenAiChatStream(answer, pieces, Events) ==
  IF Failed(http(answer)) THEN Fails("unreachable")
  ELSE IF ~IsOk(answer.status) THEN Fails(classifyHttpFailure(answer.status))
  ELSE Value(parseSseChatStream(pieces, Events))

(* rest-v1-adapter.ts: Arrival[i] is when the i-th piece is read, end when the
   stream is over. *)
measure(answer, pieces, Events, Arrival, end) ==
  LET Sample(chunks) ==
        LET contents == SelectSeq(chunks, LAMBDA c : c.chunk.content # <<>>)
            finishes == SelectSeq(chunks, LAMBDA c : c.chunk.finish # Nothing)
            counted == SelectSeq(chunks, LAMBDA c : c.chunk.usage # Nothing /\ c.chunk.usage.completion # Nothing)
        IN  [ttft |-> IF contents = <<>> THEN Nothing ELSE Arrival[Head(contents).piece],
             tokens |-> IF counted = <<>> THEN Len(contents) ELSE Last(counted).chunk.usage.completion,
             finish |-> IF finishes = <<>> THEN Nothing ELSE Last(finishes).chunk.finish,
             total |-> end]
  IN  Then(restOpenAiChatStream(answer, pieces, Events), Sample)

-----------------------------------------------------------------------------
(* cli-adapter.ts: what lms prints. *)

(* What the words of the status say, on or off; Nothing is a blank text.  One
   that says neither is taken as off. *)
parseLmsStatus(says) ==
  IF says = Nothing \/ {"on", "off"} \subseteq says THEN Nothing ELSE [running |-> "on" \in says]
status(process) ==
  LET printed == Printed(process, {0, 1})
      parsed == parseLmsStatus(printed.value)
  IN  IF Failed(printed) THEN printed ELSE IF parsed = Nothing THEN Fails("parse") ELSE Value(parsed)

readLsEntry(row) ==
  LET key == Or(row.modelKey, Or(row.id, row.path))
  IN  IF key = Nothing THEN Nothing
      ELSE [key |-> key, quantization |-> row.quantization, params |-> row.params]
parseLmsLsEntries(rows) ==
  IF rows = Garbage THEN <<>> ELSE Present(Mapped(readLsEntry, Present(rows)))

(* Identity[key] is what a key's name suggests (model-names.ts). *)
listModels(process, Identity) ==
  LET Known(entry) ==
        [key |-> entry.key, quantization |-> Or(entry.quantization, Identity[entry.key].quantization),
         params |-> Or(entry.params, Identity[entry.key].params)]
  IN  Then(Printed(process, {0}), LAMBDA rows : Mapped(Known, parseLmsLsEntries(rows)))

gpuOffloadToCliValue(offload) ==
  CASE offload \in Ratios -> offload
    [] offload = "max" -> "1"
    [] offload = "off" -> "0"
    [] offload \in {"auto", Nothing} -> Nothing
loadArgs(profile) ==
  [model |-> profile.model, gpu |-> gpuOffloadToCliValue(profile.offload),
   context |-> IF profile.context # Nothing /\ profile.context > 0 THEN profile.context ELSE Nothing]

(* A line is a sequence of labels, sizes and other words. *)
sizeToBytes(word) == word.n * (IF word.binary THEN 1024 ELSE 1000) ^ word.power
IsSize(word) == word.label = "size"
VRAM_LABELS == {"vram", "gpu memory"}
TOTAL_LABELS == {"total memory"}
RAM_LABELS == {"system ram"}

(* The first size after the first of the labels on the line. *)
figureAfterLabel(line, labels) ==
  LET at == SelectInSeq(line, LAMBDA w : w.label \in labels)
      size == FirstWhere(SubSeq(line, at + 1, Len(line)), IsSize)
  IN  IF at = 0 \/ size = Nothing THEN Nothing ELSE sizeToBytes(size)
hasRamLabel(line) ==
  LET labels == {w.label : w \in ToSet(line)}
  IN  labels \cap {"gpu memory", "total memory"} = {} /\ labels \cap RAM_LABELS # {}

(* The first line that has a figure for the labels. *)
parseLmsEstimateValues(lines) ==
  LET First(labels, Counts(_)) ==
        LET figures == Present(Mapped(LAMBDA l : IF Counts(l) THEN figureAfterLabel(l, labels) ELSE Nothing, lines))
        IN  IF figures = <<>> THEN Nothing ELSE Head(figures)
      values == [vram |-> First(VRAM_LABELS, LAMBDA l : TRUE), total |-> First(TOTAL_LABELS, LAMBDA l : TRUE),
                 ram |-> First(RAM_LABELS, hasRamLabel)]
  IN  IF {values.vram, values.total, values.ram} = {Nothing} THEN Nothing ELSE values

NoFigures == [vram |-> Nothing, total |-> Nothing, ram |-> Nothing]
Estimate(provider, profile, offload, values) ==
  [provider |-> provider, model |-> profile.model, context |-> profile.context, offload |-> offload,
   vram |-> values.vram, total |-> values.total, ram |-> values.ram]

(* Both streams are read: the output of the process is stdout, then stderr. *)
cliEstimate(profile, process) ==
  LET printed == Printed(process, {0})
      values == parseLmsEstimateValues(printed.value.stdout \o printed.value.stderr)
  IN  IF Failed(printed) THEN printed
      ELSE IF values = Nothing THEN Fails("parse")
      ELSE Value(Estimate("exact", profile, gpuOffloadToCliValue(profile.offload), values))

roughEstimateFor(profile) ==
  Estimate("rough", profile, IF profile.offload \in Ratios THEN profile.offload ELSE Nothing, NoFigures)

(* estimate-port.ts: whatever kept the engine from answering, a rough estimate. *)
estimate(profile, process) ==
  LET exact == cliEstimate(profile, process)
  IN  IF Failed(exact) THEN roughEstimateFor(profile) ELSE exact.value
=============================================================================
