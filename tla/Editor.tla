-------------------------------- MODULE Editor --------------------------------
(***************************************************************************)
(* The form of a profile in the window (frontend EditorView.tsx).  It is   *)
(* filled from what profiles.show exports, and sends a whole document, or  *)
(* a patch of every field it shows.  Window has when it is open; Documents *)
(* has what is exported and what a patch does.  A draft is a function from *)
(* the names of the fields to texts, "" for an empty one.                  *)
(***************************************************************************)
EXTENDS Documents, TLC

CONSTANTS
  Ids,       \* the ids that are well formed
  Trim,      \* texts with blanks around them, to those without
  Rounded,   \* texts that are numbers, to the nearest whole ones
  Positive   \* the whole ones of at least 1

TextFields ==
  "zhName" :> <<"displayName", "zh-CN">> @@ "enName" :> <<"displayName", "en">>
  @@ "enDesc" :> <<"description", "en">> @@ "modelKey" :> <<"model", "modelKey">>
  @@ "family" :> <<"model", "family">> @@ "quantization" :> <<"model", "quantization">>
  @@ "taskType" :> <<"task", "type">> @@ "taskKind" :> <<"task", "kind">>
  @@ "contextLength" :> <<"runtime", "contextLength">>
  @@ "temperature" :> <<"generation", "temperature">> @@ "mode" :> <<"behavior", "mode">>
Offload == <<"runtime", "gpuOffload">>

emptyDraft ==
  [f \in DOMAIN TextFields \cup {"id", "gpuOffload", "gpuOffloadNumeric"} |->
     CASE f \in {"taskType", "taskKind"} -> "quick-chat"
       [] f = "mode" -> "exclusive"
       [] f = "gpuOffload" -> "auto"
       [] OTHER -> ""]

(* A numeric offload fills the field behind the choice "number", and leaves the
   choice at "auto". *)
draftOf(doc) ==
  LET Or(path, text) == IF At(doc, path) \in {Nothing, Null} THEN text ELSE doc[path]
      numeric == At(doc, Offload) \in DOMAIN Rounded
  IN  [f \in DOMAIN emptyDraft |->
         CASE f = "id" -> Or(<<"id">>, "")
           [] f = "gpuOffload" -> IF numeric THEN "auto" ELSE Or(Offload, "auto")
           [] f = "gpuOffloadNumeric" -> IF numeric THEN doc[Offload] ELSE ""
           [] OTHER -> Or(TextFields[f], emptyDraft[f])]

trim(text) == IF text \in DOMAIN Trim THEN Trim[text] ELSE text
toInt(raw) == IF raw \in DOMAIN Rounded THEN Rounded[raw] ELSE Nothing
toFloat(raw) == IF raw \in DOMAIN Rounded THEN raw ELSE Nothing

gpuOffloadValue(draft) ==
  IF draft["gpuOffload"] = "number" THEN toFloat(draft["gpuOffloadNumeric"]) ELSE draft["gpuOffload"]

(* What a field adds to the document; an optional one that is empty adds none. *)
value(draft, f) ==
  CASE f = "contextLength" -> IF toInt(draft[f]) \in Positive THEN toInt(draft[f]) ELSE Nothing
    [] f = "temperature" -> toFloat(draft[f])
    [] f \in {"family", "quantization", "enDesc"} -> IF trim(draft[f]) = "" THEN Nothing ELSE trim(draft[f])
    [] f = "taskKind" -> IF draft[f] = "" THEN Nothing ELSE draft[f]
    [] f = "taskType" -> trim(draft[f])
    [] OTHER -> draft[f]

(* Beside the fields, the source's metadata and, when there is a description in
   English, its other languages go along. *)
buildDocument(draft, source) ==
  LET given == {f \in DOMAIN TextFields : value(draft, f) # Nothing}
      fields == [p \in {TextFields[f] : f \in given} |-> value(draft, CHOOSE f \in given : TextFields[f] = p)]
      offload == gpuOffloadValue(draft)
      along == {"metadata"} \cup IF "enDesc" \in given THEN {"description"} ELSE {}
  IN  fields
      @@ (IF offload = Nothing THEN <<>> ELSE Offload :> offload)
      @@ (<<"id">> :> trim(draft["id"])) @@ (Version :> Current)
      @@ Without(source, {p \in DOMAIN source : p[1] \notin along})
      @@ [p \in {UpdatedAt, <<"metadata", "createdAt">>} |-> Stamp]

buildPatch(draft, source) ==
  LET doc == buildDocument(draft, source)
  IN  Without(doc, {p \in DOMAIN doc : p[1] \in {"id", "schemaVersion", "metadata"}})

validate(draft, isEdit) ==
  /\ isEdit \/ trim(draft["id"]) \in Ids
  /\ trim(draft["zhName"]) # "" /\ trim(draft["enName"]) # "" /\ trim(draft["modelKey"]) # ""
  /\ toInt(draft["contextLength"]) \in {Nothing} \cup Positive

(* A form that was filled from a stored profile, or a new one, is saved. *)
onSubmit(stored, draft, isEdit) ==
  CASE ~validate(draft, isEdit) -> Fails("refused")
    [] OTHER -> IF isEdit THEN patched(stored, buildPatch(draft, exported(stored).doc))
                ELSE safeParse(buildDocument(draft, <<>>), FALSE)
=============================================================================
