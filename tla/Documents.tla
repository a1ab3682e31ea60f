------------------------------- MODULE Documents -------------------------------
(***************************************************************************)
(* What becomes of the content of a profile document when it is read,      *)
(* patched, listed, exported and imported (domain migrate.ts, serialize.ts *)
(* and profile.ts; profile-store store.ts, sanitize.ts).  A document is a  *)
(* function from paths, sequences of keys, to texts; Broken is a text that *)
(* is no JSON or no object.  ProfileStore has the files, Cli the ids.      *)
(***************************************************************************)
EXTENDS Integers, Sequences, SequencesExt, FiniteSetsExt

CONSTANTS
  Nothing, Broken,
  Required, Optional,  \* the paths of the schema
  Dropping,            \* sections whose schema drops the keys it does not know
  Misfit,              \* a text no field of the schema takes
  Numbers, Current,    \* the texts that are version numbers; that of the schema
  Older,               \* the versions there is a migration for
  Legacy,              \* the numbers up to the schema's
  Blank,               \* texts of blanks
  SecretKeys,          \* keys that look like those of a secret
  Private,             \* texts with a path of somebody's home
  Hidden, Null,
  Stamp                \* the time of a change

Contract == Required \cup Optional
Version == <<"schemaVersion">>
UpdatedAt == <<"metadata", "updatedAt">>
At(doc, path) == IF path \in DOMAIN doc THEN doc[path] ELSE Nothing
Without(doc, paths) == [p \in DOMAIN doc \ paths |-> doc[p]]

Parsed(doc) == [code |-> "ok", doc |-> doc]
Fails(code) == [code |-> code, doc |-> Nothing]

-----------------------------------------------------------------------------
(* The schema.  Unknown fields are kept, except where a section has neither
   passthrough() nor strict(); strict() is about the topmost keys alone. *)

zodErrorToDomainError(onlyUnknownKeys) ==
  Fails(IF onlyUnknownKeys THEN "DOMAIN_UNKNOWN_FIELD" ELSE "DOMAIN_VALIDATION_FAILED")

safeParse(doc, strict) ==
  LET unknown == {p \in DOMAIN doc : \A q \in Contract \cup {Version} : p[1] # q[1]}
      dropped == {p \in DOMAIN doc \ Contract : p[1] \in Dropping}
      conforms == /\ Required \subseteq DOMAIN doc /\ At(doc, Version) = Current
                  /\ \A p \in Contract : At(doc, p) # Misfit
  IN  IF conforms /\ (strict => unknown = {}) THEN Parsed(Without(doc, dropped))
      ELSE zodErrorToDomainError(conforms)

readVersion(doc) == IF doc = Broken THEN Nothing ELSE At(doc, Version)

(* An older document is forwarded: its version is stamped on a copy. *)
migrateV1Profile(doc, strict) == safeParse([doc EXCEPT ![Version] = Current], strict)
migrateV2Profile(doc, strict) == safeParse(doc, strict)

migrateProfile(doc, strict) ==
  CASE readVersion(doc) \notin Numbers -> Fails("DOMAIN_PARSE_FAILED")
    [] readVersion(doc) \in Older -> migrateV1Profile(doc, strict)
    [] readVersion(doc) = Current -> migrateV2Profile(doc, strict)
    [] OTHER -> Fails("DOMAIN_VERSION_UNSUPPORTED")

-----------------------------------------------------------------------------
(* The store. *)

parseStored(doc) ==
  LET record == migrateProfile(doc, FALSE)
  IN  IF record.code = "ok" THEN record ELSE Fails("STORE_CORRUPTED")

parseImport(doc, strict) ==
  LET record == migrateProfile(doc, strict)
  IN  IF record.code = "ok" THEN record ELSE Fails("STORE_IMPORT_FAILED")

(* A document that cannot be used is still listed, and one whose only fault may
   be that it has no model or scenario is told apart. *)
isUnclassifiableLegacy(doc) ==
  /\ doc # Broken
  /\ At(doc, Version) \in Legacy
  /\ \E p \in {<<"model", "modelKey">>, <<"task", "type">>} : At(doc, p) \in Blank \cup {Nothing, Misfit}

entryKind(doc) ==
  CASE parseStored(doc).code = "ok" -> "profile"
    [] OTHER -> IF isUnclassifiableLegacy(doc) THEN "needs-organization" ELSE "corrupted"

(* Objects are merged, anything else is replaced. *)
(* (Faulty variant: a section that the patch names is replaced as a whole.) *)
mergePatchShallow(current, patch) ==
  patch @@ Without(current, {p \in DOMAIN current : \E q \in DOMAIN patch : p[1] = q[1]})

mergePatchObject(current, patch) ==
  patch @@ Without(current, {p \in DOMAIN current : \E q \in DOMAIN patch : IsPrefix(p, q) \/ IsPrefix(q, p)})

patched(doc, patch) ==
  LET current == parseStored(doc)
      validated == safeParse(mergePatchObject(current.doc, patch), FALSE)
  IN  CASE current.code # "ok" -> current
        [] OTHER -> IF validated.code # "ok" THEN validated
                    ELSE Parsed([validated.doc EXCEPT ![UpdatedAt] = Stamp])

-----------------------------------------------------------------------------
(* The export.  A key of the schema is never secret, wherever it stands; what
   an unknown one holds goes as a whole. *)

ContractKeys == UNION {ToSet(p) : p \in Contract}
isSensitiveKey(key) == key \in SecretKeys \ ContractKeys

sanitizeExport(doc) ==
  LET Cut(p) ==
        LET at == {i \in DOMAIN p : isSensitiveKey(p[i])} IN IF at = {} THEN p ELSE SubSeq(p, 1, Min(at))
  IN  [q \in {Cut(p) : p \in DOMAIN doc} |->
         CASE isSensitiveKey(Last(q)) -> Null
           [] OTHER -> IF doc[q] \in Private THEN Hidden ELSE doc[q]]

exported(doc) ==
  IF parseStored(doc).code = "ok" THEN Parsed(sanitizeExport(parseStored(doc).doc)) ELSE parseStored(doc)
=============================================================================
