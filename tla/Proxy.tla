------------------------------- MODULE Proxy -------------------------------
(***************************************************************************)
(* The OpenAI-compatible proxy: chat requests that name a virtual model,   *)
(* from their resolution to the end of the answer (core-service/proxy.ts,  *)
(* core/session-lock.ts, the proxy's wiring and its HTTP route).           *)
(*                                                                         *)
(* Everything up to the first await - reading the alias document, matching *)
(* it, the session latch and the profile - is one step of the JavaScript   *)
(* thread and one action here, Resolve.  Each await after it is a state of *)
(* the request: others load models and take the activation lock in between.*)
(* Users edit the alias document and the profiles at any time, and a       *)
(* request reads each once, so every read may find any of them.  A request *)
(* that is refused before it resolves changes nothing.                     *)
(*                                                                         *)
(* A run of the activation runner is what module Activation promises of    *)
(* one: under the lock, it ends with the target loaded or it reports that  *)
(* it is not.  A client that leaves aborts the runner and the upstream     *)
(* call, which is one of the ways they fail or end.                        *)
(***************************************************************************)
EXTENDS RuleMatching, FiniteSets

CONSTANTS
  Request,      \* requests that may be in flight together
  VirtualModel, \* names clients ask for
  Session,      \* opaque session ids
  NoSession,    \* a request without one
  Profile,
  ModelKey,
  NoModel,      \* no model: nothing loaded, or no modelKey in an alias
  ModelOf,      \* the model of a profile
  Document,     \* the alias documents users write
  DefaultTtl,   \* DEFAULT_SESSION_TTL_MS, without a readable document
  OldAge        \* ages of a latch are told apart up to this one

ASSUME ModelOfAssumption == ModelOf \in [Profile -> ModelKey]
ASSUME NobodyAssumption == "nobody" \notin Request
ASSUME TtlAssumption ==
  /\ DefaultTtl \in 1 .. OldAge /\ OldAge \in Nat
  /\ \A d \in Document : d.ttl \in 1 .. OldAge

VARIABLES
  host,      \* the modelKey getActiveState() answers
  lock,      \* the request that holds the activation lock, or "nobody"
  entries,   \* the session lock: key -> latched profile and its age
  pc, task,  \* a request: where it is, and what it resolved to
  was,       \* history: the model a request names was active since it came
  lease      \* history: profile and model of each request under a latch

vars == <<host, lock, entries, pc, task, was, lease>>

Key == VirtualModel \X Session
NoEntry == [profileId |-> Nothing, age |-> 0]
NoTarget == [profileId |-> Nothing, model |-> NoModel, activate |-> FALSE, own |-> FALSE]
Target == [profileId : Profile, model : ModelKey, activate : BOOLEAN, own : BOOLEAN]

Forwarded == {"opening", "streaming"}

TypeOK ==
  /\ host \in ModelKey \cup {NoModel}
  /\ lock \in Request \cup {"nobody"}
  /\ entries \in [Key -> [profileId : Profile, age : 0 .. OldAge] \cup {NoEntry}]
  /\ pc \in [Request -> {"idle", "checking", "activating", "switching"} \cup Forwarded]
  /\ task \in [Request -> Target \cup {NoTarget}]
  /\ was \in [Request -> BOOLEAN]
  /\ lease \in [Key -> SUBSET (Profile \X ModelKey)]
  /\ \A r \in Request : (pc[r] = "idle") = (task[r] = NoTarget)
  /\ \A r \in Request : pc[r] = "switching" => lock = r

Init ==
  /\ host = NoModel
  /\ lock = "nobody"
  /\ entries = [k \in Key |-> NoEntry]
  /\ pc = [r \in Request |-> "idle"]
  /\ task = [r \in Request |-> NoTarget]
  /\ was = [r \in Request |-> FALSE]
  /\ lease = [k \in Key |-> {}]

-----------------------------------------------------------------------------
(* The session lock. *)

Ttl == {DefaultTtl} \cup {d.ttl : d \in Document}
isEntryLive(entry, ttl) == entry # NoEntry /\ entry.age < ttl

(* A lease ends with its entry: what is latched later starts a new one. *)
Forget(keys) ==
  /\ entries' = [k \in Key |-> IF k \in keys THEN NoEntry ELSE entries[k]]
  /\ lease' = [k \in Key |-> IF k \in keys THEN {} ELSE lease[k]]

sweep == \E ttl \in Ttl : Forget({k \in Key : ~isEntryLive(entries[k], ttl)})

-----------------------------------------------------------------------------
(* Steps of a request. *)

Move(r, to) == pc' = [pc EXCEPT ![r] = to]

(* Whatever the status, an answer ends the request. *)
Answer(r) ==
  /\ pc' = [pc EXCEPT ![r] = "idle"]
  /\ task' = [task EXCEPT ![r] = NoTarget]

(* The host has this model now: the requests that name it have seen it. *)
Loads(m) ==
  /\ host' = m
  /\ was' = [r \in Request |-> pc'[r] # "idle" /\ (was[r] \/ task'[r].model = m)]

effectiveModelKey(alias, profileId) ==
  IF alias.modelKey # NoModel THEN alias.modelKey ELSE ModelOf[profileId]

(* (Faulty variant: the alias as it is mapped now.) *)
ServedAsMapped(held, entry, alias) == alias.profileId
Served(held, entry, alias) == IF held THEN entry.profileId ELSE alias.profileId

TargetOf(alias, profileId) ==
  [profileId |-> profileId, model |-> effectiveModelKey(alias, profileId),
   activate |-> alias.activate, own |-> alias.modelKey # NoModel]

Release(key) ==
  /\ entries' = [entries EXCEPT ![key] = NoEntry]
  /\ lease' = [lease EXCEPT ![key] = {}]

Joins(key, id, model) ==
  /\ lease' = [lease EXCEPT ![key] = @ \cup {<<id, model>>}]
  /\ UNCHANGED entries

Latches(key, id, model) ==
  /\ entries' = [entries EXCEPT ![key] = [profileId |-> id, age |-> 0]]
  /\ lease' = [lease EXCEPT ![key] = {<<id, model>>}]

(* The request of a session gets the latched profile while the latch lives;
   otherwise the alias's, which it latches.  A release ends the latch.  The
   profile may be gone from the store, and the request then ends here. *)
Resolve(r, document, v, s, release) ==
  LET alias  == matchVirtualAlias(document, v)
      key    == <<v, s>>
      freed  == s # NoSession /\ release
      locks  == s # NoSession /\ ~release /\ document.sessionLock /\ alias.lockSession
      held   == locks /\ isEntryLive(entries[key], document.ttl)
      id     == Served(held, entries[key], alias)
      target == TargetOf(alias, id)
  IN  /\ pc[r] = "idle"
      /\ alias # Nothing
      /\ \/ freed /\ Release(key)
         \/ locks /\ held /\ Joins(key, id, target.model)
         \/ locks /\ ~held /\ Latches(key, id, target.model)
         \/ ~freed /\ ~locks /\ UNCHANGED <<entries, lease>>
      /\ \/ Answer(r) /\ UNCHANGED was
         \/ /\ Move(r, "checking")
            /\ task' = [task EXCEPT ![r] = target]
            /\ was' = [was EXCEPT ![r] = host = target.model]
      /\ UNCHANGED <<host, lock>>

(* The body is built and the call upstream made in the step of the check. *)
Forward(r) == Move(r, "opening") /\ sweep

Fails(r, from) ==
  /\ pc[r] = from
  /\ Answer(r)
  /\ was' = [was EXCEPT ![r] = FALSE]
  /\ UNCHANGED <<host, lock, entries, lease>>

(* (Faulty variant: any model will do.) *)
SomeActive(r) == host # NoModel
IsActive(r) == host = task[r].model

CheckPasses(r) ==
  /\ pc[r] = "checking"
  /\ IsActive(r)
  /\ Forward(r)
  /\ UNCHANGED <<host, lock, task, was>>

(* (Faulty variant: without the opt-in of the alias.) *)
CheckActivatesUnasked(r) ==
  /\ pc[r] = "checking"
  /\ ~IsActive(r)
  /\ Move(r, "activating")
  /\ UNCHANGED <<host, lock, entries, task, was, lease>>

CheckActivates(r) ==
  /\ pc[r] = "checking"
  /\ ~IsActive(r) /\ task[r].activate
  /\ Move(r, "activating")
  /\ UNCHANGED <<host, lock, entries, task, was, lease>>

(* getActiveState() throws, or the model is not active and may not be made so. *)
CheckRefuses(r) == Fails(r, "checking")

-----------------------------------------------------------------------------
(* Controlled activation: the runner alone takes and releases the lock. *)

(* (Faulty variant: the lock is not looked at.) *)
AcquiresBusy(r) ==
  /\ pc[r] = "activating"
  /\ lock' = r
  /\ Move(r, "switching")
  /\ UNCHANGED <<host, entries, task, was, lease>>

Acquires(r) ==
  /\ pc[r] = "activating"
  /\ lock = "nobody"
  /\ lock' = r
  /\ Move(r, "switching")
  /\ UNCHANGED <<host, entries, task, was, lease>>

(* (Faulty variant: the request waits while the lock is busy.) *)
ThrowsWaits(r) == lock = "nobody" /\ Fails(r, "activating")

(* The preflight fails, or the lock is busy: held by another request, or by
   the tray, a hook or another process. *)
Throws(r) == Fails(r, "activating")

(* The runner reports "active": the model of the profile is loaded. *)
Activates(r) ==
  /\ pc[r] = "switching"
  /\ Forward(r)
  /\ UNCHANGED task
  /\ Loads(ModelOf[task[r].profileId])
  /\ lock' = "nobody"

(* Any other outcome, whatever the host is left with. *)
ActivationFails(r) ==
  /\ pc[r] = "switching"
  /\ Answer(r)
  /\ \E m \in {host, ModelOf[task[r].profileId], NoModel} : Loads(m)
  /\ lock' = "nobody"
  /\ UNCHANGED <<entries, lease>>

-----------------------------------------------------------------------------
(* The upstream call.  Whether LM Studio finished the stream or the connection
   broke, the stream ends quietly and the client gets its last frame. *)

Opens(r) ==
  /\ pc[r] = "opening"
  /\ Move(r, "streaming")
  /\ UNCHANGED <<host, lock, entries, task, was, lease>>

UpstreamFails(r) == Fails(r, "opening")
StreamEnds(r) == Fails(r, "streaming")

-----------------------------------------------------------------------------
(* The rest of the world. *)

HostChanges ==
  /\ UNCHANGED <<lock, entries, pc, task, lease>>
  /\ \E m \in (ModelKey \cup {NoModel}) \ {host} : Loads(m)

(* Time passes: every latch grows older. *)
Tick ==
  /\ \E k \in Key : entries[k] # NoEntry /\ entries[k].age < OldAge
  /\ entries' = [k \in Key |-> IF entries[k] = NoEntry \/ entries[k].age = OldAge THEN entries[k]
                               ELSE [entries[k] EXCEPT !.age = @ + 1]]
  /\ UNCHANGED <<host, lock, pc, task, was, lease>>

(* The sidecar ends and is started again.  A row of the audit log that cannot
   be written is one of the ways it ends: nobody catches that failure.  The
   activation lock it leaves behind is reclaimed as module ActivationLock says,
   and until then the lock is busy. *)
Restart ==
  /\ pc' = [r \in Request |-> "idle"]
  /\ task' = [r \in Request |-> NoTarget]
  /\ was' = [r \in Request |-> FALSE]
  /\ lock' = "nobody"
  /\ Forget(Key)
  /\ UNCHANGED host

-----------------------------------------------------------------------------
Step(r) ==
  \/ CheckPasses(r) \/ CheckActivates(r) \/ CheckRefuses(r)
  \/ Acquires(r) \/ Throws(r) \/ Activates(r) \/ ActivationFails(r)
  \/ Opens(r) \/ UpstreamFails(r) \/ StreamEnds(r)

Arrive(r) ==
  \E document \in Document, v \in VirtualModel, s \in Session \cup {NoSession}, release \in BOOLEAN :
    Resolve(r, document, v, s, release)

Next ==
  \/ \E r \in Request : Arrive(r) \/ Step(r)
  \/ HostChanges \/ Tick \/ Restart

(* The REST calls and the stages of the runner have time limits, so each await
   of a request settles; the body of a stream has none, and that it ends is
   LM Studio's and the client's doing. *)
Fairness == \A r \in Request : WF_vars(Step(r))
Spec == Init /\ [][Next]_vars /\ Fairness

-----------------------------------------------------------------------------
(* While a session is latched, all of its requests are served by one profile,
   the latched one, however often the alias is mapped anew: get() before
   latch(), and nothing but a release, the end of its time or of the process
   ends a latch. *)
OneProfilePerLease ==
  \A k \in Key : \A pair \in lease[k] : pair[1] = entries[k].profileId

(* Nothing is sent upstream for a model that was not active at some moment
   since the request came in, although the check and the call are two steps.
   (An alias that activates its profile and names another model is sent to
   that model all the same.) *)
ForwardedWasActive ==
  \A r \in Request : pc[r] \in Forwarded => was[r] \/ (task[r].activate /\ task[r].own)

(* Two requests never switch models at once, and the requests that did not opt
   in never change the host: while nobody holds the lock, or while its holder
   stays in its switch, only the outside world loads a model. *)
SwitchesByOptIn ==
  [][host' # host =>
       \/ pc' = pc
       \/ \E r \in Request : pc[r] = "switching" /\ task[r].activate /\ lock' = "nobody"
                           /\ \A q \in Request \ {r} : pc'[q] = pc[q] /\ pc[q] # "switching"]_vars

(* Every request is answered. *)
EveryRequestEnds == \A r \in Request : pc[r] # "idle" ~> pc[r] = "idle"

(* Not kept by the code, and refuted by TLC on the instance of MCProxy with
   the documents of MCRemapped: a session is pinned "so one conversation never
   flips models mid-stream when the alias document is re-mapped"
   (session-lock.ts).  The latch pins the profile; the model comes from the
   alias as it is now. *)
SessionKeepsModel == \A k \in Key : Cardinality({pair[2] : pair \in lease[k]}) <= 1
=============================================================================
