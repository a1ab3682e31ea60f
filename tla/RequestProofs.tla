---------------------------- MODULE RequestProofs ----------------------------
(***************************************************************************)
(* Theorems about what is asked of the program: the requests of Proxy, for *)
(* any number of requests, sessions, profiles and models, and for any      *)
(* alias documents and lifetimes; the commands, methods, looks at the      *)
(* models and recommendations of Answers, for any words, parameters,       *)
(* worlds, baselines, rules, hosts and logs; and the operators that tell   *)
(* what a document of rules or aliases resolves to, what an addition to    *)
(* it changes, when memory was overrun and with which token the sidecar    *)
(* starts.  Of Proxy's variables only which functions they are is needed.  *)
(***************************************************************************)
EXTENDS Proxy, Answers, TLAPS, FiniteSetTheorems, FunctionTheorems

(* What the arguments need of the types. *)
Shapes ==
  /\ DOMAIN entries = Key /\ DOMAIN lease = Key
  /\ DOMAIN pc = Request /\ DOMAIN task = Request /\ DOMAIN was = Request

(* A request that names the active model has seen it, for it was active when
   the request came or became so since. *)
ActiveIsSeen ==
  \A r \in Request : pc[r] # "idle" /\ host = task[r].model => was[r]

(* Only requests that opted in get as far as a switch, and a request whose
   alias names no model of its own names the profile's. *)
SwitchersOptedIn ==
  \A r \in Request :
    /\ pc[r] \in {"activating", "switching"} => task[r].activate
    /\ pc[r] # "idle" => task[r].own \/ task[r].model = ModelOf[task[r].profileId]

(* Who switches holds the lock. *)
SwitcherHolds == \A r \in Request : pc[r] = "switching" => lock = r

IInv ==
  /\ Shapes /\ OneProfilePerLease
  /\ ActiveIsSeen /\ SwitchersOptedIn /\ SwitcherHolds /\ ForwardedWasActive

-----------------------------------------------------------------------------
(* The initial state satisfies the inductive invariant. *)
LEMMA InitIInv == Init => IInv
BY DEF Init, IInv, Shapes, OneProfilePerLease, ActiveIsSeen, SwitchersOptedIn,
   SwitcherHolds, ForwardedWasActive, Forwarded

(* Forgetting latches leaves one profile to each that remains. *)
LEMMA ForgetKeepsLeases ==
  ASSUME OneProfilePerLease, NEW keys, Forget(keys)
  PROVE  OneProfilePerLease' /\ DOMAIN entries' = Key /\ DOMAIN lease' = Key
BY DEF Forget, OneProfilePerLease

(* A request that forwards sweeps, which leaves one profile to each latch. *)
LEMMA ForwardKeepsLeases ==
  ASSUME OneProfilePerLease, NEW r \in Request, Forward(r)
  PROVE  OneProfilePerLease' /\ DOMAIN entries' = Key /\ DOMAIN lease' = Key
BY ForgetKeepsLeases DEF Forward, sweep

(* Who joins a latch is served by the latched profile. *)
LEMMA JoinsKeepsLeases ==
  ASSUME DOMAIN entries = Key, DOMAIN lease = Key, OneProfilePerLease,
         NEW key, NEW id, NEW model, id = entries[key].profileId, Joins(key, id, model)
  PROVE  OneProfilePerLease' /\ DOMAIN entries' = Key /\ DOMAIN lease' = Key
<1>1. DOMAIN entries' = Key /\ DOMAIN lease' = Key
  BY DEF Joins
<1>2. ASSUME NEW k \in Key, NEW pair \in lease'[k]
      PROVE  pair[1] = entries'[k].profileId
  <2>1. entries'[k] = entries[k]
    BY DEF Joins
  <2>2. CASE pair \in lease[k]
    BY <2>1, <2>2 DEF OneProfilePerLease
  <2>3. CASE pair \notin lease[k]
    <3>1. k = key /\ pair = <<id, model>>
      BY <2>3, <1>2 DEF Joins
    <3>2. <<id, model>>[1] = id
      OBVIOUS
    <3> QED BY <2>1, <3>1, <3>2
  <2> QED BY <2>2, <2>3
<1> QED BY <1>1, <1>2 DEF OneProfilePerLease

(* Who starts a latch is its first request. *)
LEMMA LatchesKeepsLeases ==
  ASSUME DOMAIN entries = Key, DOMAIN lease = Key, OneProfilePerLease,
         NEW key, NEW id, NEW model, Latches(key, id, model)
  PROVE  OneProfilePerLease' /\ DOMAIN entries' = Key /\ DOMAIN lease' = Key
<1>1. DOMAIN entries' = Key /\ DOMAIN lease' = Key
  BY DEF Latches
<1>2. ASSUME NEW k \in Key, NEW pair \in lease'[k]
      PROVE  pair[1] = entries'[k].profileId
  <2>1. CASE k = key
    <3>1. entries'[k] = [profileId |-> id, age |-> 0] /\ pair = <<id, model>>
      BY <1>2, <2>1 DEF Latches
    <3>2. <<id, model>>[1] = id /\ [profileId |-> id, age |-> 0].profileId = id
      OBVIOUS
    <3> QED BY <3>1, <3>2
  <2>2. CASE k # key
    BY <1>2, <2>2 DEF Latches, OneProfilePerLease
  <2> QED BY <2>1, <2>2
<1> QED BY <1>1, <1>2 DEF OneProfilePerLease

(* A request that resolves joins the latch with its profile, or starts one, or
   ends it. *)
LEMMA ResolveKeepsLeases ==
  ASSUME IInv, NEW r \in Request, NEW document \in Document, NEW v \in VirtualModel,
         NEW s \in Session \cup {NoSession}, NEW release \in BOOLEAN,
         Resolve(r, document, v, s, release)
  PROVE  OneProfilePerLease' /\ DOMAIN entries' = Key /\ DOMAIN lease' = Key
<1>1. DOMAIN entries = Key /\ DOMAIN lease = Key /\ OneProfilePerLease
  BY DEF IInv, Shapes
<1>2. CASE \E key : Release(key)
  BY <1>1, <1>2 DEF Release, OneProfilePerLease
<1>3. CASE \E key, model : Joins(key, entries[key].profileId, model)
  BY <1>1, <1>3, JoinsKeepsLeases
<1>4. CASE \E key, id, model : Latches(key, id, model)
  BY <1>1, <1>4, LatchesKeepsLeases
<1>5. CASE UNCHANGED <<entries, lease>>
  BY <1>1, <1>5 DEF OneProfilePerLease
<1> QED BY <1>2, <1>3, <1>4, <1>5 DEF Resolve, Served

-----------------------------------------------------------------------------
(* What each step makes of the requests. *)
Requests == ActiveIsSeen /\ SwitchersOptedIn /\ SwitcherHolds /\ ForwardedWasActive
RequestShapes == DOMAIN pc = Request /\ DOMAIN task = Request /\ DOMAIN was = Request

(* A new request names a model that is active or has not been seen. *)
LEMMA StartsKeepsRequests ==
  ASSUME RequestShapes, Requests, NEW r \in Request, NEW target,
         target.own \/ target.model = ModelOf[target.profileId],
         Move(r, "checking"), task' = [task EXCEPT ![r] = target],
         was' = [was EXCEPT ![r] = host = target.model], UNCHANGED <<host, lock>>
  PROVE  RequestShapes' /\ Requests'
<1>1. RequestShapes' /\ pc'[r] = "checking" /\ task'[r] = target
  BY DEF Move, RequestShapes
<1>2. host' = task'[r].model => was'[r]
  BY <1>1 DEF RequestShapes
<1>3. task'[r].own \/ task'[r].model = ModelOf[task'[r].profileId]
  BY <1>1
<1>4. \A q \in Request \ {r} : pc'[q] = pc[q] /\ task'[q] = task[q] /\ was'[q] = was[q]
  BY DEF Move, RequestShapes
<1>5. ActiveIsSeen'
  BY <1>2, <1>4 DEF Requests, ActiveIsSeen
<1>6. SwitchersOptedIn'
  BY <1>1, <1>3, <1>4 DEF Requests, SwitchersOptedIn
<1>7. SwitcherHolds' /\ ForwardedWasActive'
  BY <1>1, <1>4 DEF Requests, SwitcherHolds, ForwardedWasActive, Forwarded
<1> QED BY <1>1, <1>5, <1>6, <1>7 DEF Requests

(* A request that resolves starts, or is answered at once. *)
LEMMA ResolveKeepsRequests ==
  ASSUME RequestShapes, Requests, NEW r \in Request, NEW document, NEW v, NEW s, NEW release,
         Resolve(r, document, v, s, release)
  PROVE  RequestShapes' /\ Requests'
<1>1. UNCHANGED <<host, lock>>
  BY DEF Resolve
<1>2. CASE Answer(r) /\ UNCHANGED was
  BY <1>1, <1>2 DEF Answer, RequestShapes, Requests, ActiveIsSeen, SwitchersOptedIn,
     SwitcherHolds, ForwardedWasActive, Forwarded
<1>3. CASE \E target : /\ target.own \/ target.model = ModelOf[target.profileId]
                       /\ Move(r, "checking")
                       /\ task' = [task EXCEPT ![r] = target]
                       /\ was' = [was EXCEPT ![r] = host = target.model]
  BY <1>1, <1>3, StartsKeepsRequests
<1>4. ASSUME NEW alias, NEW id
      PROVE  TargetOf(alias, id).own \/ TargetOf(alias, id).model = ModelOf[TargetOf(alias, id).profileId]
  BY DEF TargetOf, effectiveModelKey
<1> QED BY <1>2, <1>3, <1>4 DEF Resolve

(* A request that fails leaves the others as they are. *)
LEMMA FailsKeepsRequests ==
  ASSUME RequestShapes, Requests, NEW r \in Request, NEW from, Fails(r, from)
  PROVE  RequestShapes' /\ Requests'
<1>1. RequestShapes' /\ pc'[r] = "idle"
  BY DEF Fails, Answer, RequestShapes
<1>2. \A q \in Request \ {r} : pc'[q] = pc[q] /\ task'[q] = task[q] /\ was'[q] = was[q]
  BY DEF Fails, Answer, RequestShapes
<1>3. UNCHANGED <<host, lock>>
  BY DEF Fails
<1> QED BY <1>1, <1>2, <1>3 DEF Requests, ActiveIsSeen, SwitchersOptedIn,
        SwitcherHolds, ForwardedWasActive, Forwarded

(* A model that is loaded is seen by whoever names it. *)
LEMMA LoadsIsSeen ==
  ASSUME RequestShapes', NEW m, Loads(m)
  PROVE  /\ ActiveIsSeen' /\ DOMAIN was' = Request
         /\ \A q \in Request : pc'[q] # "idle" /\ was[q] => was'[q]
BY DEF Loads, ActiveIsSeen, RequestShapes

(* A request that goes on keeps the invariant if what its new place asks for
   holds. *)
LEMMA MoveKeepsRequests ==
  ASSUME RequestShapes, Requests, NEW r \in Request, NEW to, Move(r, to),
         UNCHANGED <<host, task, was>>, pc[r] # "idle",
         to \in {"activating", "switching"} => task[r].activate,
         to \in Forwarded => was[r] \/ (task[r].activate /\ task[r].own),
         SwitcherHolds'
  PROVE  RequestShapes' /\ Requests'
<1>1. RequestShapes' /\ pc'[r] = to /\ \A q \in Request \ {r} : pc'[q] = pc[q]
  BY DEF Move, RequestShapes
<1>2. ActiveIsSeen'
  BY <1>1 DEF Requests, ActiveIsSeen
<1>3. SwitchersOptedIn'
  BY <1>1 DEF Requests, SwitchersOptedIn
<1>4. ForwardedWasActive'
  BY <1>1 DEF Requests, ForwardedWasActive
<1> QED BY <1>1, <1>2, <1>3, <1>4 DEF Requests

(* The runner's target is active when it reports so: a request whose alias
   names no other model has seen its model. *)
LEMMA ActivatesKeepsRequests ==
  ASSUME RequestShapes, Requests, NEW r \in Request, Activates(r)
  PROVE  RequestShapes' /\ Requests'
<1>1. /\ DOMAIN pc' = Request /\ pc[r] = "switching" /\ pc'[r] = "opening" /\ task' = task
      /\ \A q \in Request \ {r} : pc'[q] = pc[q]
  BY DEF Activates, Forward, Move, RequestShapes
<1>2. DOMAIN was' = Request
  BY DEF Activates, Loads
<1>3. RequestShapes'
  BY <1>1, <1>2 DEF RequestShapes
<1>4. ActiveIsSeen' /\ \A q \in Request : pc'[q] # "idle" /\ was[q] => was'[q]
  BY <1>3, LoadsIsSeen DEF Activates
<1>5. SwitchersOptedIn'
  BY <1>1 DEF Requests, SwitchersOptedIn
<1>6. SwitcherHolds'
  BY <1>1 DEF Requests, SwitcherHolds, Activates
<1>7. task'[r].activate /\ (task'[r].own \/ was'[r])
  <2>1. task[r].activate /\ (task[r].own \/ task[r].model = ModelOf[task[r].profileId])
    BY DEF Requests, SwitchersOptedIn, Activates
  <2>2. host' = ModelOf[task[r].profileId]
    BY DEF Activates, Loads
  <2> QED BY <1>1, <1>4, <2>1, <2>2 DEF ActiveIsSeen
<1>8. ForwardedWasActive'
  BY <1>1, <1>4, <1>7 DEF Requests, ForwardedWasActive, Forwarded
<1> QED BY <1>3, <1>4, <1>5, <1>6, <1>8 DEF Requests

(* Whatever a failed activation leaves loaded, the request is over. *)
LEMMA ActivationFailsKeepsRequests ==
  ASSUME RequestShapes, Requests, NEW r \in Request, ActivationFails(r)
  PROVE  RequestShapes' /\ Requests'
<1>1. /\ DOMAIN pc' = Request /\ DOMAIN task' = Request /\ pc'[r] = "idle"
      /\ \A q \in Request \ {r} : pc'[q] = pc[q] /\ task'[q] = task[q]
  BY DEF ActivationFails, Answer, RequestShapes
<1>2. PICK m : Loads(m)
  BY DEF ActivationFails
<1>3. RequestShapes'
  BY <1>1, <1>2 DEF RequestShapes, Loads
<1>4. ActiveIsSeen' /\ \A q \in Request : pc'[q] # "idle" /\ was[q] => was'[q]
  BY <1>2, <1>3, LoadsIsSeen
<1>5. SwitchersOptedIn'
  BY <1>1 DEF Requests, SwitchersOptedIn
<1>6. SwitcherHolds'
  BY <1>1 DEF Requests, SwitcherHolds, ActivationFails
<1>7. ForwardedWasActive'
  BY <1>1, <1>4 DEF Requests, ForwardedWasActive, Forwarded
<1> QED BY <1>3, <1>4, <1>5, <1>6, <1>7 DEF Requests

(* What the outside world loads is seen, and what was seen stays so. *)
LEMMA HostChangesKeepsRequests ==
  ASSUME RequestShapes, Requests, HostChanges
  PROVE  RequestShapes' /\ Requests'
<1>1. UNCHANGED <<pc, task, lock>>
  BY DEF HostChanges
<1>2. PICK m : Loads(m)
  BY DEF HostChanges
<1>3. RequestShapes'
  BY <1>1, <1>2 DEF RequestShapes, Loads
<1>4. ActiveIsSeen' /\ \A q \in Request : pc'[q] # "idle" /\ was[q] => was'[q]
  BY <1>2, <1>3, LoadsIsSeen
<1> QED BY <1>1, <1>3, <1>4 DEF Requests, SwitchersOptedIn, SwitcherHolds,
        ForwardedWasActive, Forwarded

(* After a restart no request is left. *)
LEMMA RestartKeepsRequests ==
  ASSUME Restart
  PROVE  RequestShapes' /\ Requests'
BY DEF Restart, RequestShapes, Requests, ActiveIsSeen, SwitchersOptedIn, SwitcherHolds,
   ForwardedWasActive, Forwarded

-----------------------------------------------------------------------------
(* Every step keeps the inductive invariant. *)
LEMMA StepKeepsRequests ==
  ASSUME RequestShapes, Requests, NEW r \in Request, Step(r)
  PROVE  RequestShapes' /\ Requests'
<1>1. CASE CheckPasses(r)
  <2>1. was[r]
    BY <1>1 DEF CheckPasses, IsActive, Requests, ActiveIsSeen
  <2>2. SwitcherHolds'
    BY <1>1 DEF CheckPasses, Forward, Move, RequestShapes, Requests, SwitcherHolds
  <2> QED BY <1>1, <2>1, <2>2, MoveKeepsRequests DEF CheckPasses, Forward
<1>2. CASE CheckActivates(r)
  <2>1. SwitcherHolds'
    BY <1>2 DEF CheckActivates, Move, RequestShapes, Requests, SwitcherHolds
  <2> QED BY <1>2, <2>1, MoveKeepsRequests DEF CheckActivates, Forwarded
<1>3. CASE Acquires(r)
  <2>1. task[r].activate
    BY <1>3 DEF Acquires, Requests, SwitchersOptedIn
  <2>2. SwitcherHolds'
    <3>1. \A q \in Request : pc[q] # "switching"
      BY <1>3, NobodyAssumption DEF Acquires, Requests, SwitcherHolds
    <3> QED BY <1>3, <3>1 DEF Acquires, Move, RequestShapes, SwitcherHolds
  <2> QED BY <1>3, <2>1, <2>2, MoveKeepsRequests DEF Acquires, Forwarded
<1>4. CASE Activates(r)
  BY <1>4, ActivatesKeepsRequests
<1>5. CASE ActivationFails(r)
  BY <1>5, ActivationFailsKeepsRequests
<1>6. CASE Opens(r)
  <2>1. SwitcherHolds'
    BY <1>6 DEF Opens, Move, RequestShapes, Requests, SwitcherHolds
  <2>2. was[r] \/ (task[r].activate /\ task[r].own)
    BY <1>6 DEF Opens, Requests, ForwardedWasActive, Forwarded
  <2> QED BY <1>6, <2>1, <2>2, MoveKeepsRequests DEF Opens
<1>7. CASE CheckRefuses(r) \/ Throws(r) \/ UpstreamFails(r) \/ StreamEnds(r)
  BY <1>7, FailsKeepsRequests DEF CheckRefuses, Throws, UpstreamFails, StreamEnds
<1> QED BY <1>1, <1>2, <1>3, <1>4, <1>5, <1>6, <1>7 DEF Step

(* No step of a request gives a latch a second profile. *)
LEMMA StepKeepsLeases ==
  ASSUME DOMAIN entries = Key, DOMAIN lease = Key, OneProfilePerLease,
         NEW r \in Request, Step(r)
  PROVE  OneProfilePerLease' /\ DOMAIN entries' = Key /\ DOMAIN lease' = Key
<1>1. CASE CheckPasses(r) \/ Activates(r)
  BY <1>1, ForwardKeepsLeases DEF CheckPasses, Activates
<1>2. CASE UNCHANGED <<entries, lease>>
  BY <1>2 DEF OneProfilePerLease
<1> QED BY <1>1, <1>2 DEF Step, CheckActivates, Acquires, ActivationFails, Opens,
        CheckRefuses, Throws, UpstreamFails, StreamEnds, Fails

LEMMA NextIInv == IInv /\ [Next]_vars => IInv'
<1> SUFFICES ASSUME IInv, [Next]_vars PROVE IInv'
  OBVIOUS
<1>1. /\ RequestShapes /\ Requests
      /\ DOMAIN entries = Key /\ DOMAIN lease = Key /\ OneProfilePerLease
  BY DEF IInv, Shapes, RequestShapes, Requests
<1>2. SUFFICES /\ RequestShapes' /\ Requests'
               /\ OneProfilePerLease' /\ DOMAIN entries' = Key /\ DOMAIN lease' = Key
  BY DEF IInv, Shapes, RequestShapes, Requests
<1>3. CASE \E r \in Request : Arrive(r)
  <2>1. PICK r \in Request, document \in Document, v \in VirtualModel,
             s \in Session \cup {NoSession}, release \in BOOLEAN :
               Resolve(r, document, v, s, release)
    BY <1>3 DEF Arrive
  <2> QED BY <1>1, <2>1, ResolveKeepsLeases, ResolveKeepsRequests
<1>4. CASE \E r \in Request : Step(r)
  BY <1>1, <1>4, StepKeepsLeases, StepKeepsRequests
<1>5. CASE HostChanges
  <2>1. UNCHANGED <<entries, lease>>
    BY <1>5 DEF HostChanges
  <2> QED BY <1>1, <1>5, <2>1, HostChangesKeepsRequests DEF OneProfilePerLease
<1>6. CASE Tick
  <2>1. UNCHANGED <<host, lock, pc, task, was, lease>>
    BY <1>6 DEF Tick
  <2>2. DOMAIN entries' = Key /\ \A k \in Key : entries'[k].profileId = entries[k].profileId
    BY <1>1, <1>6 DEF Tick
  <2>3. OneProfilePerLease'
    BY <1>1, <2>1, <2>2 DEF OneProfilePerLease
  <2>4. RequestShapes' /\ Requests'
    BY <1>1, <2>1 DEF RequestShapes, Requests, ActiveIsSeen, SwitchersOptedIn, SwitcherHolds,
       ForwardedWasActive, Forwarded
  <2> QED BY <1>1, <2>1, <2>2, <2>3, <2>4
<1>7. CASE Restart
  BY <1>1, <1>7, RestartKeepsRequests, ForgetKeepsLeases DEF Restart
<1>8. CASE UNCHANGED vars
  BY <1>1, <1>8 DEF vars, RequestShapes, Requests, OneProfilePerLease, ActiveIsSeen,
     SwitchersOptedIn, SwitcherHolds, ForwardedWasActive, Forwarded
<1> QED BY <1>3, <1>4, <1>5, <1>6, <1>7, <1>8 DEF Next

(* The inductive invariant holds in every reachable state. *)
LEMMA SpecIInv == Spec => []IInv
BY InitIInv, NextIInv, PTL DEF Spec

(* A latched session is served by one profile, whatever becomes of the alias
   documents meanwhile (proxy.ts: get() before latch()). *)
THEOREM LatchKeepsItsProfile == Spec => []OneProfilePerLease
<1>1. IInv => OneProfilePerLease
  BY DEF IInv
<1> QED BY <1>1, SpecIInv, PTL

(* No request is forwarded for a model that was never active while it was in
   flight, unless its alias activates one profile and names another model. *)
THEOREM ForwardsWhatWasActive == Spec => []ForwardedWasActive
<1>1. IInv => ForwardedWasActive
  BY DEF IInv
<1> QED BY <1>1, SpecIInv, PTL

(* A step that loads a model is the outside world's, or ends the one switch
   under the lock of a request that opted in. *)
LEMMA SwitchStep ==
  ASSUME IInv, [Next]_vars, host' # host, pc' # pc
  PROVE  \E r \in Request : /\ pc[r] = "switching" /\ task[r].activate /\ lock' = "nobody"
                            /\ \A q \in Request \ {r} : pc'[q] = pc[q] /\ pc[q] # "switching"
<1>1. ASSUME NEW r \in Request, Activates(r) \/ ActivationFails(r)
      PROVE  /\ pc[r] = "switching" /\ task[r].activate /\ lock' = "nobody"
             /\ \A q \in Request \ {r} : pc'[q] = pc[q] /\ pc[q] # "switching"
  <2>1. pc[r] = "switching" /\ lock' = "nobody" /\ \A q \in Request \ {r} : pc'[q] = pc[q]
    BY <1>1 DEF Activates, ActivationFails, Forward, Move, Answer, IInv, Shapes
  <2>2. task[r].activate /\ \A q \in Request \ {r} : pc[q] # "switching"
    BY <2>1 DEF IInv, SwitchersOptedIn, SwitcherHolds
  <2> QED BY <2>1, <2>2
<1>2. CASE Restart \/ Tick \/ HostChanges \/ UNCHANGED vars
  BY <1>2 DEF Restart, Tick, HostChanges, vars
<1>3. ASSUME NEW r \in Request, Arrive(r)
      PROVE  FALSE
  BY <1>3 DEF Arrive, Resolve
<1>4. ASSUME NEW r \in Request, Step(r)
      PROVE  Activates(r) \/ ActivationFails(r)
  BY <1>4 DEF Step, CheckPasses, CheckActivates, CheckRefuses, Acquires, Throws, Opens,
     UpstreamFails, StreamEnds, Fails
<1> QED BY <1>1, <1>2, <1>3, <1>4 DEF Next

(* Two requests never switch models at once, and those that did not opt in
   never change the host. *)
THEOREM OnlyOptedInSwitch == Spec => SwitchesByOptIn
<1>1. IInv /\ [Next]_vars =>
        [host' # host =>
          \/ pc' = pc
          \/ \E r \in Request : pc[r] = "switching" /\ task[r].activate /\ lock' = "nobody"
                              /\ \A q \in Request \ {r} : pc'[q] = pc[q] /\ pc[q] # "switching"]_vars
  BY SwitchStep
<1> QED BY <1>1, SpecIInv, PTL DEF Spec, SwitchesByOptIn

-----------------------------------------------------------------------------
(* What every command and method keeps to: it answers with a record of four
   fields, and where it refuses it leaves the world as it is. *)
KeepsWorld(answer, w) ==
  /\ answer = [exit |-> answer.exit, code |-> answer.code, world |-> answer.world, said |-> answer.said]
  /\ answer.exit = 4 => answer.world = w
  /\ answer.code \notin {"ok", "INTERNAL"} => answer.world = w

LEMMA KeptRefused == ASSUME NEW w, NEW code PROVE KeepsWorld(Refused(w, code), w)
BY DEF KeepsWorld, Refused, Ends

LEMMA KeptUsage == ASSUME NEW w PROVE KeepsWorld(Usage(w), w)
BY KeptRefused DEF Usage

LEMMA KeptEnds ==
  ASSUME NEW w, NEW v, NEW said, NEW exit \in {0, 2, 3, 5} PROVE KeepsWorld(Ends(v, exit, said), w)
BY DEF KeepsWorld, Ends

LEMMA KeptInternal == ASSUME NEW w, NEW v PROVE KeepsWorld(Refused(v, "INTERNAL"), w)
BY DEF KeepsWorld, Refused, Ends, exitCodeForError

LEMMA KeptDone == ASSUME NEW w, NEW v PROVE KeepsWorld(Done(v), w)
BY KeptEnds DEF Done

LEMMA RefusedExit == ASSUME NEW w, NEW code PROVE Refused(w, code).exit # 0
BY DEF Refused, Ends, exitCodeForError

LEMMA KeptCreate == ASSUME NEW w, NEW doc PROVE KeepsWorld(create(w, doc), w)
BY KeptRefused, KeptEnds DEF create

LEMMA CreateUndone ==
  ASSUME NEW w, IsWorld(w), NEW doc, create(w, doc).exit = 0
  PROVE  Deleted(create(w, doc).world, create(w, doc).said) = w
<1>1. /\ doc.id \notin DOMAIN w.profiles
      /\ create(w, doc).world = Created(w, doc)
      /\ create(w, doc).said = doc.id
  BY RefusedExit DEF create, Ends
<1>2. Dropped({doc.id}, Keyed(doc.id, doc, w.profiles)) = w.profiles
  BY <1>1 DEF Dropped, Keyed, IsWorld
<1>3. Deleted(Created(w, doc), doc.id) = w
  BY <1>2 DEF Deleted, Created, IsWorld
<1> QED BY <1>1, <1>3

LEMMA OtherShown ==
  ASSUME NEW i, NEW m \in DOMAIN buildModelContext(i),
         NEW t \in DOMAIN buildModelContext(i)[m].scenarios
  PROVE buildModelContext(i)[m].scenarios[t] = Scenario(i, m, t)
BY DEF buildModelContext

LEMMA KeptImport ==
  ASSUME NEW w, IsWorld(w), NEW content, NEW strict, NEW allowRename
  PROVE  LET made == importText(w, content, strict, allowRename)
         IN  /\ KeepsWorld(made, w)
             /\ made.exit = 0 => Deleted(made.world, made.said) = w
BY KeptCreate, KeptRefused, CreateUndone, RefusedExit DEF importText

LEMMA KeptUpdate == ASSUME NEW w, NEW id, NEW patch PROVE KeepsWorld(update(w, id, patch), w)
BY KeptRefused, KeptEnds DEF update, Loaded

LEMMA KeptDelete == ASSUME NEW w, NEW id PROVE KeepsWorld(delete(w, id), w)
BY KeptRefused, KeptEnds DEF delete

LEMMA KeptProfileCreate == ASSUME NEW w, IsWorld(w), NEW p PROVE KeepsWorld(profileCreate(w, p), w)
BY KeptImport, KeptUsage DEF profileCreate

LEMMA KeptProfileEdit == ASSUME NEW w, NEW p PROVE KeepsWorld(profileEdit(w, p), w)
BY KeptUpdate, KeptUsage, KeptDone, KeptRefused DEF profileEdit, Loaded

LEMMA KeptProfileClone == ASSUME NEW w, NEW p PROVE KeepsWorld(profileClone(w, p), w)
BY KeptCreate, KeptUsage, KeptRefused DEF profileClone, Loaded

LEMMA KeptProfileDelete == ASSUME NEW w, NEW p PROVE KeepsWorld(profileDelete(w, p), w)
BY KeptDelete, KeptUsage DEF profileDelete

LEMMA KeptProfileImport == ASSUME NEW w, IsWorld(w), NEW p PROVE KeepsWorld(profileImport(w, p), w)
BY KeptImport, KeptUsage DEF profileImport

LEMMA KeptProfileExport == ASSUME NEW w, NEW p PROVE KeepsWorld(profileExport(w, p), w)
BY KeptUsage, KeptDone, KeptRefused DEF profileExport, Loaded

LEMMA KeptProfile ==
  ASSUME NEW w, IsWorld(w), NEW sub \in DOMAIN ProfileSpec, NEW p
  PROVE  KeepsWorld(runProfileCommand(w, sub, p), w)
<1>1. CASE sub \in {"list", "show"}
  BY <1>1, KeptEnds, KeptUsage, KeptDone, KeptRefused DEF runProfileCommand, Loaded
<1>2. CASE sub \in {"create", "edit", "clone", "delete", "import", "export"}
  BY <1>2, KeptProfileCreate, KeptProfileEdit, KeptProfileClone, KeptProfileDelete,
     KeptProfileImport, KeptProfileExport DEF runProfileCommand
<1> QED BY <1>1, <1>2 DEF ProfileSpec

LEMMA KeptReading ==
  ASSUME NEW w, NEW file PROVE KeepsWorld(Reading(w, file, LAMBDA doc : Done(w)), w)
BY KeptUsage, KeptDone, KeptRefused DEF Reading

LEMMA KeptHook ==
  ASSUME NEW w, NEW sub \in DOMAIN HookSpec, NEW p PROVE KeepsWorld(runHookCommand(w, sub, p), w)
<1>1. CASE sub = "status"
  BY <1>1, KeptUsage, KeptEnds, KeptRefused DEF runHookCommand, Reading
<1>2. CASE sub = "token"
  BY <1>2, KeptUsage, KeptDone, KeptRefused DEF runHookCommand, hookToken, Reading
<1>3. CASE sub = "rules"
  BY <1>3, KeptUsage, KeptDone, KeptRefused, KeptEnds DEF runHookCommand, hookRules, Reading, Validated
<1>4. CASE sub \in {"enable", "disable"}
  BY <1>4, KeptUsage, KeptDone, KeptRefused DEF runHookCommand, Switched, Reading
<1> QED BY <1>1, <1>2, <1>3, <1>4 DEF HookSpec

LEMMA KeptAliasAdd == ASSUME NEW w, NEW p PROVE KeepsWorld(aliasAdd(w, p), w)
BY KeptUsage, KeptDone, KeptRefused DEF aliasAdd, Reading

LEMMA KeptAliasRemove == ASSUME NEW w, NEW target PROVE KeepsWorld(aliasRemove(w, target), w)
BY KeptUsage, KeptDone, KeptRefused DEF aliasRemove, Reading

LEMMA KeptAliases == ASSUME NEW w, NEW p PROVE KeepsWorld(proxyAliases(w, p), w)
BY KeptUsage, KeptDone, KeptRefused, KeptEnds, KeptAliasAdd, KeptAliasRemove
   DEF proxyAliases, Reading, Validated

LEMMA KeptProxy ==
  ASSUME NEW w, NEW sub \in DOMAIN ProxySpec, NEW p PROVE KeepsWorld(runProxyCommand(w, sub, p), w)
BY KeptUsage, KeptDone, KeptRefused, KeptAliases DEF runProxyCommand, Switched, Reading, ProxySpec

LEMMA KeptReaching ==
  ASSUME NEW w, NEW answer, KeepsWorld(answer, w) PROVE KeepsWorld(Reaching(w, answer), w)
BY KeptRefused DEF Reaching

LEMMA KeptActivated == ASSUME NEW w, IsWorld(w), NEW doc PROVE KeepsWorld(Activated(w, doc), w)
BY KeptRefused, KeptEnds DEF Activated, IsWorld, Endings, exitCodeForActivation

LEMMA KeptSaveHead == ASSUME NEW w, NEW doc PROVE KeepsWorld(SaveHead(w, doc), w)
BY KeptCreate, KeptInternal DEF SaveHead

LEMMA KeptApply == ASSUME NEW w, IsWorld(w), NEW p PROVE KeepsWorld(runApplyCommand(w, p), w)
BY KeptUsage, KeptRefused, KeptReaching, KeptActivated DEF runApplyCommand, Loaded

LEMMA KeptOptimize == ASSUME NEW w, NEW p PROVE KeepsWorld(runOptimizeCommand(w, p), w)
BY KeptUsage, KeptDone, KeptRefused, KeptSaveHead DEF runOptimizeCommand, Loaded

LEMMA KeptLang == ASSUME NEW w, NEW p PROVE KeepsWorld(runLangCommand(w, p), w)
BY KeptUsage, KeptDone, KeptInternal DEF runLangCommand

LEMMA KeptHostCommands ==
  ASSUME NEW w
  PROVE  /\ KeepsWorld(Reaching(w, Done(w)), w)
         /\ KeepsWorld(runCurrentCommand(w), w)
         /\ KeepsWorld(runSnapshotCommand(w), w)
BY KeptReaching, KeptDone, KeptEnds DEF runCurrentCommand, runSnapshotCommand

LEMMA KeptDispatch ==
  ASSUME NEW w, IsWorld(w), NEW command, NEW args PROVE KeepsWorld(dispatchCommand(w, command, args), w)
<1>1. CASE command = "profile"
  BY <1>1, KeptUsage, KeptProfile DEF dispatchCommand, Sub, Plain
<1>2. CASE command = "hook"
  BY <1>2, KeptUsage, KeptHook DEF dispatchCommand, Sub, Plain
<1>3. CASE command = "proxy"
  BY <1>3, KeptUsage, KeptProxy DEF dispatchCommand, Sub, Plain
<1>4. CASE command \in {"apply", "optimize", "lang"}
  BY <1>4, KeptUsage, KeptApply, KeptOptimize, KeptLang DEF dispatchCommand, Sub, Plain
<1>5. CASE command \in {"models", "current", "snapshot", "doctor", "hardware"}
  BY <1>5, KeptUsage, KeptDone, KeptHostCommands DEF dispatchCommand, Sub, Plain
<1>6. CASE command \notin {"profile", "hook", "proxy", "apply", "optimize", "lang",
                           "models", "current", "snapshot", "doctor", "hardware"}
  BY <1>6, KeptUsage DEF dispatchCommand, Sub, Plain
<1> QED BY <1>1, <1>2, <1>3, <1>4, <1>5, <1>6

(* A run of lmps may store the language before its command refuses. *)
Relocated(v, world) == IsWorld(v) /\ v = [world EXCEPT !.locale = v.locale]

LEMMA LocalePut ==
  ASSUME NEW world, NEW v, IsWorld(v), v = [world EXCEPT !.locale = v.locale], NEW locale
  PROVE  Relocated([v EXCEPT !.locale = locale], world)
<1> DEFINE u == [v EXCEPT !.locale = locale]
<1>1. /\ DOMAIN u = DOMAIN v /\ u.locale = locale /\ u.profiles = v.profiles /\ u.host = v.host
      /\ u = [field \in DOMAIN u |-> u[field]]
  BY DEF IsWorld
<1>2. u = [world EXCEPT !.locale = locale]
  BY DEF IsWorld
<1> QED BY <1>1, <1>2 DEF IsWorld, Relocated

LEMMA SetLocaleKeeps ==
  ASSUME NEW world, IsWorld(world), NEW language
  PROVE  Relocated(setLocale(Started(world), language), world)
<1> DEFINE s == Started(world)
<1>1. world = [world EXCEPT !.locale = world.locale]
  BY DEF IsWorld
<1>2. Relocated(s, world)
  BY <1>1, LocalePut DEF Started
<1> HIDE DEF s
<1> DEFINE v == [s EXCEPT !.locale = [s.locale EXCEPT !.current = language]]
<1>3. Relocated(v, world)
  BY <1>2, LocalePut DEF Relocated
<1>4. setLocale(s, language) \in {s, Stored(v, language)}
  BY DEF setLocale
<1> HIDE DEF v
<1>5. Relocated(Stored(v, language), world)
  BY <1>3, LocalePut DEF Relocated, Stored
<1> QED BY <1>2, <1>4, <1>5 DEF s

LEMMA RefusedCommand ==
  ASSUME NEW world, IsWorld(world), NEW argv, runCli(argv, world).exit = 4
  PROVE  LET left == runCli(argv, world).world IN left = [world EXCEPT !.locale = left.locale]
<1> DEFINE parsed == parseArgs(argv)
           w == setLocale(Started(world), resolveLocale(world, IF parsed.error THEN Nothing ELSE parsed.lang))
<1>1. Relocated(w, world)
  BY SetLocaleKeeps
<1>2. world = [world EXCEPT !.locale = world.locale]
  BY DEF IsWorld
<1> HIDE DEF w
<1>3. runCli(argv, world).world = world \/ runCli(argv, world).world = w
  <2>1. runCli(argv, world) \in {Refused(world, "INTERNAL"), Usage(w), Done(w),
                                 dispatchCommand(w, parsed.command, parsed.args)}
    BY DEF runCli, w
  <2>2. KeepsWorld(dispatchCommand(w, parsed.command, parsed.args), w)
    BY <1>1, KeptDispatch DEF Relocated
  <2>3. KeepsWorld(Refused(world, "INTERNAL"), world) /\ KeepsWorld(Usage(w), w) /\ KeepsWorld(Done(w), w)
    BY KeptRefused, KeptUsage, KeptDone
  <2> QED BY <2>1, <2>2, <2>3 DEF KeepsWorld
<1> QED BY <1>1, <1>2, <1>3 DEF Relocated

-----------------------------------------------------------------------------
(* A method may note its refusal for the tray, or in the log of the hook. *)
OnlyNotes(v, w) == v = [w EXCEPT !.notice = v.notice, !.audits = v.audits]

Noted(answer, w) ==
  /\ answer = [exit |-> answer.exit, code |-> answer.code, world |-> answer.world, said |-> answer.said]
  /\ answer.code \notin {"ok", "INTERNAL"} => OnlyNotes(answer.world, w)

LEMMA NotedKept ==
  ASSUME NEW w, IsWorld(w), NEW answer, KeepsWorld(answer, w) PROVE Noted(answer, w)
<1>1. w = [w EXCEPT !.notice = w.notice, !.audits = w.audits]
  BY DEF IsWorld
<1> QED BY <1>1 DEF KeepsWorld, Noted, OnlyNotes

LEMMA NoticePut ==
  ASSUME NEW w, IsWorld(w), NEW notice
  PROVE  OnlyNotes([w EXCEPT !.notice = notice], w)
BY DEF IsWorld, OnlyNotes

LEMMA AuditPut ==
  ASSUME NEW w, IsWorld(w), NEW audits
  PROVE  OnlyNotes([w EXCEPT !.audits = audits], w)
BY DEF IsWorld, OnlyNotes

LEMMA NotedOutcome ==
  ASSUME NEW w, IsWorld(w), NEW answer, KeepsWorld(answer, w) PROVE Noted(recordOutcome(answer), w)
<1>1. PICK notice : recordOutcome(answer) = [answer EXCEPT !.world.notice = notice]
  BY DEF recordOutcome
<1> DEFINE noted == recordOutcome(answer)
<1>2. /\ noted = [exit |-> noted.exit, code |-> noted.code, world |-> noted.world, said |-> noted.said]
      /\ noted.code = answer.code /\ noted.world = [answer.world EXCEPT !.notice = notice]
  BY <1>1 DEF KeepsWorld
<1>3. noted.code \notin {"ok", "INTERNAL"} => noted.world = [w EXCEPT !.notice = notice]
  BY <1>2 DEF KeepsWorld
<1> HIDE DEF noted
<1> QED BY <1>2, <1>3, NoticePut DEF Noted, noted

LEMMA NotedRow ==
  ASSUME NEW w, IsWorld(w), NEW answer, KeepsWorld(answer, w), NEW row PROVE Noted(Audited(answer, row), w)
<1> DEFINE noted == Audited(answer, row)
<1>1. PICK audits : noted = [answer EXCEPT !.world.audits = audits]
  BY DEF Audited
<1>2. /\ noted = [exit |-> noted.exit, code |-> noted.code, world |-> noted.world, said |-> noted.said]
      /\ noted.code = answer.code /\ noted.world = [answer.world EXCEPT !.audits = audits]
  BY <1>1 DEF KeepsWorld
<1>3. noted.code \notin {"ok", "INTERNAL"} => noted.world = [w EXCEPT !.audits = audits]
  BY <1>2 DEF KeepsWorld
<1> HIDE DEF noted
<1> QED BY <1>2, <1>3, AuditPut DEF Noted, noted

LEMMA NotedGuard ==
  ASSUME NEW w, NEW answer, Noted(answer, w) PROVE Noted(guard(answer), w)
BY DEF Noted, guard, Refused, Ends

LEMMA KeptWired ==
  ASSUME NEW w, NEW answer, KeepsWorld(answer, w), NEW seam PROVE KeepsWorld(Wired(w, seam, answer), w)
BY KeptRefused DEF Wired

LEMMA KeptGetLocale == ASSUME NEW w PROVE KeepsWorld(getLocale(w), w)
BY KeptDone, KeptEnds, KeptRefused DEF getLocale

LEMMA KeptStoreLocale == ASSUME NEW w, NEW language PROVE KeepsWorld(storeLocale(w, language), w)
BY KeptEnds, KeptRefused DEF storeLocale

LEMMA KeptModels == ASSUME NEW w PROVE KeepsWorld(modelsContext(w), w)
BY KeptEnds, KeptRefused DEF modelsContext, ReadModels, Wired

LEMMA KeptDefault == ASSUME NEW w, NEW doc PROVE KeepsWorld(setDefault(w, doc), w)
BY KeptEnds, KeptRefused DEF setDefault

LEMMA KeptPreview == ASSUME NEW w, NEW params PROVE KeepsWorld(optimizePreview(w, params), w)
BY KeptEnds, KeptRefused DEF optimizePreview, Wired, Stores, Loaded

LEMMA KeptSave == ASSUME NEW w, NEW params PROVE KeepsWorld(optimizeSave(w, params), w)
BY KeptSaveHead, KeptRefused DEF optimizeSave, Wired, Stores, Loaded

LEMMA KeptCreateProfile == ASSUME NEW w, NEW doc PROVE KeepsWorld(createProfile(w, doc), w)
BY KeptCreate, KeptRefused DEF createProfile, Object, Wired

LEMMA KeptStatus == ASSUME NEW w PROVE KeepsWorld(activationStatus(w), w)
BY KeptEnds, KeptReaching, KeptWired DEF activationStatus

LEMMA NotedApply ==
  ASSUME NEW w, IsWorld(w), NEW params PROVE Noted(activationApply(w, params), w)
<1>1. PICK answer : activationApply(w, params) = recordOutcome(answer) /\ KeepsWorld(answer, w)
  BY KeptRefused, KeptReaching, KeptActivated DEF activationApply, Wired, Asked, Stores, Loaded
<1> QED BY <1>1, NotedOutcome

LEMMA NotedStartSafe ==
  ASSUME NEW w, IsWorld(w), NEW params PROVE Noted(startSafe(w, params), w)
<1>1. PICK answer : startSafe(w, params) = recordOutcome(answer) /\ KeepsWorld(answer, w)
  BY KeptRefused, KeptReaching, KeptActivated DEF startSafe, Wired, safeBaselineForModel, ReadModels
<1> QED BY <1>1, NotedOutcome

LEMMA NotedUnload == ASSUME NEW w, IsWorld(w) PROVE Noted(unload(w), w)
<1>1. PICK answer : unload(w) \in {answer, recordOutcome(answer)} /\ KeepsWorld(answer, w)
  BY KeptRefused, KeptReaching, KeptDone, KeptInternal, KeptWired DEF unload
<1> QED BY <1>1, NotedOutcome, NotedKept

LEMMA KeptHookStatus == ASSUME NEW w PROVE KeepsWorld(hookStatus(w), w)
BY KeptEnds, KeptRefused DEF hookStatus, Wired, Conforming

LEMMA KeptHookRules == ASSUME NEW w PROVE KeepsWorld(hookRulesOf(w), w)
BY KeptDone, KeptRefused DEF hookRulesOf, Wired, Conforming

LEMMA KeptAliasesStatus == ASSUME NEW w PROVE KeepsWorld(aliasesStatus(w), w)
BY KeptEnds, KeptRefused DEF aliasesStatus, Wired, Conforming

LEMMA NotedSwitch ==
  ASSUME NEW w, IsWorld(w), NEW params PROVE Noted(hookSwitch(w, params), w)
<1>1. \A code, row : Noted(Audited(Refused(w, code), row), w)
  BY KeptRefused, NotedRow
<1>2. \A code : Noted(Refused(w, code), w)
  BY KeptRefused, NotedKept
<1>3. \A doc, row : LET answer == Activated(w, doc)
                    IN  Noted(Reaching(w, IF answer.code = "ok" THEN Audited(answer, row) ELSE answer), w)
  BY <1>2, KeptActivated, NotedRow, NotedKept DEF Reaching
<1> QED BY <1>1, <1>2, <1>3 DEF hookSwitch, Wired, Conforming, Stores, Loaded

LEMMA NotedHandle ==
  ASSUME NEW method, NEW params, NEW w, IsWorld(w) PROVE Noted(handle(method, params, w), w)
<1> DEFINE Storing == {"defaults.set", "optimization.setDefault", "profiles.list", "profiles.show",
                      "profiles.create", "profiles.update", "profiles.delete", "optimize.preview", "optimize.save"}
           Reporting == {"settings.getLocale", "settings.setLocale", "models.context", "activation.status",
                         "hook.status", "hook.rules", "aliases.status"}
           Noting == {"activation.apply", "activation.startSafe", "activation.unload", "hook.switch"}
<1>1. CASE method \in Storing
  <2>1. PICK answer : handle(method, params, w) = guard(answer) /\ KeepsWorld(answer, w)
    BY <1>1, KeptEnds, KeptRefused, KeptDefault, KeptCreateProfile, KeptUpdate, KeptDelete, KeptPreview, KeptSave
       DEF handle, Wired, Asked, Stores, Loaded, Object
  <2> QED BY <2>1, NotedKept, NotedGuard
<1>2. CASE method \in Reporting
  <2>1. PICK answer : handle(method, params, w) = guard(answer) /\ KeepsWorld(answer, w)
    BY <1>2, KeptGetLocale, KeptStoreLocale, KeptModels, KeptStatus, KeptHookStatus, KeptHookRules, KeptAliasesStatus
       DEF handle, Stores, Loaded
  <2> QED BY <2>1, NotedKept, NotedGuard
<1>3. CASE method \in Noting
  BY <1>3, NotedApply, NotedStartSafe, NotedUnload, NotedSwitch, NotedGuard DEF handle, Stores, Loaded
<1>4. CASE method \notin Storing \cup Reporting \cup Noting
  <2>1. handle(method, params, w) = guard(Refused(w, "METHOD_NOT_FOUND"))
    BY <1>4 DEF handle, Stores, Loaded
  <2> QED BY <2>1, KeptRefused, NotedKept, NotedGuard
<1> QED BY <1>1, <1>2, <1>3, <1>4

-----------------------------------------------------------------------------
(* Evidence of another machine is the strongest doubt there is. *)
LEMMA StrongestIsDifferent ==
  ASSUME NEW values, "changed-environment" \in values
  PROVE  strongestEvidence(values) = "changed-environment"
<1> DEFINE held == {i \in DOMAIN EVIDENCE_PRIORITY : EVIDENCE_PRIORITY[i] \in values}
<1>1. 5 \in held /\ \A i \in held : i \in 1 .. 5
  BY DEF EVIDENCE_PRIORITY
<1>2. Max(held) \in held /\ \A i \in held : Max(held) >= i
  BY <1>1 DEF Max
<1>3. Max(held) = 5
  BY <1>1, <1>2
<1> QED BY <1>3 DEF strongestEvidence, EVIDENCE_PRIORITY

LEMMA OtherMachineShown ==
  ASSUME NEW asked, NEW m, NEW t
  PROVE  LET s == Scenario(asked, m, t)
             evidence == {p.validation : p \in {q \in asked.profiles : q.model = m /\ q.task = t}}
                           \cup {b \in asked.benchmarks : b.model = m /\ b.task = t}
         IN  /\ (\E e \in evidence \ {Nothing} : e.at # Nothing /\ Differs(e.host, asked.ready.host))
                  => s.evidence = "changed-environment"
             /\ s.defaultState = "available"
                  => \E p \in asked.profiles : p.model = m /\ p.task = t /\ p.id \in s.chosen
<1> DEFINE profiles == {q \in asked.profiles : q.model = m /\ q.task = t}
           results == {b \in asked.benchmarks : b.model = m /\ b.task = t}
           shown == {ProfileEvidence(p, asked.now, asked.ttl, asked.ready) : p \in profiles}
                      \cup {evidenceStatus(b, asked.now, asked.ttl, asked.ready) : b \in results}
<1>1. ASSUME NEW e, e \in {p.validation : p \in profiles} \cup results, e # Nothing,
             e.at # Nothing, Differs(e.host, asked.ready.host)
      PROVE  Scenario(asked, m, t).evidence = "changed-environment"
  <2>1. evidenceStatus(e, asked.now, asked.ttl, asked.ready) = "changed-environment"
    BY <1>1 DEF evidenceStatus
  <2>2. "changed-environment" \in shown
    BY <1>1, <2>1 DEF ProfileEvidence
  <2>3. Scenario(asked, m, t).evidence = strongestEvidence(shown)
    BY DEF Scenario
  <2> QED BY <2>2, <2>3, StrongestIsDifferent
<1>2. ASSUME Scenario(asked, m, t).defaultState = "available"
      PROVE  \E p \in profiles : p.id \in Scenario(asked, m, t).chosen
  BY <1>2 DEF Scenario
<1> QED BY <1>1, <1>2

-----------------------------------------------------------------------------
(* Sets in an order, told by the places of their elements. *)

(* An order of a set: of two elements one comes first, and what comes before
   something does not come after it. *)
Orders(order, S) ==
  /\ \A x \in S : <<x, x>> \notin order
  /\ \A x, y \in S : x # y => <<x, y>> \in order \/ <<y, x>> \in order
  /\ \A x, y, z \in S : <<x, y>> \in order /\ <<y, z>> \in order => <<x, z>> \in order

LEMMA Counted ==
  ASSUME NEW n \in Nat
  PROVE  IsFiniteSet(1 .. n) /\ Cardinality(1 .. n) = n
<1>1. 1 \in Int /\ n \in Int
  OBVIOUS
<1>2. IsFiniteSet(1 .. n) /\ Cardinality(1 .. n) = IF 1 > n THEN 0 ELSE n - 1 + 1
  BY <1>1, FS_Interval
<1> QED BY <1>2

(* In an ordered finite set an element's place is a number up to the set's size,
   and no two elements have the same. *)
LEMMA PlaceOf ==
  ASSUME NEW S, IsFiniteSet(S), NEW order, Orders(order, S), NEW x \in S
  PROVE  /\ Place(S, order, x) \in 1 .. Cardinality(S)
         /\ \A y \in S : <<x, y>> \in order => Place(S, order, x) < Place(S, order, y)
<1> DEFINE B(z) == Before(S, order, z)
<1>1. B(x) \subseteq S \ {x}
  BY DEF Before, Orders
<1>2. IsFiniteSet(S \ {x}) /\ Cardinality(S \ {x}) = Cardinality(S) - 1
  BY FS_RemoveElement
<1>3. Cardinality(S) \in Nat
  BY FS_CardinalityType
<1>4. IsFiniteSet(B(x)) /\ Cardinality(B(x)) <= Cardinality(S) - 1
  BY <1>1, <1>2, FS_Subset
<1>5. Cardinality(B(x)) \in Nat
  BY <1>4, FS_CardinalityType
<1>6. ASSUME NEW y \in S, <<x, y>> \in order
      PROVE  Cardinality(B(x)) < Cardinality(B(y))
  <2>1. B(x) \subseteq B(y) /\ x \in B(y) /\ x \notin B(x)
    BY <1>6 DEF Before, Orders
  <2>2. B(y) \subseteq S
    BY DEF Before
  <2>3. IsFiniteSet(B(y))
    BY <2>2, FS_Subset
  <2>4. Cardinality(B(x)) <= Cardinality(B(y)) /\ Cardinality(B(x)) # Cardinality(B(y))
    BY <2>1, <2>3, FS_Subset
  <2>5. Cardinality(B(y)) \in Nat
    BY <2>3, FS_CardinalityType
  <2> QED BY <2>4, <2>5, <1>5
<1>7. \A y \in S : <<x, y>> \in order => Cardinality(B(x)) < Cardinality(B(y))
  BY <1>6
<1>8. \A y \in S : Cardinality(B(y)) \in Nat
  <2> SUFFICES ASSUME NEW y \in S PROVE Cardinality(B(y)) \in Nat
    OBVIOUS
  <2>1. B(y) \subseteq S
    BY DEF Before
  <2> QED BY <2>1, FS_Subset, FS_CardinalityType
<1> HIDE DEF B
<1>9. Cardinality(B(x)) + 1 \in 1 .. Cardinality(S)
  BY <1>3, <1>4, <1>5
<1>10. \A y \in S : <<x, y>> \in order => Cardinality(B(x)) + 1 < Cardinality(B(y)) + 1
  BY <1>5, <1>7, <1>8
<1> QED BY <1>9, <1>10 DEF Place, B

(* Places in an ordered finite set are told apart, and each is taken. *)
LEMMA PlacesDiffer ==
  ASSUME NEW S, IsFiniteSet(S), NEW order, Orders(order, S), NEW x \in S, NEW y \in S,
         Place(S, order, x) = Place(S, order, y)
  PROVE  x = y
<1>1. Place(S, order, x) \in Int
  BY PlaceOf, FS_CardinalityType
<1>2. <<x, y>> \in order => Place(S, order, x) < Place(S, order, y)
  BY PlaceOf
<1>3. <<y, x>> \in order => Place(S, order, y) < Place(S, order, x)
  BY PlaceOf
<1> QED BY <1>1, <1>2, <1>3 DEF Orders

LEMMA PlaceTaken ==
  ASSUME NEW S, IsFiniteSet(S), NEW order, Orders(order, S), NEW k \in 1 .. Cardinality(S)
  PROVE  \E x \in S : Place(S, order, x) = k
<1> DEFINE n == Cardinality(S)
           f == [x \in S |-> Place(S, order, x)]
<1>1. n \in Nat
  BY FS_CardinalityType
<1>2. f \in [S -> 1 .. n]
  BY PlaceOf
<1>3. \A x, y \in S : f[x] = f[y] => x = y
  BY PlacesDiffer
<1>4. f \in Injection(S, 1 .. n)
  BY <1>2, <1>3, Fun_IsInj
<1>5. IsFiniteSet(1 .. n) /\ Cardinality(1 .. n) = n
  BY <1>1, Counted
<1>6. f \in Surjection(S, 1 .. n)
  BY <1>4, <1>5, FS_Injection
<1>7. \A y \in 1 .. n : \E x \in S : f[x] = y
  <2> HIDE DEF f
  <2> QED BY <1>6, Fun_SurjectionProperties, Zenon
<1> QED BY <1>7

(* The first n are at most n. *)
LEMMA FirstAreFew ==
  ASSUME NEW S, IsFiniteSet(S), NEW order, Orders(order, S), NEW n \in Nat
  PROVE  /\ FirstOf(S, order, n) \subseteq S /\ IsFiniteSet(FirstOf(S, order, n))
         /\ Cardinality(FirstOf(S, order, n)) \in 0 .. n
<1> DEFINE F == FirstOf(S, order, n)
           f == [x \in F |-> Place(S, order, x)]
<1>1. F \subseteq S
  BY DEF FirstOf
<1>2. f \in [F -> 1 .. n]
  <2> SUFFICES ASSUME NEW x \in F PROVE Place(S, order, x) \in 1 .. n
    OBVIOUS
  <2>1. Place(S, order, x) \in 1 .. Cardinality(S) /\ Place(S, order, x) <= n
    BY <1>1, PlaceOf DEF FirstOf
  <2> QED BY <2>1, FS_CardinalityType
<1>3. \A x, y \in F : f[x] = f[y] => x = y
  BY <1>1, PlacesDiffer
<1>4. f \in Injection(F, 1 .. n)
  BY <1>2, <1>3, Fun_IsInj
<1>5. IsFiniteSet(1 .. n) /\ Cardinality(1 .. n) = n
  BY Counted
<1>6. IsFiniteSet(F) /\ Cardinality(F) <= n
  BY <1>4, <1>5, FS_Injection
<1>7. Cardinality(F) \in Nat
  BY <1>6, FS_CardinalityType
<1> QED BY <1>1, <1>6, <1>7

(* Who has the first place comes before all others. *)
LEMMA FirstPlace ==
  ASSUME NEW S, IsFiniteSet(S), NEW order, Orders(order, S),
         NEW x \in S, Place(S, order, x) = 1
  PROVE  \A y \in S : y # x => <<x, y>> \in order
<1>1. Before(S, order, x) \subseteq S
  BY DEF Before
<1>2. IsFiniteSet(Before(S, order, x))
  BY <1>1, FS_Subset
<1>3. Cardinality(Before(S, order, x)) = 0
  BY <1>2, FS_CardinalityType DEF Place
<1>4. Before(S, order, x) = {}
  BY <1>2, <1>3, FS_EmptySet
<1> QED BY <1>4 DEF Before, Orders

LEMMA SomeFirst ==
  ASSUME NEW S, IsFiniteSet(S), S # {}, NEW order, Orders(order, S)
  PROVE  \E x \in S : \A y \in S : y # x => <<x, y>> \in order
<1>1. Cardinality(S) \in Nat \ {0}
  BY FS_CardinalityType, FS_EmptySet
<1>2. PICK x \in S : Place(S, order, x) = 1
  BY <1>1, PlaceTaken
<1> QED BY <1>2, FirstPlace

(* A finite set of numbers has a largest and a smallest. *)
LEMMA Largest ==
  ASSUME NEW S, IsFiniteSet(S), S # {}, S \subseteq Int
  PROVE  Max(S) \in S /\ \A y \in S : y <= Max(S)
<1> DEFINE order == {p \in S \X S : p[1] > p[2]}
<1>1. \A a, b \in S : <<a, b>> \in order <=> a > b
  OBVIOUS
<1> HIDE DEF order
<1>2. Orders(order, S)
  BY <1>1 DEF Orders
<1>3. PICK x \in S : \A y \in S : y # x => <<x, y>> \in order
  BY <1>2, SomeFirst
<1>4. \A y \in S : y # x => x > y
  BY <1>1, <1>3, Zenon
<1>5. \A y \in S : x >= y
  BY <1>4
<1> QED BY <1>5 DEF Max

LEMMA Smallest ==
  ASSUME NEW S, IsFiniteSet(S), S # {}, S \subseteq Int
  PROVE  Min(S) \in S /\ \A y \in S : Min(S) <= y
<1> DEFINE order == {p \in S \X S : p[1] < p[2]}
<1>1. \A a, b \in S : <<a, b>> \in order <=> a < b
  OBVIOUS
<1> HIDE DEF order
<1>2. Orders(order, S)
  BY <1>1 DEF Orders
<1>3. PICK x \in S : \A y \in S : y # x => <<x, y>> \in order
  BY <1>2, SomeFirst
<1>4. \A y \in S : y # x => x < y
  BY <1>1, <1>3, Zenon
<1>5. \A y \in S : x <= y
  BY <1>4
<1> QED BY <1>5 DEF Min

LEMMA OfTwo ==
  ASSUME NEW a \in Int, NEW b \in Int
  PROVE  /\ Max({a, b}) = IF a >= b THEN a ELSE b
         /\ Min({a, b}) = IF a <= b THEN a ELSE b
BY DEF Max, Min

(* The first n in order: no more, no less, each in its place. *)
LEMMA InOrderOf ==
  ASSUME NEW S, IsFiniteSet(S), NEW order, Orders(order, S), NEW n \in Nat
  PROVE  LET s == InOrder(S, order, n)
         IN  /\ DOMAIN s = 1 .. Min({n, Cardinality(S)}) /\ Len(s) = Min({n, Cardinality(S)})
             /\ \A k \in DOMAIN s : s[k] \in S /\ Place(S, order, s[k]) = k
<1> DEFINE s == InOrder(S, order, n)
           m == Min({n, Cardinality(S)})
<1>1. Cardinality(S) \in Nat
  BY FS_CardinalityType
<1>2. m \in Nat /\ m <= Cardinality(S)
  BY <1>1, OfTwo
<1>3. DOMAIN s = 1 .. m
  BY DEF InOrder
<1>4. ASSUME NEW k \in 1 .. m PROVE s[k] \in S /\ Place(S, order, s[k]) = k
  <2>1. \E x \in S : Place(S, order, x) = k
    BY <1>1, <1>2, PlaceTaken
  <2>2. s[k] = CHOOSE x \in S : Place(S, order, x) = k
    BY DEF InOrder
  <2> QED BY <2>1, <2>2
<1>5. s = [k \in 1 .. m |-> s[k]]
  BY DEF InOrder
<1>6. s \in [1 .. m -> S]
  BY <1>4, <1>5
<1> HIDE DEF s, m
<1>7. Len(s) = m
  BY <1>2, <1>6
<1> QED BY <1>3, <1>4, <1>7 DEF s, m

-----------------------------------------------------------------------------
(* The drafts of a recommendation. *)

Configs(q) == DOMAIN q.estimator

(* What is examined is told by its id: the number of its vector, and the rung. *)
IsId(id) == id = <<id[1], id[2]>> /\ id[1] \in 1 .. 6 /\ id[2] \in 0 .. 4 \cup {Nothing}
ToldById(D) == (\A d \in D : IsId(d.id)) /\ (\A d, e \in D : d.id = e.id => d = e)

LEMMA ConfigFacts ==
  ASSUME NEW q, IsQuestion(q), NEW c \in Configs(q)
  PROVE  /\ c = [offload |-> c.offload, context |-> c.context]
         /\ c.offload \in 0 .. 4 \cup {Nothing} /\ c.context \in Figure
         /\ q.estimator[c] # Nothing => IsEstimate(q.estimator[c])
<1> DEFINE contexts == {x.context : x \in DOMAIN q.estimator}
<1>1. DOMAIN q.estimator = [offload : 0 .. 4 \cup {Nothing}, context : contexts] /\ contexts \subseteq Figure
  BY DEF IsQuestion, GPU_OFFLOAD_LADDER
<1>2. q.estimator[c] # Nothing => IsEstimate(q.estimator[c])
  BY DEF IsQuestion, Configs
<1> HIDE DEF contexts
<1> QED BY <1>1, <1>2 DEF Configs

LEMMA Lowered ==
  ASSUME NEW q, IsQuestion(q), NEW c \in Configs(q), NEW s \in 0 .. 4
  PROVE  /\ [c EXCEPT !.offload = s] = [offload |-> s, context |-> c.context]
         /\ [c EXCEPT !.offload = s] \in Configs(q)
<1> DEFINE contexts == {x.context : x \in DOMAIN q.estimator}
<1>1. DOMAIN q.estimator = [offload : 0 .. 4 \cup {Nothing}, context : contexts]
  BY DEF IsQuestion, GPU_OFFLOAD_LADDER
<1> HIDE DEF contexts
<1>2. c \in [offload : 0 .. 4 \cup {Nothing}, context : contexts]
  BY <1>1 DEF Configs
<1>3. [c EXCEPT !.offload = s] = [offload |-> s, context |-> c.context]
  BY <1>2
<1>4. [c EXCEPT !.offload = s] \in [offload : 0 .. 4 \cup {Nothing}, context : contexts]
  BY <1>2
<1> QED BY <1>1, <1>3, <1>4 DEF Configs

LEMMA QuestionFacts ==
  ASSUME NEW q, IsQuestion(q)
  PROVE  q.base \in Configs(q) /\ Len(q.rule.hints) \in Nat /\ DOMAIN q.rule.hints = 1 .. Len(q.rule.hints)
<1>1. q.base \in Configs(q) /\ q.rule.hints \in Seq([key : {"offload", "context"}, min : Nat, max : Nat])
  BY DEF IsQuestion, Configs
<1> QED BY <1>1

LEMMA VectorsOf ==
  ASSUME NEW n \in Nat
  PROVE  /\ DOMAIN quantileVectors(n) \subseteq 1 .. 6
         /\ \A i \in DOMAIN quantileVectors(n) : quantileVectors(n)[i] \in [1 .. n -> 0 .. 2]
<1> DEFINE all(a) == [i \in 1 .. n |-> a]
           split(a, b) == [i \in 1 .. n |-> IF 2 * i <= n + 1 THEN a ELSE b]
<1>1. \A a \in 0 .. 2 : all(a) \in [1 .. n -> 0 .. 2]
  OBVIOUS
<1>2. \A a, b \in 0 .. 2 : split(a, b) \in [1 .. n -> 0 .. 2]
  OBVIOUS
<1>3. quantileVectors(n) = CASE n = 0 -> <<all(0)>>
        [] n = 1 -> <<all(0), all(1), all(2)>>
        [] OTHER -> <<all(0), all(1), all(2), split(1, 0), split(1, 2), split(2, 0)>>
  BY DEF quantileVectors
<1> HIDE DEF all, split
<1>4. CASE n = 0
  BY <1>1, <1>3, <1>4
<1>5. CASE n = 1
  BY <1>1, <1>3, <1>5
<1>6. CASE n # 0 /\ n # 1
  BY <1>1, <1>2, <1>3, <1>6
<1> QED BY <1>4, <1>5, <1>6

LEMMA HintsLaid ==
  ASSUME NEW q, IsQuestion(q), NEW v \in [1 .. Len(q.rule.hints) -> 0 .. 2]
  PROVE  applyHints(q.base, q.rule.hints, v) \in Configs(q)
<1> DEFINE hints == q.rule.hints
           at(key) == CHOOSE j \in DOMAIN hints : hints[j].key = key
           hinted == {hints[j].key : j \in DOMAIN hints}
           contexts == {c.context : c \in DOMAIN q.estimator}
           value(key) == IF key \in hinted THEN valueAt(hints[at(key)], v[at(key)]) ELSE q.base[key]
<1>1. DOMAIN q.estimator = [offload : 0 .. 4 \cup {Nothing}, context : contexts] /\ q.base \in DOMAIN q.estimator
  BY DEF IsQuestion, GPU_OFFLOAD_LADDER
<1>2. \A j \in DOMAIN hints : \A k \in 0 .. 2 :
        valueAt(hints[j], k) \in IF hints[j].key = "offload" THEN 0 .. 4 ELSE contexts \ {Nothing}
  BY DEF IsQuestion, GPU_OFFLOAD_LADDER
<1>3. DOMAIN hints = 1 .. Len(hints)
  BY QuestionFacts
<1>4. ASSUME NEW key, key \in hinted
      PROVE  valueAt(hints[at(key)], v[at(key)]) \in IF key = "offload" THEN 0 .. 4 ELSE contexts \ {Nothing}
  <2>1. at(key) \in DOMAIN hints /\ hints[at(key)].key = key
    BY <1>4
  <2> HIDE DEF at, hints, contexts
  <2>2. v[at(key)] \in 0 .. 2
    BY <1>3, <2>1 DEF hints
  <2> QED BY <1>2, <2>1, <2>2
<1>5. applyHints(q.base, hints, v) = [key \in DOMAIN q.base |-> value(key)]
  BY DEF applyHints
<1>6. DOMAIN q.base = {"offload", "context"} /\ q.base.offload \in 0 .. 4 \cup {Nothing} /\ q.base.context \in contexts
  BY <1>1
<1>7. value("offload") \in 0 .. 4 \cup {Nothing} /\ value("context") \in contexts
  BY <1>4, <1>6
<1> HIDE DEF value, contexts, hints
<1>8. [key \in {"offload", "context"} |-> value(key)] = [offload |-> value("offload"), context |-> value("context")]
  OBVIOUS
<1>9. [offload |-> value("offload"), context |-> value("context")] \in [offload : 0 .. 4 \cup {Nothing}, context : contexts]
  BY <1>7
<1> QED BY <1>1, <1>5, <1>6, <1>8, <1>9 DEF Configs, hints

LEMMA DraftsOf ==
  ASSUME NEW q, IsQuestion(q), NEW d \in generateCandidateDrafts(q.base, q.rule)
  PROVE  /\ d = [id |-> d.id, config |-> d.config]
         /\ d.id = <<d.id[1], Nothing>> /\ d.id[1] \in 1 .. 6 /\ d.config \in Configs(q)
         /\ \A e \in generateCandidateDrafts(q.base, q.rule) : d.id = e.id => d = e
<1> DEFINE vectors == quantileVectors(Len(q.rule.hints))
           I == IF q.rule.architectureFits THEN DOMAIN vectors ELSE {}
           config(i) == applyHints(q.base, q.rule.hints, vectors[i])
<1>1. I \subseteq 1 .. 6 /\ \A i \in I : vectors[i] \in [1 .. Len(q.rule.hints) -> 0 .. 2]
  BY QuestionFacts, VectorsOf
<1>2. \A i \in I : config(i) \in Configs(q)
  BY <1>1, HintsLaid
<1>3. generateCandidateDrafts(q.base, q.rule) = {[id |-> <<i, Nothing>>, config |-> config(i)] : i \in I}
  BY DEF generateCandidateDrafts
<1> HIDE DEF config, I
<1> QED BY <1>1, <1>2, <1>3

LEMMA LooksApart ==
  ASSUME NEW a, NEW b, IsId(a), IsId(b)
  PROVE  LooksAt(a) \in 1 .. 65 /\ (LooksAt(a) = LooksAt(b) => a = b)
<1>1. LooksAt(a) = 10 * a[1] + (IF a[2] = Nothing THEN 0 ELSE 5 - a[2])
  BY DEF LooksAt
<1>2. LooksAt(b) = 10 * b[1] + (IF b[2] = Nothing THEN 0 ELSE 5 - b[2])
  BY DEF LooksAt
<1>3. a[1] \in 1 .. 6 /\ b[1] \in 1 .. 6 /\ a[2] \in 0 .. 4 \cup {Nothing} /\ b[2] \in 0 .. 4 \cup {Nothing}
  BY DEF IsId
<1>4. LooksAt(a) \in 1 .. 65
  BY <1>1, <1>3, NothingAssumption
<1>5. LooksAt(a) = LooksAt(b) => a[1] = b[1] /\ a[2] = b[2]
  BY <1>1, <1>2, <1>3, NothingAssumption
<1> QED BY <1>4, <1>5 DEF IsId

(* What is told by its id is finite, and looked at in an order. *)
LEMMA ToldIsOrdered ==
  ASSUME NEW D, ToldById(D)
  PROVE  IsFiniteSet(D) /\ Orders(LookedAt(D), D)
<1> DEFINE f == [d \in D |-> LooksAt(d.id)]
<1>1. f \in [D -> 1 .. 65]
  BY LooksApart DEF ToldById
<1>2. \A a, b \in D : LooksAt(a.id) = LooksAt(b.id) => a = b
  BY LooksApart DEF ToldById
<1>3. f \in Injection(D, 1 .. 65)
  BY <1>1, <1>2, Fun_IsInj
<1>4. IsFiniteSet(D)
  <2> DEFINE n == 65
  <2>1. n \in Nat
    OBVIOUS
  <2>2. f \in Injection(D, 1 .. n)
    BY <1>3
  <2> HIDE DEF n, f
  <2>3. IsFiniteSet(1 .. n)
    BY <2>1, Counted
  <2> QED BY <2>2, <2>3, FS_Injection
<1>5. \A a, b \in D : <<a, b>> \in LookedAt(D) <=> LooksAt(a.id) < LooksAt(b.id)
  BY DEF LookedAt
<1>6. \A a \in D : LooksAt(a.id) \in Int
  BY LooksApart DEF ToldById
<1> QED BY <1>2, <1>4, <1>5, <1>6 DEF Orders

LEMMA RungsOf ==
  ASSUME NEW q, IsQuestion(q), NEW d, d.config \in Configs(q), NEW r \in Rungs(d)
  PROVE  \E s \in 0 .. 4 : /\ r = [id |-> <<d.id[1], s>>, config |-> [d.config EXCEPT !.offload = s]]
                           /\ r.config \in Configs(q)
<1>1. PICK s \in 0 .. 4 : r = offloadVariant(d, s)
  BY DEF Rungs, GPU_OFFLOAD_LADDER
<1>2. [d.config EXCEPT !.offload = s] \in Configs(q)
  BY Lowered
<1> QED BY <1>1, <1>2 DEF offloadVariant

LEMMA EstimatesOf ==
  ASSUME NEW D, ToldById(D), NEW estimator
  PROVE  \A id : id \in DOMAIN Estimates(D, estimator) <=> \E d \in D : d.id = id /\ estimator[d.config] # Nothing
<1> QED BY DEF Estimates

LEMMA EstimateOf ==
  ASSUME NEW D, ToldById(D), NEW estimator, NEW d \in D, d.id \in DOMAIN Estimates(D, estimator)
  PROVE  Estimates(D, estimator)[d.id] = estimator[d.config] /\ estimator[d.config] # Nothing
<1>1. PICK e \in D : e.id = d.id /\ estimator[e.config] # Nothing
  BY EstimatesOf
<1>2. e = d
  BY <1>1 DEF ToldById
<1>3. (CHOOSE x \in D : x.id = d.id) = d
  BY DEF ToldById
<1>4. Estimates(D, estimator)[d.id] = estimator[(CHOOSE x \in D : x.id = d.id).config]
  BY DEF Estimates
<1> QED BY <1>1, <1>2, <1>3, <1>4

LEMMA PlannedOf ==
  ASSUME NEW q, IsQuestion(q), NEW D, D \subseteq generateCandidateDrafts(q.base, q.rule),
         NEW r \in UNION {Rungs(d) : d \in D}
  PROVE  /\ r = [id |-> r.id, config |-> r.config] /\ IsId(r.id) /\ r.id[2] \in 0 .. 4 /\ r.config \in Configs(q)
         /\ \A x \in UNION {Rungs(d) : d \in D} : r.id = x.id => r = x
<1>1. PICK d \in D : r \in Rungs(d)
  OBVIOUS
<1>2. d.id = <<d.id[1], Nothing>> /\ d.id[1] \in 1 .. 6 /\ d.config \in Configs(q)
  BY DraftsOf
<1>3. PICK s \in 0 .. 4 : r = [id |-> <<d.id[1], s>>, config |-> [d.config EXCEPT !.offload = s]] /\ r.config \in Configs(q)
  BY <1>1, <1>2, RungsOf
<1>4. ASSUME NEW x \in UNION {Rungs(y) : y \in D}, r.id = x.id PROVE r = x
  <2>1. PICK e \in D : x \in Rungs(e)
    OBVIOUS
  <2>2. e.id = <<e.id[1], Nothing>> /\ e.config \in Configs(q)
    BY DraftsOf
  <2>3. PICK t \in 0 .. 4 : x = [id |-> <<e.id[1], t>>, config |-> [e.config EXCEPT !.offload = t]]
    BY <2>1, <2>2, RungsOf
  <2>4. e.id[1] = d.id[1] /\ t = s
    BY <1>3, <1>4, <2>3
  <2>5. e = d
    BY <1>2, <2>2, <2>4, DraftsOf
  <2> QED BY <1>3, <2>3, <2>4, <2>5
<1>5. r.id = <<d.id[1], s>>
  BY <1>3
<1>6. IsId(r.id) /\ r.id[2] \in 0 .. 4
  BY <1>2, <1>5 DEF IsId
<1> QED BY <1>3, <1>4, <1>6

(* Everything that is examined is told by its id, the estimates are what the
   estimator knows of it, and the calls are within the budget. *)
LEMMA ExaminedOf ==
  ASSUME NEW q, IsQuestion(q)
  PROVE  LET a == Examined(q)
         IN  /\ ToldById(a.drafts)
             /\ \A d \in a.drafts : d = [id |-> d.id, config |-> d.config] /\ d.config \in Configs(q)
             /\ \A d \in a.drafts : d.id \in DOMAIN a.estimates =>
                  a.estimates[d.id] = q.estimator[d.config] /\ IsEstimate(a.estimates[d.id])
             /\ a.calls \in 0 .. MAX_ESTIMATE_CALLS
<1> DEFINE drafts == generateCandidateDrafts(q.base, q.rule)
           kept == filterByHardConstraints(drafts, q.rule)
           asked == FirstOf(kept, LookedAt(kept), MAX_ESTIMATE_CALLS)
           first == Estimates(asked, q.estimator)
           lowered == {d \in kept : /\ d.id \in DOMAIN first /\ first[d.id].exact
                                    /\ classifyResourceFit(first[d.id], q.host) # "gpu-resident"}
           planned == UNION {Rungs(d) : d \in lowered}
           budget == MAX_ESTIMATE_CALLS - Cardinality(asked)
           extra == FirstOf(planned, LookedAt(planned), budget)
           second == Estimates(extra, q.estimator)
           estimates == [id \in DOMAIN first \cup DOMAIN second |-> IF id \in DOMAIN first THEN first[id] ELSE second[id]]
           calls == Cardinality(asked) + Cardinality(extra)
<1>1. Examined(q) = [drafts |-> drafts \cup extra, estimates |-> estimates, calls |-> calls]
  BY DEF Examined, planLadderFallback
<1>2. ToldById(drafts) /\ \A d \in drafts : /\ d = [id |-> d.id, config |-> d.config] /\ d.config \in Configs(q)
                                           /\ d.id = <<d.id[1], Nothing>>
  BY DraftsOf DEF ToldById, IsId
<1>3. kept \subseteq drafts /\ ToldById(kept)
  BY <1>2 DEF filterByHardConstraints, ToldById
<1>4. asked \subseteq kept /\ Cardinality(asked) \in 0 .. MAX_ESTIMATE_CALLS /\ ToldById(asked)
  <2>1. IsFiniteSet(kept) /\ Orders(LookedAt(kept), kept)
    BY <1>3, ToldIsOrdered
  <2>2. MAX_ESTIMATE_CALLS \in Nat
    BY DEF MAX_ESTIMATE_CALLS
  <2>3. asked \subseteq kept /\ Cardinality(asked) \in 0 .. MAX_ESTIMATE_CALLS
    BY <2>1, <2>2, FirstAreFew
  <2> QED BY <1>3, <2>3 DEF ToldById
<1>5. \A r \in planned : /\ r = [id |-> r.id, config |-> r.config] /\ IsId(r.id) /\ r.id[2] \in 0 .. 4
                        /\ r.config \in Configs(q) /\ \A x \in planned : r.id = x.id => r = x
  <2>1. lowered \subseteq drafts
    BY <1>3
  <2> HIDE DEF lowered, drafts
  <2> QED BY <2>1, PlannedOf DEF drafts
<1> HIDE DEF planned
<1>6. extra \subseteq planned /\ Cardinality(extra) \in 0 .. budget /\ ToldById(extra)
  <2>1. ToldById(planned)
    BY <1>5 DEF ToldById
  <2>2. IsFiniteSet(planned) /\ Orders(LookedAt(planned), planned)
    BY <2>1, ToldIsOrdered
  <2>3. budget \in Nat
    BY <1>4 DEF MAX_ESTIMATE_CALLS
  <2>4. extra \subseteq planned /\ Cardinality(extra) \in 0 .. budget
    BY <2>2, <2>3, FirstAreFew
  <2> QED BY <2>1, <2>4 DEF ToldById
<1>7. calls \in 0 .. MAX_ESTIMATE_CALLS
  BY <1>4, <1>6 DEF MAX_ESTIMATE_CALLS
<1>8. \A d \in drafts : \A e \in extra : d.id # e.id
  <2>1. \A d \in drafts : d.id[2] = Nothing
    BY <1>2
  <2> QED BY <1>5, <1>6, <2>1, NothingAssumption
<1> HIDE DEF drafts
<1>9. ToldById(drafts \cup extra)
  BY <1>2, <1>6, <1>8 DEF ToldById
<1>10. \A d \in drafts \cup extra : d = [id |-> d.id, config |-> d.config] /\ d.config \in Configs(q)
  BY <1>2, <1>5, <1>6
<1>11. ASSUME NEW d \in drafts \cup extra, d.id \in DOMAIN estimates
       PROVE  estimates[d.id] = q.estimator[d.config] /\ q.estimator[d.config] # Nothing
  <2>1. CASE d.id \in DOMAIN first
    <3>1. PICK x \in asked : x.id = d.id
      BY <1>4, <2>1, EstimatesOf
    <3>2. x = d
      BY <1>3, <1>4, <1>9, <3>1 DEF ToldById
    <3> HIDE DEF asked, first
    <3>3. estimates[d.id] = first[d.id]
      BY <2>1
    <3> QED BY <1>4, <2>1, <3>1, <3>2, <3>3, EstimateOf DEF first
  <2>2. CASE d.id \in DOMAIN second /\ d.id \notin DOMAIN first
    <3>1. PICK x \in extra : x.id = d.id
      BY <1>6, <2>2, EstimatesOf
    <3>2. x = d
      BY <1>9, <3>1 DEF ToldById
    <3> HIDE DEF extra, first, second
    <3>3. estimates[d.id] = second[d.id]
      BY <2>2
    <3> QED BY <1>6, <2>2, <3>1, <3>2, <3>3, EstimateOf DEF second
  <2> QED BY <1>11, <2>1, <2>2
<1> HIDE DEF extra, calls, estimates
<1>12. \A d \in drafts \cup extra : d.id \in DOMAIN estimates =>
         estimates[d.id] = q.estimator[d.config] /\ IsEstimate(estimates[d.id])
  BY <1>10, <1>11, ConfigFacts
<1> QED BY <1>1, <1>7, <1>9, <1>10, <1>12

LEMMA Quotient ==
  ASSUME NEW a \in Int, NEW b \in Nat \ {0}
  PROVE  a \div b \in Int
OBVIOUS

LEMMA SumOfFour ==
  ASSUME NEW a \in Nat, NEW b \in Nat, NEW c \in Nat, NEW d \in Nat, a > 0 \/ b > 0 \/ c > 0 \/ d > 0
  PROVE  a + b + c + d \in Nat \ {0}
OBVIOUS

LEMMA Clamped ==
  ASSUME NEW x \in Int, NEW low \in Int, NEW high \in Int
  PROVE  Clamp(x, low, high) \in Int
<1>1. Min({x, high}) \in Int
  BY OfTwo
<1>2. Max({low, Min({x, high})}) \in Int
  <2> DEFINE m == Min({x, high})
  <2> HIDE DEF m
  <2>1. Max({low, m}) \in Int
    BY <1>1, OfTwo DEF m
  <2> QED BY <2>1 DEF m
<1> QED BY <1>2 DEF Clamp

(* What is safe was estimated exactly, fits the free VRAM, and the host has
   what the rule asks for at least. *)
LEMMA SafeIs ==
  ASSUME NEW e, IsEstimate(e), NEW h, h.vramFree \in Figure, NEW rule, rule.minVram \in Figure,
         computeSafetyMargin(e, h, rule) = "safe"
  PROVE  /\ e.exact /\ e.vram \in Nat /\ h.vramFree \in Nat /\ e.vram <= h.vramFree
         /\ rule.minVram # Nothing => h.vramFree >= rule.minVram
BY DEF computeSafetyMargin, MarginWithoutFloor, IsEstimate, Figure

LEMMA ScoreOf ==
  ASSUME NEW q, IsQuestion(q), NEW c \in Configs(q), NEW e, e.vram \in Nat, q.host.vramFree \in Nat
  PROVE  LET s == scoreCandidate(c, q.rule, e, q.host)
         IN  s = [total |-> s.total, confidence |-> s.confidence, measured |-> FALSE] /\ s.total \in Int
<1> DEFINE h == q.host
           w == q.rule.weights
           b == breakdown(c, e, h)
           neutral(v, x) == IF v = Nothing THEN 500 ELSE x
           context == neutral(c.context, Clamp(c.context, 0, 8) * 125)
           sum == w[1] + w[2] + w[3] + w[4]
           weighed == w[1] * b.vramEfficiency + w[2] * b.latency + w[3] * b.throughput + w[4] * b.quality
<1>1. /\ c.offload \in 0 .. 4 \cup {Nothing} /\ c.context \in Nat \cup {Nothing}
  BY ConfigFacts DEF Figure
<1>2. w \in [1 .. 4 -> Nat] /\ \E k \in 1 .. 4 : w[k] > 0
  BY DEF IsQuestion
<1>3. sum \in Nat \ {0}
  <2>1. w[1] \in Nat /\ w[2] \in Nat /\ w[3] \in Nat /\ w[4] \in Nat
    BY <1>2
  <2>2. w[1] > 0 \/ w[2] > 0 \/ w[3] > 0 \/ w[4] > 0
    <3>1. PICK k \in 1 .. 4 : w[k] > 0
      BY <1>2
    <3>2. k = 1 \/ k = 2 \/ k = 3 \/ k = 4
      OBVIOUS
    <3> HIDE DEF w
    <3> QED BY <3>1, <3>2
  <2> QED BY <2>1, <2>2, SumOfFour
<1>4. context \in Int
  <2>1. CASE c.context = Nothing
    BY <2>1
  <2>2. CASE c.context \in Nat
    <3>1. c.context \in Int /\ 0 \in Int /\ 8 \in Int
      BY <2>2
    <3>2. Clamp(c.context, 0, 8) \in Int
      BY <3>1, Clamped
    <3> QED BY <3>2
  <2> QED BY <1>1, <2>1, <2>2
<1>5. (IF h.vramFree = 0 THEN 500 ELSE Clamp(1000 - (1000 * e.vram) \div h.vramFree, 0, 1000)) \in Int
  <2>1. CASE h.vramFree = 0
    BY <2>1
  <2>2. CASE h.vramFree # 0
    <3>1. (1000 * e.vram) \div h.vramFree \in Int
      BY <2>2, Quotient
    <3>2. 1000 - (1000 * e.vram) \div h.vramFree \in Int
      BY <3>1
    <3>3. Clamp(1000 - (1000 * e.vram) \div h.vramFree, 0, 1000) \in Int
      BY <3>2, Clamped
    <3> QED BY <2>2, <3>3
  <2> QED BY <2>1, <2>2
<1>6. (neutral(c.offload, 250 * c.offload) + neutral(c.context, 1000 - context)) \div 2 \in Int
  <2> HIDE DEF context
  <2>1. neutral(c.offload, 250 * c.offload) \in Int /\ neutral(c.context, 1000 - context) \in Int
    BY <1>1, <1>4
  <2> HIDE DEF neutral
  <2>2. neutral(c.offload, 250 * c.offload) + neutral(c.context, 1000 - context) \in Int
    BY <2>1
  <2> QED BY <2>2, Quotient
<1>7. (context + 500) \div 2 \in Int
  <2> HIDE DEF context
  <2> QED BY <1>4
<1>8. b = [vramEfficiency |-> IF h.vramFree = 0 THEN 500 ELSE Clamp(1000 - (1000 * e.vram) \div h.vramFree, 0, 1000),
           latency |-> (neutral(c.offload, 250 * c.offload) + neutral(c.context, 1000 - context)) \div 2,
           throughput |-> 500,
           quality |-> (context + 500) \div 2]
  BY DEF breakdown
<1>9. b.vramEfficiency \in Int /\ b.latency \in Int /\ b.throughput \in Int /\ b.quality \in Int
  BY <1>5, <1>6, <1>7, <1>8
<1> HIDE DEF b
<1>10. weighed \in Int
  <2>1. w[1] \in Int /\ w[2] \in Int /\ w[3] \in Int /\ w[4] \in Int
    BY <1>2
  <2> HIDE DEF w
  <2> QED BY <1>9, <2>1
<1>11. weighed \div sum \in Int
  <2> HIDE DEF weighed, sum
  <2> QED BY <1>3, <1>10, Quotient
<1> HIDE DEF weighed, sum
<1>12. scoreCandidate(c, q.rule, e, q.host) =
         [total |-> weighed \div sum,
          confidence |-> IF e.exact /\ computeSafetyMargin(e, h, q.rule) = "safe"
                            /\ q.rule.support # "unknown" THEN "high" ELSE "low",
          measured |-> FALSE]
  BY DEF scoreCandidate, weighed, sum, b
<1> QED BY <1>11, <1>12

LEMMA FiniteImage ==
  ASSUME NEW f, IsFiniteSet(DOMAIN f)
  PROVE  IsFiniteSet({f[x] : x \in DOMAIN f})
<1> DEFINE D == DOMAIN f
           T == {f[x] : x \in D}
           g == [x \in D |-> f[x]]
<1>1. g \in [D -> T] /\ \A y \in T : \E x \in D : g[x] = y
  OBVIOUS
<1>2. g \in Surjection(D, T)
  BY <1>1, Fun_IsSurj
<1> HIDE DEF g, T
<1>3. IsFiniteSet(T)
  BY <1>2, FS_Surjection
<1> QED BY <1>3 DEF T

LEMMA LogIsFinite ==
  ASSUME NEW q, IsQuestion(q)
  PROVE  IsFiniteSet(DOMAIN q.records)
<1> DEFINE n == Len(q.records)
<1>1. q.records \in Seq({q.records[i] : i \in DOMAIN q.records})
  BY DEF IsQuestion
<1>2. DOMAIN q.records = 1 .. n /\ n \in Nat
  BY <1>1
<1> HIDE DEF n
<1> QED BY <1>2, Counted

(* The evidence for a configuration is a completed measurement of it that has a
   decode throughput, and is there if the log holds one. *)
LEMMA EvidenceOf ==
  ASSUME NEW q, IsQuestion(q), NEW c
  PROVE  LET r == matchMeasuredEvidence(q.records, c, q.host)
         IN  /\ r # Nothing => /\ r \in {q.records[i] : i \in DOMAIN q.records}
                               /\ r.decode \in Nat /\ r.ttft \in Figure
             /\ (\E i \in DOMAIN q.records : Matches(q.records[i], c, q.host)) => r # Nothing
<1> DEFINE records == q.records
           matching == {i \in DOMAIN records : Matches(records[i], c, q.host)}
           later == {p \in matching \X matching :
                       records[p[2]].at < records[p[1]].at
                       \/ (records[p[1]].at = records[p[2]].at /\ p[2] < p[1])}
           newest(i) == \A j \in matching :
             records[j].at < records[i].at \/ (records[j].at = records[i].at /\ j <= i)
<1>1. records \in Seq({records[i] : i \in DOMAIN records}) /\ \A i \in DOMAIN records : IsRecord(records[i])
  BY DEF IsQuestion
<1>2. DOMAIN records = 1 .. Len(records) /\ Len(records) \in Nat
  BY <1>1
<1>3. IsFiniteSet(matching)
  <2>1. IsFiniteSet(DOMAIN records) /\ matching \subseteq DOMAIN records
    BY LogIsFinite
  <2> QED BY <2>1, FS_Subset
<1>4. \A i \in matching : i \in Int /\ records[i].at \in Int
  BY <1>1, <1>2 DEF IsRecord
<1> HIDE DEF matching
<1>5. \A i, j \in matching :
        <<i, j>> \in later <=> (records[j].at < records[i].at \/ (records[i].at = records[j].at /\ j < i))
  OBVIOUS
<1> HIDE DEF later
<1>6. Orders(later, matching)
  BY <1>4, <1>5 DEF Orders
<1>7. ASSUME matching # {}
      PROVE  \E i \in matching : newest(i)
  <2>1. PICK i \in matching : \A j \in matching : j # i => <<i, j>> \in later
    BY <1>3, <1>6, <1>7, SomeFirst
  <2>2. \A j \in matching : j # i => (records[j].at < records[i].at \/ (records[i].at = records[j].at /\ j < i))
    BY <1>5, <2>1, Zenon
  <2> QED BY <1>4, <2>2
<1>8. matchMeasuredEvidence(records, c, q.host) =
        IF matching = {} THEN Nothing ELSE records[CHOOSE i \in matching : newest(i)]
  BY DEF matchMeasuredEvidence, matching
<1>9. ASSUME NEW i \in matching
      PROVE  /\ i \in DOMAIN records /\ records[i] # Nothing
             /\ records[i].decode \in Nat /\ records[i].ttft \in Figure
  <2>1. i \in DOMAIN records /\ Matches(records[i], c, q.host)
    BY DEF matching
  <2>2. IsRecord(records[i])
    BY <1>1, <2>1
  <2> QED BY <2>1, <2>2 DEF Matches, IsRecord, Figure
<1>10. CASE matching = {}
  BY <1>8, <1>10 DEF matching
<1>11. CASE matching # {}
  <2> DEFINE i == CHOOSE x \in matching : newest(x)
  <2>1. i \in matching
    BY <1>7, <1>11
  <2>2. matchMeasuredEvidence(records, c, q.host) = records[i]
    BY <1>8, <1>11
  <2> HIDE DEF i
  <2> QED BY <1>9, <2>1, <2>2
<1> QED BY <1>10, <1>11

LEMMA BlendIs ==
  ASSUME NEW r, r.decode \in Nat, r.ttft \in Figure, NEW maxDecode \in Nat, NEW maxTtft \in Figure
  PROVE  measuredBlend(r, maxDecode, maxTtft) \in Int
<1> DEFINE decode == IF maxDecode = 0 THEN 0 ELSE (1000 * r.decode) \div maxDecode
           ttft == IF Nothing \in {r.ttft, maxTtft} \/ maxTtft = 0 THEN 500
                   ELSE 1000 - (1000 * r.ttft) \div maxTtft
<1>1. decode \in Int
  <2>1. CASE maxDecode = 0
    BY <2>1
  <2>2. CASE maxDecode # 0
    BY <2>2, Quotient
  <2> QED BY <2>1, <2>2
<1>2. ttft \in Int
  <2>1. CASE Nothing \in {r.ttft, maxTtft} \/ maxTtft = 0
    BY <2>1
  <2>2. CASE ~(Nothing \in {r.ttft, maxTtft} \/ maxTtft = 0)
    <3>1. r.ttft \in Nat /\ maxTtft \in Nat \ {0}
      BY <2>2 DEF Figure
    <3>2. (1000 * r.ttft) \div maxTtft \in Int
      BY <3>1, Quotient
    <3> QED BY <2>2, <3>2
  <2> QED BY <2>1, <2>2
<1>3. measuredBlend(r, maxDecode, maxTtft) = (7 * decode + 3 * ttft) \div 10
  BY DEF measuredBlend
<1> HIDE DEF decode, ttft
<1> QED BY <1>1, <1>2, <1>3, Quotient

(* Ids have different ranks. *)
LEMMA RanksApart ==
  ASSUME NEW a, NEW b, IsId(a), IsId(b)
  PROVE  IdRank(a) \in Int /\ (IdRank(a) = IdRank(b) => a = b)
<1> DEFINE place(x) == CASE x[1] = 2 /\ x[2] # Nothing -> 6
                         [] OTHER -> <<7, 3, 2, 5, 4, 1>>[x[1]]
           rung(x) == IF x[2] = Nothing THEN 0 ELSE 1 + x[2]
           six == 1 .. 6
<1>1. a[1] \in 1 .. 6 /\ b[1] \in 1 .. 6 /\ a[2] \in 0 .. 4 \cup {Nothing} /\ b[2] \in 0 .. 4 \cup {Nothing}
  BY DEF IsId
<1>2. IdRank(a) = 10 * place(a) + rung(a) /\ IdRank(b) = 10 * place(b) + rung(b)
  BY DEF IdRank
<1>3. rung(a) \in 0 .. 5 /\ rung(b) \in 0 .. 5 /\ (rung(a) = rung(b) => a[2] = b[2])
  BY <1>1, NothingAssumption
<1>4. \A x : x[1] \in 1 .. 6 => /\ place(x) \in 1 .. 7
                                /\ x[1] = 2 /\ x[2] # Nothing => place(x) = 6
                                /\ ~(x[1] = 2 /\ x[2] # Nothing) =>
                                     /\ x[1] = 1 => place(x) = 7
                                     /\ x[1] = 2 => place(x) = 3
                                     /\ x[1] = 3 => place(x) = 2
                                     /\ x[1] = 4 => place(x) = 5
                                     /\ x[1] = 5 => place(x) = 4
                                     /\ x[1] = 6 => place(x) = 1
  OBVIOUS
<1> HIDE DEF place, rung
<1>5. place(a) \in 1 .. 7 /\ place(b) \in 1 .. 7 /\ (place(a) = place(b) => a[1] = b[1])
  BY <1>1, <1>4
<1>6. IdRank(a) \in Int /\ (IdRank(a) = IdRank(b) => place(a) = place(b) /\ rung(a) = rung(b))
  BY <1>2, <1>3, <1>5
<1>7. IdRank(a) = IdRank(b) => a[1] = b[1] /\ a[2] = b[2]
  BY <1>3, <1>5, <1>6
<1> QED BY <1>6, <1>7 DEF IsId

(* Candidates that are told by their ids, with a score of numbers, are ranked in
   an order. *)
Scored(all) ==
  /\ \A x \in all : /\ IsId(x.id) /\ x.score.measured \in BOOLEAN /\ x.score.total \in Int
  /\ \A x, y \in all : x.id = y.id => x = y

LEMMA RankingOrders ==
  ASSUME NEW all, Scored(all)
  PROVE  /\ Orders({p \in all \X all : RanksBefore(p[1], p[2])}, all)
         /\ \A x, y \in all : <<x, y>> \in {p \in all \X all : RanksBefore(p[1], p[2])} <=> RanksBefore(x, y)
<1> DEFINE order == {p \in all \X all : RanksBefore(p[1], p[2])}
           M(x) == IF x.score.measured THEN 1 ELSE 0
           T(x) == x.score.total
           R(x) == IdRank(x.id)
<1>1. \A x, y \in all : <<x, y>> \in order <=> RanksBefore(x, y)
  OBVIOUS
<1>2. \A x \in all : M(x) \in 0 .. 1 /\ T(x) \in Int /\ R(x) \in Int
  BY RanksApart DEF Scored
<1>3. \A x, y \in all : R(x) = R(y) => x = y
  BY RanksApart DEF Scored
<1>4. \A x, y \in all : RanksBefore(x, y) <=>
        \/ M(x) > M(y)
        \/ M(x) = M(y) /\ T(x) > T(y)
        \/ M(x) = M(y) /\ T(x) = T(y) /\ R(x) < R(y)
  <2> SUFFICES ASSUME NEW x \in all, NEW y \in all
               PROVE  RanksBefore(x, y) <=>
                        \/ M(x) > M(y)
                        \/ M(x) = M(y) /\ T(x) > T(y)
                        \/ M(x) = M(y) /\ T(x) = T(y) /\ R(x) < R(y)
    OBVIOUS
  <2>1. x.score.measured \in BOOLEAN /\ y.score.measured \in BOOLEAN /\ T(x) \in Int /\ T(y) \in Int
    BY DEF Scored
  <2>2. CASE x.score.measured = TRUE /\ y.score.measured = TRUE
    BY <2>1, <2>2 DEF RanksBefore
  <2>3. CASE x.score.measured = TRUE /\ y.score.measured = FALSE
    BY <2>1, <2>3 DEF RanksBefore
  <2>4. CASE x.score.measured = FALSE /\ y.score.measured = TRUE
    BY <2>1, <2>4 DEF RanksBefore
  <2>5. CASE x.score.measured = FALSE /\ y.score.measured = FALSE
    BY <2>1, <2>5 DEF RanksBefore
  <2> QED BY <2>1, <2>2, <2>3, <2>4, <2>5
<1> HIDE DEF order, M, T, R
<1>5. Orders(order, all)
  <2>1. \A x \in all : <<x, x>> \notin order
    BY <1>1, <1>2, <1>4
  <2>2. \A x, y \in all : x # y => <<x, y>> \in order \/ <<y, x>> \in order
    <3>1. \A x, y \in all : x # y => RanksBefore(x, y) \/ RanksBefore(y, x)
      BY <1>2, <1>3, <1>4
    <3> QED BY <1>1, <3>1
  <2>3. \A x, y, z \in all : RanksBefore(x, y) /\ RanksBefore(y, z) => RanksBefore(x, z)
    BY <1>2, <1>4
  <2>4. \A x, y, z \in all : <<x, y>> \in order /\ <<y, z>> \in order => <<x, z>> \in order
    BY <1>1, <2>3, Zenon
  <2> QED BY <2>1, <2>2, <2>4 DEF Orders
<1> QED BY <1>1, <1>5 DEF order

LEMMA SmallerOf ==
  ASSUME NEW a \in Nat, NEW b \in Nat, a >= 1, b >= 1
  PROVE  Min({a, b}) \in Nat /\ Min({a, b}) >= 1
<1>1. Min({a, b}) = IF a <= b THEN a ELSE b
  BY OfTwo
<1> QED BY <1>1

(* The cut keeps as many as there are, up to the limit, of different ids; and
   what was measured comes first. *)
LEMMA RankedFirst ==
  ASSUME NEW all, Scored(all), IsFiniteSet(all)
  PROVE  LET s == InOrder(all, {p \in all \X all : RanksBefore(p[1], p[2])}, MAX_CANDIDATES)
         IN  /\ Len(s) = Min({MAX_CANDIDATES, Cardinality(all)})
             /\ \A i \in DOMAIN s : s[i] \in all
             /\ \A i, j \in DOMAIN s : s[i].id = s[j].id => i = j
             /\ \A x \in all : x.score.measured => s[1].score.measured
<1> DEFINE order == {p \in all \X all : RanksBefore(p[1], p[2])}
           s == InOrder(all, order, MAX_CANDIDATES)
           n == Min({MAX_CANDIDATES, Cardinality(all)})
<1>1. Orders(order, all) /\ \A x, y \in all : <<x, y>> \in order <=> RanksBefore(x, y)
  BY RankingOrders
<1> HIDE DEF order
<1>2. MAX_CANDIDATES \in Nat /\ MAX_CANDIDATES >= 1
  BY DEF MAX_CANDIDATES
<1>3. DOMAIN s = 1 .. n /\ Len(s) = n /\ \A k \in DOMAIN s : s[k] \in all /\ Place(all, order, s[k]) = k
  BY <1>1, <1>2, InOrderOf
<1> HIDE DEF s
<1>4. \A i, j \in DOMAIN s : s[i].id = s[j].id => i = j
  <2>1. \A i, j \in DOMAIN s : s[i].id = s[j].id => s[i] = s[j]
    BY <1>3 DEF Scored
  <2> QED BY <1>3, <2>1
<1>5. ASSUME NEW x \in all, x.score.measured
      PROVE  s[1].score.measured
  <2>1. Cardinality(all) \in Nat /\ Cardinality(all) >= 1
    BY FS_CardinalityType, FS_EmptySet
  <2>2. n \in Nat /\ n >= 1
    BY <1>2, <2>1, SmallerOf
  <2> HIDE DEF n
  <2>3. 1 \in DOMAIN s
    BY <1>3, <2>2
  <2>4. s[1] \in all /\ Place(all, order, s[1]) = 1
    BY <1>3, <2>3
  <2>5. x = s[1] \/ RanksBefore(s[1], x)
    <3>1. x # s[1] => <<s[1], x>> \in order
      BY <1>1, <2>4, FirstPlace
    <3> QED BY <1>1, <2>4, <3>1
  <2> QED BY <1>5, <2>5, Zenon DEF RanksBefore
<1> QED BY <1>3, <1>4, <1>5 DEF s, order

(* What is safe among what was examined, as RecommendationSound says it. *)
Safe(q, asked) ==
  {d \in filterByHardConstraints(asked.drafts, q.rule) :
     d.id \in DOMAIN asked.estimates /\ computeSafetyMargin(asked.estimates[d.id], q.host, q.rule) = "safe"}

LEMMA SafeFacts ==
  ASSUME NEW q, IsQuestion(q), NEW d, d \in Safe(q, Examined(q))
  PROVE  LET e == Examined(q).estimates[d.id]
         IN  /\ IsId(d.id) /\ d.config \in Configs(q)
             /\ e = q.estimator[d.config] /\ e.exact /\ e.vram \in Nat /\ q.host.vramFree \in Nat
             /\ e.vram <= q.host.vramFree
             /\ q.rule.minVram # Nothing => q.host.vramFree >= q.rule.minVram
             /\ q.rule.minContext # Nothing => OrDefault(d.config.context, 0) >= q.rule.minContext
<1> DEFINE a == Examined(q)
           e == a.estimates[d.id]
<1>1. d \in a.drafts /\ Kept(d, q.rule) /\ d.id \in DOMAIN a.estimates /\ computeSafetyMargin(e, q.host, q.rule) = "safe"
  BY DEF Safe, filterByHardConstraints
<1>2. /\ IsId(d.id) /\ d.config \in Configs(q)
      /\ e = q.estimator[d.config] /\ IsEstimate(e)
  BY <1>1, ExaminedOf DEF ToldById
<1>3. q.host.vramFree \in Figure /\ q.rule.minVram \in Figure
  BY DEF IsQuestion
<1>4. /\ e.exact /\ e.vram \in Nat /\ q.host.vramFree \in Nat /\ e.vram <= q.host.vramFree
      /\ q.rule.minVram # Nothing => q.host.vramFree >= q.rule.minVram
  <2> HIDE DEF e
  <2> QED BY <1>1, <1>2, <1>3, SafeIs
<1>5. q.rule.minContext # Nothing => OrDefault(d.config.context, 0) >= q.rule.minContext
  BY <1>1 DEF Kept
<1> QED BY <1>2, <1>4, <1>5

LEMMA SafeAreTold ==
  ASSUME NEW q, IsQuestion(q)
  PROVE  ToldById(Safe(q, Examined(q))) /\ IsFiniteSet(Safe(q, Examined(q)))
<1>1. Safe(q, Examined(q)) \subseteq Examined(q).drafts
  BY DEF Safe, filterByHardConstraints
<1>2. ToldById(Safe(q, Examined(q)))
  BY <1>1, ExaminedOf DEF ToldById
<1> QED BY <1>2, ToldIsOrdered

(* The candidate of a safe draft: a measurement of its configuration outranks
   its static score. *)
Static(q, asked, d) ==
  [id |-> d.id, config |-> d.config, estimate |-> asked.estimates[d.id],
   score |-> scoreCandidate(d.config, q.rule, asked.estimates[d.id], q.host)]
Evidence(q, c) == matchMeasuredEvidence(q.records, c.config, q.host)
FoundIn(q, C) == {Evidence(q, c) : c \in C} \ {Nothing}
MaxDecode(q, C) == Max({0} \cup {r.decode : r \in FoundIn(q, C)})
MaxTtft(q, C) ==
  LET ttfts == {r.ttft : r \in FoundIn(q, C)} \ {Nothing} IN IF ttfts = {} THEN Nothing ELSE Max(ttfts)
Final(q, C, c) ==
  IF Evidence(q, c) = Nothing THEN c
  ELSE [c EXCEPT !.score = [total |-> measuredBlend(Evidence(q, c), MaxDecode(q, C), MaxTtft(q, C)),
                            confidence |-> "high", measured |-> TRUE]]

LEMMA FinalAre ==
  ASSUME NEW q, NEW C
  PROVE  applyMeasuredFeedback(C, q.records, q.host) = {Final(q, C, c) : c \in C}
BY DEF applyMeasuredFeedback, Final, Evidence, FoundIn, MaxDecode, MaxTtft

(* The best figures of the evidence are figures. *)
LEMMA BestFigures ==
  ASSUME NEW q, IsQuestion(q), NEW C
  PROVE  MaxDecode(q, C) \in Nat /\ MaxTtft(q, C) \in Figure
<1> DEFINE I == DOMAIN q.records
           found == FoundIn(q, C)
           decodes == {r.decode : r \in found}
           ttfts == {r.ttft : r \in found} \ {Nothing}
<1>1. \A r \in found : r \in {q.records[i] : i \in I} /\ r.decode \in Nat /\ r.ttft \in Figure
  BY EvidenceOf DEF FoundIn, Evidence
<1> HIDE DEF found
<1>2. IsFiniteSet(I)
  BY LogIsFinite
<1>3. IsFiniteSet(decodes)
  <2> DEFINE f == [i \in I |-> q.records[i].decode]
  <2>1. IsFiniteSet({f[i] : i \in DOMAIN f})
    <3>1. DOMAIN f = I
      OBVIOUS
    <3> HIDE DEF f
    <3> QED BY <1>2, <3>1, FiniteImage
  <2>2. decodes \subseteq {f[i] : i \in DOMAIN f}
    BY <1>1
  <2> QED BY <2>1, <2>2, FS_Subset
<1>4. IsFiniteSet(ttfts)
  <2> DEFINE f == [i \in I |-> q.records[i].ttft]
  <2>1. IsFiniteSet({f[i] : i \in DOMAIN f})
    <3>1. DOMAIN f = I
      OBVIOUS
    <3> HIDE DEF f
    <3> QED BY <1>2, <3>1, FiniteImage
  <2>2. ttfts \subseteq {f[i] : i \in DOMAIN f}
    BY <1>1
  <2> QED BY <2>1, <2>2, FS_Subset
<1>5. decodes \subseteq Nat /\ ttfts \subseteq Nat
  BY <1>1 DEF Figure
<1> HIDE DEF decodes, ttfts
<1>6. Max({0} \cup decodes) \in Nat
  <2>1. IsFiniteSet({0} \cup decodes)
    BY <1>3, FS_Singleton, FS_Union
  <2>2. {0} \cup decodes \subseteq Nat
    BY <1>5
  <2> DEFINE S == {0} \cup decodes
  <2>4. IsFiniteSet(S) /\ S # {} /\ S \subseteq Int
    BY <2>1, <2>2
  <2> HIDE DEF S
  <2>5. Max(S) \in S
    BY <2>4, Largest
  <2>3. Max({0} \cup decodes) \in {0} \cup decodes
    BY <2>5 DEF S
  <2> QED BY <2>2, <2>3
<1>7. ttfts # {} => Max(ttfts) \in Nat
  <2>2. ttfts \subseteq Int
    BY <1>5
  <2>1. ttfts # {} => Max(ttfts) \in ttfts
    BY <1>4, <2>2, Largest
  <2> QED BY <1>5, <2>1
<1> QED BY <1>6, <1>7 DEF MaxDecode, MaxTtft, Figure, decodes, ttfts, found

LEMMA FinalOf ==
  ASSUME NEW q, IsQuestion(q), NEW C, NEW d, d \in Safe(q, Examined(q))
  PROVE  LET x == Final(q, C, Static(q, Examined(q), d))
         IN  /\ x.id = d.id /\ x.config = d.config /\ x.estimate = Examined(q).estimates[d.id]
             /\ x.score.measured \in BOOLEAN /\ x.score.total \in Int
             /\ matchMeasuredEvidence(q.records, d.config, q.host) # Nothing => x.score.measured
<1> DEFINE a == Examined(q)
           e == a.estimates[d.id]
           s == scoreCandidate(d.config, q.rule, e, q.host)
           c == Static(q, a, d)
           r == Evidence(q, c)
           t == measuredBlend(r, MaxDecode(q, C), MaxTtft(q, C))
<1>1. d.config \in Configs(q) /\ e.vram \in Nat /\ q.host.vramFree \in Nat
  BY SafeFacts
<1>2. s = [total |-> s.total, confidence |-> s.confidence, measured |-> FALSE] /\ s.total \in Int
  <2> HIDE DEF e
  <2> QED BY <1>1, ScoreOf
<1> HIDE DEF s
<1>3. c = [id |-> d.id, config |-> d.config, estimate |-> e, score |-> s]
  BY DEF Static, s
<1> HIDE DEF c
<1>4. r = matchMeasuredEvidence(q.records, d.config, q.host)
  BY <1>3 DEF Evidence
<1> HIDE DEF e
<1>5. CASE r = Nothing
  <2>1. Final(q, C, c) = c
    BY <1>5 DEF Final
  <2>2. s.measured = FALSE /\ s.total \in Int
    BY <1>2
  <2> DEFINE x == Final(q, C, c)
  <2>3. x.id = d.id /\ x.config = d.config /\ x.estimate = e /\ x.score = s
    BY <1>3, <2>1
  <2> HIDE DEF x
  <2>4. x.score.measured \in BOOLEAN /\ x.score.total \in Int
    BY <2>2, <2>3
  <2> QED BY <1>4, <1>5, <2>3, <2>4 DEF e, c, x
<1>6. CASE r # Nothing
  <2>1. r.decode \in Nat /\ r.ttft \in Figure
    BY <1>4, <1>6, EvidenceOf
  <2>2. t \in Int
    BY <2>1, BestFigures, BlendIs
  <2> HIDE DEF t
  <2>3. Final(q, C, c) = [c EXCEPT !.score = [total |-> t, confidence |-> "high", measured |-> TRUE]]
    BY <1>6 DEF Final, t
  <2>4. Final(q, C, c) = [id |-> d.id, config |-> d.config, estimate |-> e,
                          score |-> [total |-> t, confidence |-> "high", measured |-> TRUE]]
    BY <1>3, <2>3
  <2> DEFINE x == Final(q, C, c)
             m == [total |-> t, confidence |-> "high", measured |-> TRUE]
  <2>5. m.measured = TRUE /\ m.total = t
    OBVIOUS
  <2> HIDE DEF m
  <2>6. x.id = d.id /\ x.config = d.config /\ x.estimate = e /\ x.score = m
    BY <2>4 DEF m
  <2> HIDE DEF x
  <2>7. x.score.measured = TRUE /\ x.score.total \in Int
    BY <2>2, <2>5, <2>6
  <2> QED BY <2>6, <2>7 DEF e, c, x
<1> QED BY <1>5, <1>6

LEMMA AllOf ==
  ASSUME NEW q, IsQuestion(q)
  PROVE  LET safe == Safe(q, Examined(q))
             all == applyMeasuredFeedback(Assessed(Examined(q).drafts, q.rule, Examined(q).estimates, q.host),
                                          q.records, q.host)
         IN  /\ Scored(all) /\ IsFiniteSet(all) /\ Cardinality(all) = Cardinality(safe)
             /\ \A x \in all : \E d \in safe : x.config = d.config /\ x.estimate = Examined(q).estimates[d.id]
             /\ \A d \in safe : matchMeasuredEvidence(q.records, d.config, q.host) # Nothing =>
                  \E x \in all : x.score.measured
<1> DEFINE a == Examined(q)
           safe == Safe(q, a)
           C == Assessed(a.drafts, q.rule, a.estimates, q.host)
           all == applyMeasuredFeedback(C, q.records, q.host)
           f == [d \in safe |-> Final(q, C, Static(q, a, d))]
<1>1. C = {Static(q, a, d) : d \in safe}
  BY DEF Assessed, Static, Safe
<1>2. all = {Final(q, C, c) : c \in C}
  BY FinalAre
<1> HIDE DEF C, all
<1>3. all = {Final(q, C, Static(q, a, d)) : d \in safe}
  BY <1>1, <1>2
<1>4. \A d \in safe : LET x == Final(q, C, Static(q, a, d))
                      IN  /\ x.id = d.id /\ x.config = d.config /\ x.estimate = a.estimates[d.id]
                          /\ x.score.measured \in BOOLEAN /\ x.score.total \in Int
                          /\ matchMeasuredEvidence(q.records, d.config, q.host) # Nothing => x.score.measured
  BY FinalOf
<1>5. ToldById(safe) /\ IsFiniteSet(safe)
  BY SafeAreTold
<1> HIDE DEF safe
<1>6. \A d \in safe : /\ f[d] = Final(q, C, Static(q, a, d)) /\ f[d] \in all
                      /\ f[d].id = d.id /\ f[d].config = d.config /\ f[d].estimate = a.estimates[d.id]
                      /\ f[d].score.measured \in BOOLEAN /\ f[d].score.total \in Int
                      /\ matchMeasuredEvidence(q.records, d.config, q.host) # Nothing => f[d].score.measured
  BY <1>3, <1>4
<1>7. \A x \in all : \E d \in safe : f[d] = x
  BY <1>3
<1>8. f \in [safe -> all]
  BY <1>3
<1> HIDE DEF f
<1>9. Scored(all)
  BY <1>5, <1>6, <1>7 DEF Scored, ToldById
<1>10. \A d, e \in safe : f[d] = f[e] => d = e
  BY <1>5, <1>6 DEF ToldById
<1>11. f \in Surjection(safe, all) /\ f \in Injection(safe, all)
  BY <1>7, <1>8, <1>10, Fun_IsSurj, Fun_IsInj
<1>12. IsFiniteSet(all) /\ Cardinality(all) = Cardinality(safe)
  BY <1>5, <1>11, FS_Surjection
<1>13. \A x \in all : \E d \in safe : x.config = d.config /\ x.estimate = a.estimates[d.id]
  BY <1>6, <1>7
<1>14. \A d \in safe : matchMeasuredEvidence(q.records, d.config, q.host) # Nothing => \E x \in all : x.score.measured
  BY <1>6
<1> QED BY <1>9, <1>12, <1>13, <1>14 DEF all, safe, C

(* RecommendationSound of an answer: the theorem, for one question. *)
LEMMA RecommendedIsSound ==
  ASSUME NEW q, IsQuestion(q)
  PROVE  LET asked == Examined(q)
             offered == recommend(q).candidates
             safe == {d \in filterByHardConstraints(asked.drafts, q.rule) :
                        /\ d.id \in DOMAIN asked.estimates
                        /\ computeSafetyMargin(asked.estimates[d.id], q.host, q.rule) = "safe"}
             measured == {d \in safe : \E i \in DOMAIN q.records :
                            LET r == q.records[i]
                            IN  r.completed /\ r.config = d.config /\ r.host = q.host.host /\ r.decode # Nothing}
         IN  /\ recommend(q).calls <= MAX_ESTIMATE_CALLS
             /\ Len(offered) = Min({MAX_CANDIDATES, Cardinality(safe)})
             /\ \A i, j \in DOMAIN offered : offered[i].id = offered[j].id => i = j
             /\ \A i \in DOMAIN offered :
                  LET c == offered[i]
                  IN  /\ c.estimate = q.estimator[c.config] /\ c.estimate.exact
                      /\ c.estimate.vram <= q.host.vramFree
                      /\ q.rule.minVram # Nothing => q.host.vramFree >= q.rule.minVram
                      /\ q.rule.minContext # Nothing => OrDefault(c.config.context, 0) >= q.rule.minContext
             /\ measured # {} => offered[1].score.measured
<1> DEFINE a == Examined(q)
           safe == Safe(q, a)
           all == applyMeasuredFeedback(Assessed(a.drafts, q.rule, a.estimates, q.host), q.records, q.host)
           offered == InOrder(all, {p \in all \X all : RanksBefore(p[1], p[2])}, MAX_CANDIDATES)
<1>1. recommend(q) = [candidates |-> offered, calls |-> a.calls]
  BY DEF recommend, generateRecommendation, Ranked
<1>2. a.calls \in 0 .. MAX_ESTIMATE_CALLS
  BY ExaminedOf
<1>3. /\ Scored(all) /\ IsFiniteSet(all) /\ Cardinality(all) = Cardinality(safe)
      /\ \A x \in all : \E d \in safe : x.config = d.config /\ x.estimate = a.estimates[d.id]
      /\ \A d \in safe : matchMeasuredEvidence(q.records, d.config, q.host) # Nothing =>
           \E x \in all : x.score.measured
  BY AllOf
<1> HIDE DEF all
<1>4. /\ Len(offered) = Min({MAX_CANDIDATES, Cardinality(all)})
      /\ \A i \in DOMAIN offered : offered[i] \in all
      /\ \A i, j \in DOMAIN offered : offered[i].id = offered[j].id => i = j
      /\ \A x \in all : x.score.measured => offered[1].score.measured
  BY <1>3, RankedFirst
<1> HIDE DEF offered
<1>5. ASSUME NEW i \in DOMAIN offered
      PROVE  LET c == offered[i]
             IN  /\ c.estimate = q.estimator[c.config] /\ c.estimate.exact
                 /\ c.estimate.vram <= q.host.vramFree
                 /\ q.rule.minVram # Nothing => q.host.vramFree >= q.rule.minVram
                 /\ q.rule.minContext # Nothing => OrDefault(c.config.context, 0) >= q.rule.minContext
  <2>1. PICK d \in safe : offered[i].config = d.config /\ offered[i].estimate = a.estimates[d.id]
    BY <1>3, <1>4
  <2> QED BY <2>1, SafeFacts
<1>6. ASSUME NEW d \in safe, NEW i \in DOMAIN q.records,
             LET r == q.records[i]
             IN  r.completed /\ r.config = d.config /\ r.host = q.host.host /\ r.decode # Nothing
      PROVE  offered[1].score.measured
  <2>1. Matches(q.records[i], d.config, q.host)
    BY <1>6 DEF Matches, fingerprintCompatible
  <2>2. matchMeasuredEvidence(q.records, d.config, q.host) # Nothing
    BY <2>1, EvidenceOf
  <2> QED BY <1>3, <1>4, <2>2
<1>7. safe = {d \in filterByHardConstraints(a.drafts, q.rule) :
               /\ d.id \in DOMAIN a.estimates
               /\ computeSafetyMargin(a.estimates[d.id], q.host, q.rule) = "safe"}
  BY DEF Safe
<1> HIDE DEF safe, a
<1>8. recommend(q).candidates = offered /\ recommend(q).calls <= MAX_ESTIMATE_CALLS
  BY <1>1, <1>2 DEF MAX_ESTIMATE_CALLS
<1> QED BY <1>3, <1>4, <1>5, <1>6, <1>7, <1>8 DEF a

(* What a recommendation examines, by its parts. *)
KeptDrafts(q) == filterByHardConstraints(generateCandidateDrafts(q.base, q.rule), q.rule)
AskedDrafts(q) == FirstOf(KeptDrafts(q), LookedAt(KeptDrafts(q)), MAX_ESTIMATE_CALLS)
FirstAnswers(q) == Estimates(AskedDrafts(q), q.estimator)
Larger(q) ==
  {d \in KeptDrafts(q) : /\ d.id \in DOMAIN FirstAnswers(q) /\ FirstAnswers(q)[d.id].exact
                         /\ classifyResourceFit(FirstAnswers(q)[d.id], q.host) # "gpu-resident"}
AllRungs(q) == UNION {Rungs(d) : d \in Larger(q)}
AskedRungs(q) == FirstOf(AllRungs(q), LookedAt(AllRungs(q)), MAX_ESTIMATE_CALLS - Cardinality(AskedDrafts(q)))

LEMMA ExaminedParts ==
  ASSUME NEW q
  PROVE  /\ Examined(q).drafts = generateCandidateDrafts(q.base, q.rule) \cup AskedRungs(q)
         /\ DOMAIN Examined(q).estimates = DOMAIN FirstAnswers(q) \cup DOMAIN Estimates(AskedRungs(q), q.estimator)
         /\ \A id \in DOMAIN FirstAnswers(q) : Examined(q).estimates[id] = FirstAnswers(q)[id]
<1> DEFINE first == FirstAnswers(q)
           second == Estimates(AskedRungs(q), q.estimator)
           drafts == generateCandidateDrafts(q.base, q.rule)
           estimates == [id \in DOMAIN first \cup DOMAIN second |-> IF id \in DOMAIN first THEN first[id] ELSE second[id]]
           calls == Cardinality(AskedDrafts(q)) + Cardinality(AskedRungs(q))
<1>1. Examined(q) = [drafts |-> drafts \cup AskedRungs(q), estimates |-> estimates, calls |-> calls]
  BY DEF Examined, planLadderFallback, KeptDrafts, AskedDrafts, FirstAnswers, Larger, AllRungs, AskedRungs
<1>2. DOMAIN estimates = DOMAIN first \cup DOMAIN second /\ \A id \in DOMAIN first : estimates[id] = first[id]
  OBVIOUS
<1> HIDE DEF estimates, drafts, first, second, calls
<1> QED BY <1>1, <1>2 DEF drafts, first, second

(* The drafts are few, so that some calls are left for rungs. *)
LEMMA AskedAreFew ==
  ASSUME NEW q, IsQuestion(q)
  PROVE  /\ AskedDrafts(q) \subseteq KeptDrafts(q) /\ Cardinality(AskedDrafts(q)) \in 0 .. 6 /\ ToldById(AskedDrafts(q))
         /\ \A d \in KeptDrafts(q) : /\ d.id = <<d.id[1], Nothing>> /\ d.id[1] \in 1 .. 6 /\ d.config \in Configs(q)
                                     /\ d \in generateCandidateDrafts(q.base, q.rule)
                                     /\ Kept(d, q.rule)
         /\ ToldById(KeptDrafts(q))
<1> DEFINE K == KeptDrafts(q)
           A == AskedDrafts(q)
           f == [d \in A |-> d.id[1]]
           n == 6
<1>1. \A d \in K : /\ d.id = <<d.id[1], Nothing>> /\ d.id[1] \in 1 .. 6 /\ d.config \in Configs(q)
                   /\ d \in generateCandidateDrafts(q.base, q.rule)
                   /\ Kept(d, q.rule) /\ \A e \in K : d.id = e.id => d = e
  BY DraftsOf DEF KeptDrafts, filterByHardConstraints
<1>2. ToldById(K)
  BY <1>1 DEF ToldById, IsId
<1>3. A \subseteq K
  BY DEF AskedDrafts, FirstOf
<1>4. f \in [A -> 1 .. n] /\ \A d, e \in A : f[d] = f[e] => d = e
  BY <1>1, <1>3
<1>5. n \in Nat
  OBVIOUS
<1>6. f \in Injection(A, 1 .. n)
  BY <1>4, Fun_IsInj
<1> HIDE DEF f, n, A, K
<1>7. IsFiniteSet(1 .. n) /\ Cardinality(1 .. n) = n
  BY <1>5, Counted
<1>8. IsFiniteSet(A) /\ Cardinality(A) <= n
  BY <1>6, <1>7, FS_Injection
<1>9. Cardinality(A) \in 0 .. n
  BY <1>5, <1>8, FS_CardinalityType
<1>10. ToldById(A)
  BY <1>2, <1>3 DEF ToldById
<1> QED BY <1>1, <1>2, <1>3, <1>9, <1>10 DEF n, A, K

(* Of the first draft that does not fit the GPU, the lowest rung is asked for. *)
LEMMA LowestRungIsAsked ==
  ASSUME NEW q, IsQuestion(q), NEW d \in Larger(q), \A e \in Larger(q) : d.id[1] <= e.id[1],
         offloadVariant(d, 0) \in Rungs(d)
  PROVE  offloadVariant(d, 0) \in AskedRungs(q)
<1> DEFINE r == offloadVariant(d, 0)
           P == AllRungs(q)
           B == Before(P, LookedAt(P), r)
           f == [x \in B |-> LooksAt(x.id) - 10 * d.id[1]]
           n == 4
<1>1. \A e \in Larger(q) : e.id = <<e.id[1], Nothing>> /\ e.id[1] \in 1 .. 6 /\ e.config \in Configs(q)
  BY AskedAreFew DEF Larger
<1>2. r \in P
  BY DEF AllRungs
<1>3. r.id = <<d.id[1], 0>> /\ LooksAt(r.id) = 10 * d.id[1] + 5
  BY NothingAssumption DEF offloadVariant, LooksAt
<1>4. ASSUME NEW x \in P
      PROVE  \E e \in Larger(q) : \E s \in 0 .. 4 : x.id = <<e.id[1], s>> /\ LooksAt(x.id) = 10 * e.id[1] + (5 - s)
  <2>1. PICK e \in Larger(q) : x \in Rungs(e)
    BY DEF AllRungs
  <2>2. PICK s \in 0 .. 4 : x = [id |-> <<e.id[1], s>>, config |-> [e.config EXCEPT !.offload = s]]
    BY <1>1, <2>1, RungsOf
  <2>3. x.id = <<e.id[1], s>>
    BY <2>2
  <2>4. LooksAt(x.id) = 10 * e.id[1] + (5 - s)
    BY <2>3, NothingAssumption DEF LooksAt
  <2> QED BY <2>3, <2>4
<1>5. \A x \in B : x \in P /\ LooksAt(x.id) < LooksAt(r.id)
  BY DEF Before, LookedAt
<1>6. \A x \in B : LooksAt(x.id) - 10 * d.id[1] \in 1 .. n
  <2> SUFFICES ASSUME NEW x \in B PROVE LooksAt(x.id) - 10 * d.id[1] \in 1 .. n
    OBVIOUS
  <2>1. PICK e \in Larger(q), s \in 0 .. 4 : LooksAt(x.id) = 10 * e.id[1] + (5 - s)
    BY <1>4, <1>5
  <2>2. d.id[1] \in 1 .. 6 /\ e.id[1] \in 1 .. 6 /\ d.id[1] <= e.id[1]
    BY <1>1
  <2>3. 10 * e.id[1] + (5 - s) < 10 * d.id[1] + 5
    BY <1>3, <1>5, <2>1
  <2> QED BY <2>1, <2>2, <2>3
<1>7. \A x, y \in P : x.id = y.id => x = y
  <2>1. Larger(q) \subseteq generateCandidateDrafts(q.base, q.rule)
    BY AskedAreFew DEF Larger
  <2> QED BY <2>1, PlannedOf DEF AllRungs
<1>8. \A x \in P : IsId(x.id)
  <2>1. Larger(q) \subseteq generateCandidateDrafts(q.base, q.rule)
    BY AskedAreFew DEF Larger
  <2> QED BY <2>1, PlannedOf DEF AllRungs
<1> HIDE DEF P, r
<1>9. f \in [B -> 1 .. n]
  BY <1>6
<1>10. \A x, y \in B : f[x] = f[y] => x = y
  <2> SUFFICES ASSUME NEW x \in B, NEW y \in B, f[x] = f[y] PROVE x = y
    OBVIOUS
  <2>1. IsId(x.id) /\ IsId(y.id) /\ x \in P /\ y \in P
    BY <1>5, <1>8
  <2>2. LooksAt(x.id) \in Int /\ LooksAt(y.id) \in Int /\ d.id[1] \in Int
    BY <1>1, <2>1, LooksApart
  <2>3. LooksAt(x.id) = LooksAt(y.id)
    BY <2>2
  <2> QED BY <1>7, <2>1, <2>3, LooksApart
<1>11. f \in Injection(B, 1 .. n)
  BY <1>9, <1>10, Fun_IsInj
<1>12. n \in Nat
  OBVIOUS
<1> HIDE DEF f, n, B
<1>13. IsFiniteSet(1 .. n) /\ Cardinality(1 .. n) = n
  BY <1>12, Counted
<1>14. IsFiniteSet(B) /\ Cardinality(B) <= n
  BY <1>11, <1>13, FS_Injection
<1>15. Cardinality(B) \in 0 .. 4
  BY <1>12, <1>14, FS_CardinalityType DEF n
<1>16. Cardinality(AskedDrafts(q)) \in 0 .. 6
  BY AskedAreFew
<1>17. Place(P, LookedAt(P), r) <= MAX_ESTIMATE_CALLS - Cardinality(AskedDrafts(q))
  BY <1>15, <1>16 DEF Place, B, MAX_ESTIMATE_CALLS
<1> QED BY <1>2, <1>17 DEF AskedRungs, FirstOf, P, r

(* A draft that is hybrid, or has a hybrid rung, does not fit the GPU. *)
LEMMA HybridIsLarger ==
  ASSUME NEW q, IsQuestion(q), NEW id \in DOMAIN Examined(q).estimates,
         classifyResourceFit(Examined(q).estimates[id], q.host) = "hybrid-memory"
  PROVE  Larger(q) # {}
<1>1. CASE id \in DOMAIN FirstAnswers(q)
  <2> DEFINE e == FirstAnswers(q)[id]
  <2>1. Examined(q).estimates[id] = e
    BY <1>1, ExaminedParts
  <2>2. PICK d \in AskedDrafts(q) : d.id = id
    BY <1>1, AskedAreFew, EstimatesOf DEF FirstAnswers
  <2>3. d \in KeptDrafts(q)
    BY <2>2, AskedAreFew
  <2>4. e = q.estimator[d.config] /\ e # Nothing
    BY <1>1, <2>2, AskedAreFew, EstimateOf DEF FirstAnswers
  <2>5. IsEstimate(e)
    BY <2>3, <2>4, AskedAreFew, ConfigFacts
  <2>6. classifyResourceFit(e, q.host) = "hybrid-memory"
    BY <2>1
  <2> HIDE DEF e
  <2>7. e.exact
    <3>1. ~e.exact => classifyResourceFit(e, q.host) = "resource-unknown"
      BY DEF classifyResourceFit
    <3> QED BY <2>6, <3>1
  <2>8. d \in Larger(q)
    BY <1>1, <2>2, <2>3, <2>6, <2>7 DEF Larger, e
  <2> QED BY <2>8
<1>2. CASE id \in DOMAIN Estimates(AskedRungs(q), q.estimator)
  <2>1. AskedRungs(q) # {}
    BY <1>2 DEF Estimates
  <2>2. AskedRungs(q) \subseteq UNION {Rungs(d) : d \in Larger(q)}
    BY DEF AskedRungs, FirstOf, AllRungs
  <2> QED BY <2>1, <2>2
<1>3. id \in DOMAIN FirstAnswers(q) \cup DOMAIN Estimates(AskedRungs(q), q.estimator)
  BY ExaminedParts
<1> QED BY <1>1, <1>2, <1>3

LEMMA HybridHasGpu ==
  ASSUME NEW e, NEW h, h.vramFree \in Figure, classifyResourceFit(e, h) = "hybrid-memory"
  PROVE  h.vramFree \in Nat
BY DEF classifyResourceFit, Figure

(* What is examined, fits the rule and uses no VRAM is safe without a floor. *)
LEMMA HostedIsSafe ==
  ASSUME NEW q, IsQuestion(q), q.host.vramFree \in Nat, q.rule.minVram = Nothing,
         NEW d \in Examined(q).drafts, d.id \in DOMAIN Examined(q).estimates, Kept(d, q.rule),
         q.estimator[d.config].exact, q.estimator[d.config].vram = 0
  PROVE  Safe(q, Examined(q)) # {}
<1> DEFINE e == Examined(q).estimates[d.id]
<1>1. e = q.estimator[d.config]
  BY ExaminedOf
<1>2. e.exact /\ e.vram = 0
  BY <1>1
<1> HIDE DEF e
<1>3. computeSafetyMargin(e, q.host, q.rule) = "safe"
  BY <1>2, NothingAssumption DEF computeSafetyMargin, MarginWithoutFloor
<1>4. d \in Safe(q, Examined(q))
  BY <1>3 DEF Safe, filterByHardConstraints, e
<1> QED BY <1>4

LEMMA LargerIsHosted ==
  ASSUME NEW q, IsQuestion(q), HostedWithoutGpu(q.estimator),
         q.host.vramFree \in Nat, q.rule.minVram = Nothing, Larger(q) # {}
  PROVE  Safe(q, Examined(q)) # {}
<1> DEFINE D == Larger(q)
<1>1. \A d \in D : /\ d \in KeptDrafts(q) /\ d.id = <<d.id[1], Nothing>> /\ d.id[1] \in 1 .. 6
                   /\ d.config \in Configs(q) /\ d \in generateCandidateDrafts(q.base, q.rule) /\ Kept(d, q.rule)
                   /\ d.id \in DOMAIN FirstAnswers(q)
  BY AskedAreFew DEF Larger
<1>2. PICK d \in D : \A e \in D : d.id[1] <= e.id[1]
  <2>1. ToldById(D)
    BY AskedAreFew DEF Larger, ToldById
  <2>2. PICK d \in D : \A e \in D : e # d => <<d, e>> \in LookedAt(D)
    BY <2>1, ToldIsOrdered, SomeFirst
  <2>3. \A e \in D : LooksAt(e.id) = 10 * e.id[1]
    <3>1. \A e \in D : e.id[2] = Nothing
      BY <1>1
    <3> QED BY <1>1, <3>1 DEF LooksAt
  <2> HIDE DEF D
  <2>4. \A e \in D : e # d => LooksAt(d.id) < LooksAt(e.id)
    BY <2>2 DEF LookedAt
  <2>5. \A e \in D : d.id[1] <= e.id[1]
    <3> SUFFICES ASSUME NEW e \in D PROVE d.id[1] <= e.id[1]
      OBVIOUS
    <3>1. CASE e = d
      BY <1>1, <3>1
    <3>2. CASE e # d
      <4>1. 10 * d.id[1] < 10 * e.id[1] /\ d.id[1] \in Int /\ e.id[1] \in Int
        BY <1>1, <2>3, <2>4, <3>2
      <4> QED BY <4>1
    <3> QED BY <3>1, <3>2
  <2> QED BY <2>5
<1>3. q.estimator[d.config] # Nothing /\ q.estimator[d.config].exact
  <2>1. FirstAnswers(q)[d.id] = q.estimator[d.config] /\ q.estimator[d.config] # Nothing
    <3>1. PICK x \in AskedDrafts(q) : x.id = d.id
      BY <1>1, AskedAreFew, EstimatesOf DEF FirstAnswers
    <3>2. x = d
      BY <1>1, <3>1, AskedAreFew DEF ToldById
    <3> QED BY <1>1, <3>2, AskedAreFew, EstimateOf DEF FirstAnswers
  <2> QED BY <2>1 DEF Larger
<1> DEFINE c == d.config
           hosted == [c EXCEPT !.offload = 0]
<1>4. /\ q.estimator[hosted] # Nothing /\ q.estimator[hosted].exact /\ q.estimator[hosted].vram = 0
  BY <1>1, <1>3 DEF HostedWithoutGpu, Configs
<1>5. c = [offload |-> c.offload, context |-> c.context] /\ c.offload \in 0 .. 4 \cup {Nothing} /\ c \in Configs(q)
  BY <1>1, ConfigFacts
<1>6. CASE c.offload = 0
  <2>1. hosted = c
    <3> HIDE DEF c
    <3> QED BY <1>5, <1>6
  <2>2. d \in Examined(q).drafts /\ d.id \in DOMAIN Examined(q).estimates
    BY <1>1, ExaminedParts
  <2> HIDE DEF hosted
  <2> QED BY <1>1, <1>4, <2>1, <2>2, HostedIsSafe
<1>7. CASE c.offload # 0
  <2> DEFINE r == offloadVariant(d, 0)
  <2>1. 0 < OrDefault(c.offload, 4)
    BY <1>5, <1>7 DEF OrDefault
  <2>2. r \in Rungs(d)
    BY <2>1 DEF Rungs, GPU_OFFLOAD_LADDER
  <2>3. r \in AskedRungs(q)
    BY <1>2, <2>2, LowestRungIsAsked
  <2>4. r.config = hosted /\ r.id = <<d.id[1], 0>>
    BY DEF offloadVariant
  <2>5. hosted.context = c.context
    BY <1>5, Lowered
  <2> HIDE DEF r, hosted, c
  <2>6. Kept(r, q.rule)
    BY <1>1, <2>4, <2>5 DEF Kept, c
  <2>7. r \in Examined(q).drafts
    BY <2>3, ExaminedParts
  <2>8. r.id \in DOMAIN Examined(q).estimates
    <3>1. r.id \in DOMAIN Estimates(AskedRungs(q), q.estimator)
      BY <1>4, <2>3, <2>4 DEF Estimates
    <3> QED BY <3>1, ExaminedParts
  <2> QED BY <1>4, <2>4, <2>6, <2>7, <2>8, HostedIsSafe
<1> QED BY <1>6, <1>7

LEMMA HybridIsOffered ==
  ASSUME NEW q, IsQuestion(q), HostedWithoutGpu(q.estimator), q.rule.minVram = Nothing,
         NEW id \in DOMAIN Examined(q).estimates,
         classifyResourceFit(Examined(q).estimates[id], q.host) = "hybrid-memory"
  PROVE  recommend(q).candidates # <<>>
<1> DEFINE offered == recommend(q).candidates
           safe == Safe(q, Examined(q))
<1>1. q.host.vramFree \in Nat
  BY HybridHasGpu DEF IsQuestion
<1>2. safe # {}
  BY <1>1, HybridIsLarger, LargerIsHosted
<1>3. IsFiniteSet(safe)
  BY SafeAreTold
<1>4. Cardinality(safe) \in Nat /\ Cardinality(safe) >= 1
  BY <1>2, <1>3, FS_CardinalityType, FS_EmptySet
<1>5. Len(offered) = Min({MAX_CANDIDATES, Cardinality(safe)})
  BY RecommendedIsSound DEF Safe
<1>6. MAX_CANDIDATES \in Nat /\ MAX_CANDIDATES >= 1
  BY DEF MAX_CANDIDATES
<1>7. Min({MAX_CANDIDATES, Cardinality(safe)}) >= 1
  BY <1>4, <1>6, SmallerOf
<1> HIDE DEF offered, safe
<1>8. Len(offered) >= 1
  BY <1>5, <1>7
<1> QED BY <1>8 DEF offered

-----------------------------------------------------------------------------
(* The world asked about stays a world, both promises hold of the answer, and
   what is recommended answers the question. *)
AnsweredInv ==
  /\ input.kind \in {"command", "call"} => IsWorld(input.world)
  /\ RefusedLeavesWorld /\ OtherMachineIsShown
  /\ input.kind = "recommend" =>
       IsQuestion(Posed(input)) /\ output \in {None, recommend(Posed(input))}

LEMMA UnansweredInv == Unanswered => AnsweredInv
BY DEF Unanswered, AnsweredInv, RefusedLeavesWorld, OtherMachineIsShown, Answered

LEMMA CommandInv == AnsweredInv /\ UNCHANGED input /\ Command => AnsweredInv'
<1> SUFFICES ASSUME AnsweredInv, UNCHANGED input, Command PROVE AnsweredInv'
  OBVIOUS
<1>1. IsWorld(input.world) /\ input.kind = "command" /\ output' = runCli(input.argv, input.world)
  BY DEF AnsweredInv, Command
<1>2. output'.exit = 4 => output'.world = [input.world EXCEPT !.locale = output'.world.locale]
  BY <1>1, RefusedCommand
<1> QED BY <1>1, <1>2 DEF AnsweredInv, RefusedLeavesWorld, OtherMachineIsShown, Answered

LEMMA CallInv == AnsweredInv /\ UNCHANGED input /\ Call => AnsweredInv'
<1> SUFFICES ASSUME AnsweredInv, UNCHANGED input, Call PROVE AnsweredInv'
  OBVIOUS
<1>1. IsWorld(input.world) /\ input.kind = "call" /\ output' = handle(input.method, input.params, input.world)
  BY DEF AnsweredInv, Call
<1>2. Noted(output', input.world)
  BY <1>1, NotedHandle
<1> QED BY <1>1, <1>2 DEF AnsweredInv, RefusedLeavesWorld, OtherMachineIsShown, Answered, Noted, OnlyNotes

LEMMA ProjectInv == AnsweredInv /\ UNCHANGED input /\ Project => AnsweredInv'
<1> SUFFICES ASSUME AnsweredInv, UNCHANGED input, Project PROVE AnsweredInv'
  OBVIOUS
<1>1. input.kind = "context" /\ output' = buildModelContext(input)
  BY DEF Project
<1>2. \A m \in DOMAIN output' : \A t \in DOMAIN output'[m].scenarios :
        output'[m].scenarios[t] = Scenario(input, m, t)
  BY <1>1 DEF buildModelContext
<1>3. OtherMachineIsShown'
  BY <1>1, <1>2, OtherMachineShown DEF OtherMachineIsShown
<1> QED BY <1>1, <1>3 DEF AnsweredInv, RefusedLeavesWorld, Answered

LEMMA RecommendInv == AnsweredInv /\ UNCHANGED input /\ Recommend => AnsweredInv'
<1> SUFFICES ASSUME AnsweredInv, UNCHANGED input, Recommend PROVE AnsweredInv'
  OBVIOUS
<1>1. input.kind = "recommend" /\ output' = recommend(Posed(input)) /\ IsQuestion(Posed(input))
  BY DEF AnsweredInv, Recommend
<1>2. Posed(input)' = Posed(input)
  BY DEF Posed
<1> QED BY <1>1, <1>2 DEF AnsweredInv, RefusedLeavesWorld, OtherMachineIsShown, Answered

LEMMA AnsweredAlways == AnswersSpec => []AnsweredInv
<1>1. AnsweredInv /\ [Respond]_<<input, output>> => AnsweredInv'
  <2>1. AnsweredInv /\ UNCHANGED <<input, output>> => AnsweredInv'
    BY DEF AnsweredInv, RefusedLeavesWorld, OtherMachineIsShown, Answered, Posed
  <2> QED BY <2>1, CommandInv, CallInv, ProjectInv, RecommendInv DEF Respond
<1> QED BY <1>1, UnansweredInv, PTL DEF AnswersSpec

(* Whatever the command line or a method refuses leaves profiles, backups,
   files, documents, defaults, token and host as it found them, in any world
   and for any words and parameters. *)
THEOREM RefusalsLeaveWorld == AnswersSpec => []RefusedLeavesWorld
BY AnsweredAlways, PTL DEF AnsweredInv

(* For any models, profiles and results: what was measured on another machine
   is never shown as current, stale or partial, and a default that is offered
   has a profile. *)
THEOREM OtherMachinesAreShown == AnswersSpec => []OtherMachineIsShown
BY AnsweredAlways, PTL DEF AnsweredInv

(* For any baseline, rule, host, log and estimator: what is recommended was
   estimated exactly, within the budget of calls, and fits the free VRAM and
   the rule; all that is safe is offered, but for the cut; and what was measured
   on this machine is selected. *)
THEOREM RecommendationsAreSound == AnswersSpec => []RecommendationSound
<1>1. AnsweredInv => RecommendationSound
  <2> SUFFICES ASSUME AnsweredInv, Answered("recommend") PROVE RecommendationSound
    BY DEF RecommendationSound
  <2>1. IsQuestion(Posed(input)) /\ output = recommend(Posed(input))
    BY DEF AnsweredInv, Answered
  <2> QED BY <2>1, RecommendedIsSound DEF RecommendationSound
<1> QED BY <1>1, AnsweredAlways, PTL

(* A model larger than the GPU is offered if it fits the host, for any sizes:
   all that is needed of the estimator is that a configuration without offload
   uses no VRAM ("0 means fully host-resident", offload-ladder.ts:7). *)
THEOREM BiggerModelsAreOffered ==
  AnswersSpec /\ [](input.kind = "recommend" => HostedWithoutGpu(Posed(input).estimator))
    => []BiggerThanVramIsOffered
<1>1. AnsweredInv /\ (input.kind = "recommend" => HostedWithoutGpu(Posed(input).estimator))
        => BiggerThanVramIsOffered
  <2> SUFFICES ASSUME AnsweredInv, input.kind = "recommend" => HostedWithoutGpu(Posed(input).estimator),
                      Answered("recommend")
               PROVE  BiggerThanVramIsOffered
    BY DEF BiggerThanVramIsOffered
  <2>1. /\ IsQuestion(Posed(input)) /\ HostedWithoutGpu(Posed(input).estimator)
        /\ output = recommend(Posed(input))
    BY DEF AnsweredInv, Answered
  <2> QED BY <2>1, HybridIsOffered DEF BiggerThanVramIsOffered
<1> QED BY <1>1, AnsweredAlways, PTL

-----------------------------------------------------------------------------
(* An activation from the tray is that of lmps apply --yes, a delete and a save
   from the window are those of the commands: the same exit code, profiles and
   host, in any world in which the sidecar has its seams.  Only the notice and
   the code of a refused save differ (handlers.ts:843-848, 902-905, 926-931). *)
THEOREM MethodsAgree ==
  ASSUME NEW w, IsWorld(w), {"store", "activation", "recommendation"} \subseteq w.wired,
         NEW id, id # Nothing, NEW p, WordOf(p, 1) = id, FlagOf(p, "yes") # Nothing
  PROVE  /\ LET called == handle("activation.apply", [id |-> id], w)
                run == runApplyCommand(w, p)
            IN  /\ called.exit = run.exit
                /\ called.world.profiles = run.world.profiles /\ called.world.host = run.world.host
         /\ LET called == handle("profiles.delete", [id |-> id], w)
                run == profileDelete(w, p)
            IN  called.exit = run.exit /\ called.world = run.world
         /\ LET called == handle("optimize.save", [profileId |-> id], w)
                run == runOptimizeCommand(w, p)
            IN  called.world = run.world
<1>1. \A answer : guard(answer).world = answer.world
  BY DEF guard, Refused, Ends
<1>2. LET called == handle("profiles.delete", [id |-> id], w)
          run == profileDelete(w, p)
      IN  called.exit = run.exit /\ called.world = run.world
  <2>1. handle("profiles.delete", [id |-> id], w) = guard(delete(w, id))
    BY DEF handle, Wired, Param, Stores, Loaded
  <2>2. profileDelete(w, p) = delete(w, id)
    BY DEF profileDelete
  <2>3. delete(w, id).code # "DOMAIN"
    BY DEF delete, Refused, Ends
  <2> QED BY <2>1, <2>2, <2>3, <1>1 DEF guard
<1>3. LET called == handle("optimize.save", [profileId |-> id], w)
          run == runOptimizeCommand(w, p)
      IN  called.world = run.world
  <2>1. handle("optimize.save", [profileId |-> id], w) = guard(optimizeSave(w, [profileId |-> id]))
    BY DEF handle, Stores, Loaded
  <2>2. \A code : Refused(w, code).world = w
    BY DEF Refused, Ends
  <2>3. optimizeSave(w, [profileId |-> id]).world = runOptimizeCommand(w, p).world
    BY <2>2 DEF optimizeSave, runOptimizeCommand, Wired, Stores, Loaded, Param, Usage
  <2> QED BY <2>1, <2>3, <1>1
<1>4. LET called == handle("activation.apply", [id |-> id], w)
          run == runApplyCommand(w, p)
      IN  /\ called.exit = run.exit
          /\ called.world.profiles = run.world.profiles /\ called.world.host = run.world.host
  <2> DEFINE run == runApplyCommand(w, p)
  <2>1. handle("activation.apply", [id |-> id], w) = guard(activationApply(w, [id |-> id]))
    BY DEF handle, Stores, Loaded
  <2>2. activationApply(w, [id |-> id]) = recordOutcome(run)
    BY DEF activationApply, runApplyCommand, Wired, Asked, Stores, Loaded, Param
  <2>3. KeepsWorld(run, w) /\ run.code # "DOMAIN"
    <3>1. \A code : code # "DOMAIN" => Refused(w, code).code # "DOMAIN"
      BY DEF Refused, Ends
    <3>2. \A doc : Activated(w, doc).code # "DOMAIN"
      BY DEF Activated, Refused, Ends
    <3>3. LoadError(w, id) # "DOMAIN"
      BY DEF LoadError
    <3> QED BY <3>1, <3>2, <3>3, KeptApply DEF runApplyCommand, Loaded, Reaching, Usage
  <2>4. PICK notice : recordOutcome(run) = [run EXCEPT !.world.notice = notice]
    BY DEF recordOutcome
  <2> HIDE DEF run
  <2>5. /\ recordOutcome(run).exit = run.exit /\ recordOutcome(run).code = run.code
        /\ recordOutcome(run).world = [run.world EXCEPT !.notice = notice]
    BY <2>3, <2>4 DEF KeepsWorld
  <2>6. guard(recordOutcome(run)) = recordOutcome(run)
    BY <2>3, <2>5 DEF guard
  <2>7. /\ [run.world EXCEPT !.notice = notice].profiles = run.world.profiles
        /\ [run.world EXCEPT !.notice = notice].host = run.world.host
    OBVIOUS
  <2> QED BY <2>1, <2>2, <2>5, <2>6, <2>7 DEF run
<1> QED BY <1>2, <1>3, <1>4

-----------------------------------------------------------------------------
(* The documents that map outside names to profiles (hook-rules.ts,
   virtual-aliases.ts). *)

LEMMA FirstOfPositions ==
  ASSUME NEW S, NEW seq \in Seq(S), NEW P, P \subseteq DOMAIN seq, P # {}
  PROVE  Min(P) \in P /\ \A i \in P : Min(P) <= i
<1> DEFINE n == Len(seq)
<1>1. DOMAIN seq = 1 .. n /\ n \in Nat
  OBVIOUS
<1> HIDE DEF n
<1>2. IsFiniteSet(P)
  BY <1>1, Counted, FS_Subset
<1>3. P \subseteq Int
  BY <1>1
<1> QED BY <1>2, <1>3, Smallest

LEMMA OnlyPosition ==
  ASSUME NEW i
  PROVE  Cardinality({i}) = 1 /\ (i \in Int => Min({i}) = i)
BY FS_Singleton DEF Min

LEMMA FirstIsMin ==
  ASSUME NEW n \in Nat, NEW P, P \subseteq 1 .. n, NEW i \in P, \A j \in P : i <= j
  PROVE  Min(P) = i
<1>1. IsFiniteSet(1 .. n)
  BY Counted
<1>2. IsFiniteSet(P)
  BY <1>1, FS_Subset
<1>3. P \subseteq Int
  OBVIOUS
<1>4. Min(P) \in P /\ Min(P) <= i
  BY <1>2, <1>3, Smallest
<1>5. i <= Min(P) /\ i \in Int /\ Min(P) \in Int
  BY <1>3, <1>4
<1> HIDE DEF Min
<1> QED BY <1>4, <1>5

(* The hook resolves to a rule of that app that is on: one of that very task,
   or, if none is, the only one without a task; and to nothing while the
   document is switched off. *)
THEOREM TargetIsRuled ==
  ASSUME NEW S, NEW doc, doc.rules \in Seq(S), NEW request, matchHookRule(doc, request) # Nothing
  PROVE  /\ doc.enabled
         /\ LET rules == doc.rules
                Fits(i) == rules[i].enabled /\ rules[i].app = request.app
                OfTask(i) == Fits(i) /\ rules[i].taskKind = request.taskKind /\ request.taskKind # NoTask
                General(i) == Fits(i) /\ rules[i].taskKind = NoTask
            IN  \E i \in DOMAIN rules :
                  /\ matchHookRule(doc, request) = HookTarget(rules[i])
                  /\ \/ OfTask(i)
                     \/ General(i) /\ \A j \in DOMAIN rules : ~OfTask(j) /\ (General(j) => j = i)
<1> DEFINE rules == doc.rules
           appRules == {i \in DOMAIN rules : rules[i].enabled /\ rules[i].app = request.app}
           withTask == {i \in appRules : rules[i].taskKind = request.taskKind}
           generic == {i \in appRules : rules[i].taskKind = NoTask}
<1>1. matchHookRule(doc, request) =
        IF ~doc.enabled THEN Nothing
        ELSE IF request.taskKind # NoTask /\ withTask # {} THEN HookTarget(rules[Min(withTask)])
        ELSE IF Cardinality(generic) = 1 THEN HookTarget(rules[Min(generic)])
        ELSE Nothing
  BY DEF matchHookRule, Named, FirstIn
<1>2. withTask \subseteq DOMAIN rules /\ generic \subseteq DOMAIN rules
  OBVIOUS
<1>3. CASE request.taskKind # NoTask /\ withTask # {}
  <2>1. Min(withTask) \in withTask
    BY <1>2, <1>3, FirstOfPositions
  <2> QED BY <1>1, <1>3, <2>1
<1>4. CASE ~(request.taskKind # NoTask /\ withTask # {})
  <2>1. doc.enabled /\ Cardinality(generic) = 1 /\ matchHookRule(doc, request) = HookTarget(rules[Min(generic)])
    BY <1>1, <1>4
  <2>2. IsFiniteSet(generic)
    <3>1. DOMAIN rules = 1 .. Len(rules) /\ Len(rules) \in Nat
      OBVIOUS
    <3> HIDE DEF generic, rules
    <3> QED BY <1>2, <3>1, Counted, FS_Subset
  <2>3. PICK i : generic = {i}
    <3> HIDE DEF generic
    <3> QED BY <2>1, <2>2, FS_Singleton
  <2>4. i \in DOMAIN rules /\ i \in Int
    BY <1>2, <2>3
  <2>5. Min(generic) = i
    BY <2>3, <2>4, OnlyPosition
  <2> QED BY <1>4, <2>1, <2>3, <2>4, <2>5
<1> QED BY <1>1, <1>3, <1>4

(* In a document that "hook rules validate" accepts, every rule that is on is
   the one its app and task resolve to. *)
THEOREM ValidRulesResolve ==
  ASSUME NEW S, NEW doc, doc.rules \in Seq(S), doc.enabled, hookRulesOk(doc),
         NEW i \in DOMAIN doc.rules, doc.rules[i].enabled
  PROVE  matchHookRule(doc, [app |-> doc.rules[i].app, taskKind |-> doc.rules[i].taskKind])
           = HookTarget(doc.rules[i])
<1> DEFINE rules == doc.rules
           request == [app |-> rules[i].app, taskKind |-> rules[i].taskKind]
           appRules == {k \in DOMAIN rules : rules[k].enabled /\ rules[k].app = request.app}
           withTask == {k \in appRules : rules[k].taskKind = request.taskKind}
           generic == {k \in appRules : rules[k].taskKind = NoTask}
           Repeats(k) == \E j \in 1 .. (k - 1) :
                           rules[j].app = rules[k].app /\ rules[j].taskKind = rules[k].taskKind
<1>1. matchHookRule(doc, request) =
        IF request.taskKind # NoTask /\ withTask # {} THEN HookTarget(rules[Min(withTask)])
        ELSE IF Cardinality(generic) = 1 THEN HookTarget(rules[Min(generic)])
        ELSE Nothing
  BY DEF matchHookRule, Named, FirstIn
<1>2. DOMAIN rules = 1 .. Len(rules) /\ Len(rules) \in Nat
  OBVIOUS
<1>3. \A k \in DOMAIN rules : ~Repeats(k)
  <2>1. validateHookRules(doc).duplicates = {rules[k].id : k \in {l \in DOMAIN rules : Repeats(l)}}
    BY DEF validateHookRules
  <2>2. validateHookRules(doc).duplicates = {}
    BY DEF hookRulesOk
  <2> HIDE DEF Repeats, rules
  <2> QED BY <2>1, <2>2
<1>4. \A k \in DOMAIN rules : rules[k].app = rules[i].app /\ rules[k].taskKind = rules[i].taskKind => k = i
  <2> SUFFICES ASSUME NEW k \in DOMAIN rules, rules[k].app = rules[i].app, rules[k].taskKind = rules[i].taskKind
               PROVE  k = i
    OBVIOUS
  <2>1. ~(k < i)
    <3>1. k < i => k \in 1 .. (i - 1)
      BY <1>2
    <3> QED BY <1>3, <3>1
  <2>2. ~(i < k)
    <3>1. i < k => i \in 1 .. (k - 1)
      BY <1>2
    <3> QED BY <1>3, <3>1
  <2>3. i \in Int /\ k \in Int
    BY <1>2
  <2> QED BY <2>1, <2>2, <2>3
<1>5. withTask = {i}
  BY <1>4
<1>6. rules[i].taskKind = NoTask => generic = {i}
  BY <1>4
<1>7. Min({i}) = i /\ Cardinality({i}) = 1
  BY <1>2, OnlyPosition
<1> HIDE DEF withTask, generic
<1> QED BY <1>1, <1>5, <1>6, <1>7

(* The proxy lists exactly the names it serves; and of aliases that "proxy
   aliases validate" accepts, each that is on serves its own name. *)
THEOREM ListedAreServed ==
  ASSUME NEW S, Nothing \notin S, NEW doc, doc.aliases \in Seq(S)
  PROVE  /\ \A model : model \in listedModels(doc) <=> matchVirtualAlias(doc, model) # Nothing
         /\ doc.enabled /\ validateVirtualAliases(doc) = {} =>
              \A i \in DOMAIN doc.aliases : doc.aliases[i].enabled =>
                matchVirtualAlias(doc, doc.aliases[i].virtualModel) = doc.aliases[i]
<1> DEFINE aliases == doc.aliases
           on == {i \in DOMAIN aliases : aliases[i].enabled}
           named(model) == {i \in on : aliases[i].virtualModel = model}
<1>1. \A model : matchVirtualAlias(doc, model) =
        IF ~doc.enabled \/ named(model) = {} THEN Nothing ELSE aliases[Min(named(model))]
  BY DEF matchVirtualAlias, Enabled, Named, FirstIn
<1>2. \A model : named(model) # {} => /\ Min(named(model)) \in named(model)
                                      /\ \A i \in named(model) : Min(named(model)) <= i
  <2> SUFFICES ASSUME NEW model, named(model) # {}
               PROVE  /\ Min(named(model)) \in named(model)
                      /\ \A i \in named(model) : Min(named(model)) <= i
    OBVIOUS
  <2>1. named(model) \subseteq DOMAIN aliases
    OBVIOUS
  <2> HIDE DEF named
  <2> QED BY <2>1, FirstOfPositions
<1>3. \A i \in DOMAIN aliases : aliases[i] # Nothing /\ i \in Int
  OBVIOUS
<1>4. listedModels(doc) = IF ~doc.enabled THEN {} ELSE {aliases[i].virtualModel : i \in on}
  BY DEF listedModels, Enabled, Named
<1>5. ASSUME NEW model
      PROVE  model \in listedModels(doc) <=> matchVirtualAlias(doc, model) # Nothing
  <2>1. model \in listedModels(doc) <=> doc.enabled /\ named(model) # {}
    BY <1>4
  <2>2. named(model) \subseteq DOMAIN aliases
    OBVIOUS
  <2> HIDE DEF named
  <2>3. named(model) # {} => aliases[Min(named(model))] # Nothing
    BY <1>2, <1>3, <2>2
  <2> QED BY <1>1, <2>1, <2>3
<1>6. ASSUME doc.enabled, validateVirtualAliases(doc) = {}, NEW i \in DOMAIN aliases, aliases[i].enabled
      PROVE  matchVirtualAlias(doc, aliases[i].virtualModel) = aliases[i]
  <2> DEFINE model == aliases[i].virtualModel
             m == Min(named(model))
             Repeats(k) == \E j \in on : j < k /\ aliases[j].virtualModel = aliases[k].virtualModel
  <2>1. validateVirtualAliases(doc) = {aliases[k].id : k \in {l \in on : Repeats(l)}}
    BY DEF validateVirtualAliases, Enabled, Named
  <2>2. ~Repeats(i)
    BY <1>6, <2>1
  <2>3. i \in named(model)
    BY <1>6
  <2>4. m \in named(model) /\ m <= i
    BY <1>2, <2>3
  <2>5. m \in on /\ aliases[m].virtualModel = aliases[i].virtualModel /\ m \in DOMAIN aliases
    BY <2>4
  <2> HIDE DEF m
  <2>6. ~(m < i)
    BY <2>2, <2>5
  <2>7. m = i
    BY <1>3, <1>6, <2>4, <2>5, <2>6
  <2> QED BY <1>1, <1>6, <2>3, <2>7 DEF m
<1> QED BY <1>5, <1>6

(* "proxy aliases add" does what it says: from then on the name is served by
   that profile, by every other name is served what was served before, and
   whatever else the document holds stays (commands/proxy.ts:169-219).  The
   schema's part is that an alias is a record with a name and a switch. *)
THEOREM AddedAreServed ==
  ASSUME NEW S, \A a \in S : /\ a = [field \in DOMAIN a |-> a[field]]
                             /\ {"id", "virtualModel", "enabled"} \subseteq DOMAIN a,
         NEW doc, doc = [field \in DOMAIN doc |-> doc[field]], {"enabled", "aliases"} \subseteq DOMAIN doc,
         doc.aliases \in Seq(S), NEW entry \in S, entry.enabled
  PROVE  LET after == WithAlias(doc, entry)
         IN  /\ doc.enabled =>
                  \E id : matchVirtualAlias(after, entry.virtualModel) = [entry EXCEPT !.id = id]
             /\ \A model : model # entry.virtualModel =>
                  matchVirtualAlias(after, model) = matchVirtualAlias(doc, model)
             /\ \A field \in DOMAIN doc \ {"aliases"} : after[field] = doc[field]
<1> DEFINE aliases == doc.aliases
           name == entry.virtualModel
           n == Len(aliases)
           same == {i \in DOMAIN aliases : aliases[i].virtualModel = name}
           first == Min(same)
           after == WithAlias(doc, entry)
           left == after.aliases
           On(seq, model) == {i \in DOMAIN seq : seq[i].enabled /\ seq[i].virtualModel = model}
<1>1. \A d, model : matchVirtualAlias(d, model) =
        IF ~d.enabled \/ On(d.aliases, model) = {} THEN Nothing ELSE d.aliases[Min(On(d.aliases, model))]
  <2> SUFFICES ASSUME NEW d, NEW model
               PROVE  matchVirtualAlias(d, model) =
                        IF ~d.enabled \/ On(d.aliases, model) = {} THEN Nothing
                        ELSE d.aliases[Min(On(d.aliases, model))]
    OBVIOUS
  <2>1. {i \in Enabled(d) : d.aliases[i].virtualModel = model} = On(d.aliases, model)
    BY DEF Enabled, Named
  <2> HIDE DEF On
  <2> QED BY <2>1 DEF matchVirtualAlias, FirstIn
<1>2. n \in Nat /\ DOMAIN aliases = 1 .. n /\ \A i \in 1 .. n : aliases[i] \in S
  OBVIOUS
<1>3. \A field \in DOMAIN doc \ {"aliases"} : after[field] = doc[field]
  BY DEF WithAlias
<1>4. same # {} => first \in 1 .. n /\ aliases[first].virtualModel = name /\ \A i \in same : first <= i
  <2>1. same \subseteq DOMAIN aliases
    OBVIOUS
  <2>2. same # {} => first \in same /\ \A i \in same : first <= i
    BY <2>1, FirstOfPositions
  <2> QED BY <1>2, <2>2
(* The new alias is at one position, under its name and switched on, no alias of
   the name is before it, and those elsewhere are the old ones. *)
<1>5. PICK at, id : /\ at \in DOMAIN left /\ left[at] = [entry EXCEPT !.id = id]
                    /\ \A i \in DOMAIN left : left[i].virtualModel = name => at <= i
                    /\ DOMAIN left = 1 .. Len(left) /\ Len(left) \in Nat
                    /\ DOMAIN left \ {at} = {i \in 1 .. n : i # at}
                    /\ \A i \in DOMAIN left \ {at} : left[i] = aliases[i]
                    /\ at \in 1 .. n => aliases[at].virtualModel = name
  <2>1. CASE same = {}
    <3>1. left = Append(aliases, entry)
      BY <2>1 DEF WithAlias
    <3>2. /\ DOMAIN left = 1 .. (n + 1) /\ Len(left) = n + 1 /\ left[n + 1] = entry
          /\ \A i \in 1 .. n : left[i] = aliases[i]
      BY <1>2, <3>1
    <3>3. entry = [entry EXCEPT !.id = entry.id]
      OBVIOUS
    <3>4. \A i \in 1 .. n : left[i].virtualModel # name
      BY <1>2, <2>1, <3>2
    <3> HIDE DEF left, aliases, n, same, name
    <3>5. /\ n + 1 \in DOMAIN left /\ DOMAIN left \ {n + 1} = {i \in 1 .. n : i # n + 1} /\ n + 1 \notin 1 .. n
          /\ Len(left) \in Nat /\ DOMAIN left = 1 .. Len(left)
      BY <1>2, <3>2
    <3>6. \A i \in DOMAIN left : i # n + 1 => i \in 1 .. n
      BY <1>2, <3>2
    <3>7. \A i \in DOMAIN left : left[i].virtualModel = name => n + 1 <= i
      BY <1>2, <3>4, <3>6
    <3> WITNESS n + 1, entry.id
    <3> QED BY <3>2, <3>3, <3>5, <3>6, <3>7
  <2>2. CASE same # {}
    <3> DEFINE new == [entry EXCEPT !.id = aliases[first].id]
    <3>1. left = [aliases EXCEPT ![first] = new]
      BY <2>2 DEF WithAlias
    <3>2. first \in 1 .. n
      BY <1>4, <2>2
    <3>3. /\ DOMAIN left = 1 .. n /\ left[first] = new /\ Len(left) = n
          /\ \A i \in 1 .. n : i # first => left[i] = aliases[i]
      <4> HIDE DEF left, aliases, same, first, new
      <4> QED BY <1>2, <3>1, <3>2 DEF n
    <3>4. \A i \in 1 .. n : i # first /\ left[i].virtualModel = name => first <= i
      <4>1. \A i \in 1 .. n : aliases[i].virtualModel = name => first <= i
        BY <1>2, <1>4, <2>2
      <4> HIDE DEF left, aliases, n, same, name, first, new
      <4> QED BY <3>3, <4>1
    <3> HIDE DEF left, aliases, n, same, name, first, new
    <3>5. first \in Nat
      BY <1>2, <3>2
    <3>6. \A i \in 1 .. n : left[i].virtualModel = name => first <= i
      BY <1>2, <3>4, <3>5
    <3> WITNESS first, aliases[first].id
    <3> QED BY <1>2, <1>4, <2>2, <3>2, <3>3, <3>5, <3>6 DEF new
  <2> QED BY <2>1, <2>2
<1>6. left[at].virtualModel = name /\ left[at].enabled
  BY <1>5
<1>7. ASSUME doc.enabled
      PROVE  matchVirtualAlias(after, name) = [entry EXCEPT !.id = id]
  <2>1. at \in On(left, name)
    BY <1>5, <1>6
  <2>2. \A i \in On(left, name) : at <= i
    BY <1>5
  <2>3. On(left, name) \subseteq 1 .. Len(left)
    BY <1>5
  <2> HIDE DEF On, left, after, name
  <2>4. Min(On(left, name)) = at
    BY <1>5, <2>1, <2>2, <2>3, FirstIsMin
  <2> QED BY <1>1, <1>3, <1>5, <1>7, <2>1, <2>4 DEF left
<1>8. ASSUME NEW model, model # name
      PROVE  matchVirtualAlias(after, model) = matchVirtualAlias(doc, model)
  <2>1. On(left, model) = On(aliases, model)
    <3>1. \A i \in On(left, model) : i # at
      BY <1>6, <1>8
    <3>2. \A i \in On(aliases, model) : i # at
      BY <1>2, <1>5, <1>8
    <3>3. \A i : i \in On(left, model) => i \in On(aliases, model)
      BY <1>2, <1>5, <3>1
    <3>4. \A i : i \in On(aliases, model) => i \in On(left, model)
      BY <1>2, <1>5, <3>2
    <3> QED BY <3>3, <3>4
  <2>2. \A i \in On(aliases, model) : left[i] = aliases[i]
    BY <1>2, <1>5, <1>8
  <2>3. On(aliases, model) # {} => Min(On(aliases, model)) \in On(aliases, model)
    <3>1. On(aliases, model) \subseteq DOMAIN aliases /\ aliases \in Seq(S)
      OBVIOUS
    <3> HIDE DEF On, aliases
    <3> QED BY <3>1, FirstOfPositions
  <2>4. after.enabled = doc.enabled
    BY <1>3
  <2> HIDE DEF On
  <2> QED BY <1>1, <2>1, <2>2, <2>3, <2>4
<1> QED BY <1>3, <1>7, <1>8

(* The hook accounts for what it does: it changes the host only for a rule that
   the document resolves the app and task to, with a profile that can be read,
   and then a row names that rule; a refusal by the rules leaves the host alone
   and is in the log as well (handlers.ts:1083-1151). *)
THEOREM HookAccounts ==
  ASSUME NEW w, IsWorld(w), {"host", "audits"} \subseteq DOMAIN w, NEW params
  PROVE  LET app == Trimmed(Param(params, "app"))
             kind == IF Param(params, "taskKind") \in Blank THEN NoTask ELSE params.taskKind
             target == matchHookRule(w.rules, [app |-> app, taskKind |-> kind])
             answer == handle("hook.switch", params, w)
             Row(outcome, of) == [app |-> app, taskKind |-> kind, outcome |-> outcome, target |-> of]
         IN  /\ answer.world.host # w.host =>
                  /\ w.rules \notin {Nothing, Broken, NonConforming} /\ target # Nothing
                  /\ LoadError(w, target.profileId) = "ok"
                  /\ answer.code = "ok"
                  /\ answer.world.audits = Append(w.audits, Row(answer.said, target))
             /\ answer.code \in {"HOOK_UNCONFIGURED", "HOOK_DISABLED", "HOOK_DENIED"} =>
                  /\ answer.world.host = w.host
                  /\ answer.world.audits = Append(w.audits, Row(answer.code, Nothing))
<1> DEFINE app == Trimmed(Param(params, "app"))
           kind == IF Param(params, "taskKind") \in Blank THEN NoTask ELSE params.taskKind
           target == matchHookRule(w.rules, [app |-> app, taskKind |-> kind])
           answer == hookSwitch(w, params)
           Row(outcome, of) == [app |-> app, taskKind |-> kind, outcome |-> outcome, target |-> of]
           Denials == {"HOOK_UNCONFIGURED", "HOOK_DISABLED", "HOOK_DENIED"}
           Denied(a) == \E code \in Denials : /\ a.code = code /\ a.world.host = w.host
                                              /\ a.world.audits = Append(w.audits, Row(code, Nothing))
           Silent(a) == a.code \notin Denials \cup {"DOMAIN", "ok"} /\ a.world = w
           Logged(a) == /\ a.code = "ok"
                        /\ a.world.audits = Append(w.audits, Row(a.said, target))
           Chosen == /\ w.rules \notin {Nothing, Broken, NonConforming} /\ target # Nothing
                     /\ LoadError(w, target.profileId) = "ok"
<1>1. \A code : code \notin Denials \cup {"DOMAIN", "ok"} => Silent(Refused(w, code))
  BY DEF Refused, Ends
<1>2. \A code \in Denials : Denied(Audited(Refused(w, code), Row(code, Nothing)))
  BY DEF Audited, Refused, Ends
<1>3. \A doc : IF Activated(w, doc).code = "ok"
                THEN Logged(Audited(Activated(w, doc), Row(Activated(w, doc).said, target)))
                ELSE Silent(Activated(w, doc))
  BY DEF Activated, Audited, Refused, Ends, IsWorld
<1> HIDE DEF Denied, Silent, Logged
<1>4. Silent(answer) \/ Denied(answer) \/ (Chosen /\ Logged(answer))
  <2>1. CASE "hook" \notin w.wired \/ app \in Blank \/ w.rules \in {Broken, NonConforming}
    BY <2>1, <1>1 DEF hookSwitch, Wired, Conforming
  <2>2. CASE "hook" \in w.wired /\ app \notin Blank /\ w.rules \notin {Broken, NonConforming}
             /\ (w.rules = Nothing \/ target = Nothing)
    BY <2>2, <1>2 DEF hookSwitch, Wired, Conforming, Denial
  <2>3. CASE "hook" \in w.wired /\ app \notin Blank /\ w.rules \notin {Broken, NonConforming}
             /\ w.rules # Nothing /\ target # Nothing
    <3>1. answer = Stores(w, target.profileId, LAMBDA doc :
            Wired(w, "activation", Reaching(w,
              IF Activated(w, doc).code = "ok" THEN Audited(Activated(w, doc), Row(Activated(w, doc).said, target))
              ELSE Activated(w, doc))))
      BY <2>3 DEF hookSwitch, Wired, Conforming, Stores, Loaded
    <3> QED BY <2>3, <3>1, <1>1, <1>3 DEF Stores, Loaded, Wired, Reaching, LoadError
  <2> QED BY <2>1, <2>2, <2>3
<1>5. handle("hook.switch", params, w) = answer
  <2>1. handle("hook.switch", params, w) = guard(answer)
    BY DEF handle, Stores, Loaded
  <2>2. answer.code # "DOMAIN"
    BY <1>4 DEF Silent, Denied, Logged
  <2> QED BY <2>1, <2>2 DEF guard
<1> QED BY <1>4, <1>5 DEF Silent, Denied, Logged

-----------------------------------------------------------------------------
(* The use of memory, and the start of the sidecar (resource-usage.ts,
   calibration.ts; index.ts, settings.ts). *)

LEMMA ElementOfSeq ==
  ASSUME NEW S, NEW seq \in Seq(S), NEW i \in DOMAIN seq
  PROVE  seq[i] \in S
OBVIOUS

LEMMA LargestKnown ==
  ASSUME NEW S, IsFiniteSet(S), S \subseteq Figure
  PROVE  /\ MaxKnown(S) \in Figure
         /\ MaxKnown(S) # Nothing => MaxKnown(S) \in S
         /\ \A x \in S : x # Nothing => MaxKnown(S) # Nothing /\ x <= MaxKnown(S)
<1> DEFINE K == S \ {Nothing}
<1>1. IsFiniteSet(K) /\ K \subseteq Int
  <2>1. K \in SUBSET S
    OBVIOUS
  <2>2. \A x \in K : x \in Int
    BY DEF Figure
  <2> HIDE DEF K
  <2> QED BY <2>1, <2>2, FS_Subset
<1>2. MaxKnown(S) = IF K = {} THEN Nothing ELSE Max(K)
  BY DEF MaxKnown, Known
<1>3. \A x \in S : x # Nothing => x \in K
  OBVIOUS
<1>4. \A x \in K : x \in S /\ x # Nothing /\ x \in Nat
  BY DEF Figure
<1> HIDE DEF K
<1>5. K # {} => Max(K) \in K /\ \A x \in K : x <= Max(K)
  BY <1>1, Largest
<1> QED BY <1>2, <1>3, <1>4, <1>5 DEF Figure

LEMMA DeltaOf ==
  ASSUME NEW a \in Figure, NEW b \in Figure
  PROVE  delta(a, b) \in Figure /\ (delta(a, b) = Nothing <=> Nothing \in {a, b})
<1>1. CASE Nothing \in {a, b}
  BY <1>1 DEF delta, Figure
<1>2. CASE Nothing \notin {a, b}
  <2>1. a \in Nat /\ b \in Nat /\ a - b \in Int /\ 0 \in Int
    BY <1>2 DEF Figure
  <2>2. Max({0, a - b}) = IF 0 >= a - b THEN 0 ELSE a - b
    BY <2>1, OfTwo
  <2>3. delta(a, b) = Max({0, a - b})
    BY <1>2 DEF delta
  <2> QED BY <1>2, <2>1, <2>2, <2>3, NothingAssumption DEF Figure
<1> QED BY <1>1, <1>2

(* A model is called larger than estimated only for a run that completed, and
   only if GPU and host together had grown by more than the estimate at one
   moment, whatever readings failed: peaks of different moments are not added
   (resource-usage.ts:62-67, calibration.ts:93-122). *)
THEOREM OverrunsAreObserved ==
  ASSUME NEW before, before.vram \in Figure, before.ram \in Figure,
         NEW readings \in Seq([vram : Figure, ram : Figure]),
         NEW estimate, {estimate.total, estimate.vram, estimate.ram} \subseteq Figure, NEW status
  PROVE  LET usage == buildResourceUsageEvidence(before, readings)
             verdict == calibrateEstimate(estimate, status, usage)
             Grown(i) == delta(readings[i].vram, before.vram) + delta(readings[i].ram, before.ram)
             Read(i) == Nothing \notin {before.vram, before.ram, readings[i].vram, readings[i].ram}
         IN  /\ verdict.confidence = "low" =>
                  /\ status = "completed"
                  /\ \E i \in DOMAIN readings : Read(i) /\ Grown(i) > estimatedTotal(estimate)
             /\ verdict.applied /\ verdict.confidence # "low" =>
                  \A i \in DOMAIN readings : Read(i) => Grown(i) <= estimatedTotal(estimate)
<1> DEFINE usage == buildResourceUsageEvidence(before, readings)
           verdict == calibrateEstimate(estimate, status, usage)
           vram(i) == delta(readings[i].vram, before.vram)
           ram(i) == delta(readings[i].ram, before.ram)
           whole == {i \in DOMAIN readings : Nothing \notin {vram(i), ram(i)}}
           sums == {vram(i) + ram(i) : i \in whole}
<1>1. DOMAIN readings = 1 .. Len(readings) /\ Len(readings) \in Nat
  OBVIOUS
<1>2. \A i \in DOMAIN readings : readings[i].vram \in Figure /\ readings[i].ram \in Figure
  <2> SUFFICES ASSUME NEW i \in DOMAIN readings PROVE readings[i].vram \in Figure /\ readings[i].ram \in Figure
    OBVIOUS
  <2> DEFINE Pair == [vram : Figure, ram : Figure]
  <2>1. readings \in Seq(Pair)
    OBVIOUS
  <2> HIDE DEF Pair
  <2>2. readings[i] \in Pair
    BY <2>1, ElementOfSeq
  <2> QED BY <2>2 DEF Pair
<1>3. \A i \in DOMAIN readings :
        /\ vram(i) \in Figure /\ ram(i) \in Figure
        /\ i \in whole <=> Nothing \notin {before.vram, before.ram, readings[i].vram, readings[i].ram}
  BY <1>2, DeltaOf
<1>4. usage.total = MaxKnown(sums) /\ (usage.completeness = "complete" <=> usage.total # Nothing)
  <2> DEFINE deltas == {[vram |-> delta(r.vram, before.vram), ram |-> delta(r.ram, before.ram)] :
                          r \in ToSet(readings)}
  <2>1. deltas = {[vram |-> vram(i), ram |-> ram(i)] : i \in DOMAIN readings}
    BY DEF ToSet
  <2>2. {d.vram + d.ram : d \in {x \in deltas : Nothing \notin {x.vram, x.ram}}} = sums
    <3> DEFINE Both(i) == [vram |-> vram(i), ram |-> ram(i)]
               told == {x \in deltas : Nothing \notin {x.vram, x.ram}}
    <3>1. \A i \in DOMAIN readings : Both(i) \in deltas /\ Both(i).vram = vram(i) /\ Both(i).ram = ram(i)
      BY <2>1
    <3>2. \A d \in deltas : \E i \in DOMAIN readings : d = Both(i)
      BY <2>1
    <3> HIDE DEF deltas, vram, ram, Both
    <3>3. \A i \in whole : Both(i) \in told
      BY <3>1
    <3>4. \A d \in told : \E i \in whole : d = Both(i)
      BY <3>1, <3>2
    <3> HIDE DEF told, whole
    <3>5. \A i \in whole : Both(i).vram = vram(i) /\ Both(i).ram = ram(i)
      BY <3>1 DEF whole
    <3> QED BY <3>3, <3>4, <3>5 DEF told
  <2>3. usage.total = PeakTogether(deltas)
    BY DEF buildResourceUsageEvidence
  <2> HIDE DEF deltas, sums
  <2>4. usage.total = MaxKnown(sums)
    BY <2>2, <2>3 DEF PeakTogether
  <2> QED BY <2>4 DEF buildResourceUsageEvidence
<1>5. IsFiniteSet(sums) /\ sums \subseteq Nat /\ sums \subseteq Figure
  <2> DEFINE f == [i \in whole |-> vram(i) + ram(i)]
  <2>1. whole \in SUBSET (1 .. Len(readings))
    BY <1>1
  <2>2. IsFiniteSet(whole)
    <3> HIDE DEF whole
    <3> QED BY <1>1, <2>1, Counted, FS_Subset
  <2>3. DOMAIN f = whole /\ sums = {f[i] : i \in DOMAIN f}
    OBVIOUS
  <2>4. \A i \in whole : vram(i) \in Nat /\ ram(i) \in Nat
    BY <1>3 DEF Figure
  <2>5. sums \subseteq Nat
    BY <2>4
  <2> HIDE DEF f, sums, whole
  <2>6. IsFiniteSet(sums)
    BY <2>2, <2>3, FiniteImage
  <2> QED BY <2>5, <2>6 DEF Figure
<1>6. /\ MaxKnown(sums) # Nothing => MaxKnown(sums) \in sums
      /\ \A x \in sums : x # Nothing => x <= MaxKnown(sums)
  <2> HIDE DEF sums
  <2> QED BY <1>5, LargestKnown
<1>7. /\ verdict.confidence = "low" => /\ status = "completed" /\ usage.completeness = "complete"
                                       /\ usage.total > estimatedTotal(estimate)
      /\ verdict.applied /\ verdict.confidence # "low" =>
           /\ usage.completeness = "complete" /\ ~(usage.total > estimatedTotal(estimate))
           /\ estimatedTotal(estimate) # Nothing
  <2> HIDE DEF usage
  <2> QED BY DEF calibrateEstimate
<1>8. estimatedTotal(estimate) \in Figure
  BY DEF estimatedTotal, Figure
<1> HIDE DEF usage, verdict
<1>9. ASSUME verdict.confidence = "low"
      PROVE  \E i \in DOMAIN readings :
               /\ Nothing \notin {before.vram, before.ram, readings[i].vram, readings[i].ram}
               /\ vram(i) + ram(i) > estimatedTotal(estimate)
  <2>1. usage.total \in sums
    BY <1>4, <1>6, <1>7, <1>9
  <2>2. PICK i \in whole : usage.total = vram(i) + ram(i)
    BY <2>1
  <2> QED BY <1>3, <1>7, <1>9, <2>2
<1>10. ASSUME verdict.applied, verdict.confidence # "low", NEW i \in DOMAIN readings,
              Nothing \notin {before.vram, before.ram, readings[i].vram, readings[i].ram}
       PROVE  vram(i) + ram(i) <= estimatedTotal(estimate)
  <2>1. vram(i) + ram(i) \in sums
    BY <1>3, <1>10
  <2>2. vram(i) + ram(i) <= usage.total /\ usage.total \in Nat /\ vram(i) + ram(i) \in Nat
    <3> HIDE DEF sums
    <3> QED BY <1>4, <1>5, <1>6, <1>7, <1>10, <2>1, NothingAssumption
  <2>3. estimatedTotal(estimate) \in Nat /\ ~(usage.total > estimatedTotal(estimate))
    BY <1>7, <1>8, <1>10 DEF Figure
  <2> QED BY <2>2, <2>3
<1> QED BY <1>7, <1>9, <1>10 DEF usage, verdict

(* A sidecar that starts has the token it was given, the shell's before the
   environment's, or, as a server for hooks only, the stored one, which it
   stores if there is none and never replaces; it leaves its address only when
   it listens as such a server; and it changes nothing else, also when it fails
   (index.ts:50-64, 176-206, settings.ts:57-105).  "new" is a token. *)
THEOREM StartsAreAuthorized ==
  ASSUME NEW w, w = [field \in DOMAIN w |-> w[field]], {"token", "address", "taken"} \subseteq DOMAIN w,
         NEW argv, NEW env, Nothing # "new"
  PROVE  LET started == main(w, argv, env)
             given == {argv.token, env.token} \ {Nothing}
         IN  /\ w.token # Nothing => started.world.token = w.token
             /\ started.world.token # w.token => given = {} /\ started.world.token = "new"
             /\ started.world.address # w.address =>
                  started.code = "ok" /\ started.said.kind = "http" /\ env.port \notin w.taken
             /\ started.code = "ok" =>
                  /\ started.said.token # Nothing
                  /\ started.said.token \in IF given = {} THEN {started.world.token} ELSE given
                  /\ argv.token # Nothing => started.said.token = argv.token
                  /\ given = {} => started.said.kind = "http"
             /\ \A field \in DOMAIN w \ {"token", "address"} : started.world[field] = w[field]
<1> DEFINE settings == resolveSidecarSettings(argv, env)
           resolved == resolveToken(w, settings.kind, settings.token)
           given == {argv.token, env.token} \ {Nothing}
           started == main(w, argv, env)
<1>1. /\ settings.token = IF argv.token = Nothing THEN env.token ELSE argv.token
      /\ settings.kind = "http" => settings.port = env.port
  BY DEF resolveSidecarSettings, OrElse
<1>2. \A v, code : code # "ok" => Refused(v, code).world = v /\ Refused(v, code).code # "ok"
  BY DEF Refused, Ends
<1>3. \A v, said : /\ Ends(v, 0, said).world = v /\ Ends(v, 0, said).code = "ok"
                   /\ Ends(v, 0, said).said = said
  BY DEF Ends
<1>4. \/ resolved.world = w /\ resolved.code # "ok"
      \/ /\ resolved.world = w /\ resolved.code = "ok" /\ resolved.said # Nothing
         /\ \/ settings.token # Nothing /\ resolved.said = settings.token
            \/ settings.token = Nothing /\ settings.kind = "http" /\ resolved.said = w.token
      \/ /\ resolved.world = [w EXCEPT !.token = "new"] /\ resolved.code = "ok" /\ resolved.said = "new"
         /\ settings.token = Nothing /\ settings.kind = "http" /\ w.token = Nothing
  <2> HIDE DEF settings
  <2>1. CASE settings.token # Nothing
    <3>1. resolved = Ends(w, 0, settings.token)
      BY <2>1 DEF resolveToken
    <3> QED BY <1>3, <2>1, <3>1
  <2>2. CASE settings.token = Nothing /\ settings.kind # "http"
    <3>1. resolved = Refused(w, "INTERNAL")
      BY <2>2 DEF resolveToken
    <3> QED BY <1>2, <3>1
  <2>3. CASE settings.token = Nothing /\ settings.kind = "http"
    <3>1. resolved = IF w.token \in {Broken, NonConforming} THEN Refused(w, "INTERNAL")
                     ELSE IF w.token # Nothing THEN Ends(w, 0, w.token)
                     ELSE Ends([w EXCEPT !.token = "new"], 0, "new")
      BY <2>3 DEF resolveToken, Conforming
    <3> HIDE DEF resolved
    <3> QED BY <1>2, <1>3, <2>3, <3>1
  <2> QED BY <2>1, <2>2, <2>3
<1>5. \/ started.world = w /\ started.code # "ok"
      \/ started = resolved /\ resolved.code # "ok"
      \/ started.world = resolved.world /\ started.code # "ok" /\ resolved.code = "ok"
      \/ /\ resolved.code = "ok" /\ settings.port \notin resolved.world.taken /\ started.code = "ok"
         /\ started.said = [kind |-> settings.kind, token |-> resolved.said]
         /\ \E place : /\ started.world = [resolved.world EXCEPT !.address = place]
                       /\ settings.kind # "http" => place = resolved.world.address
  <2> DEFINE place == IF settings.kind = "http" THEN "this server" ELSE resolved.world.address
             left == [resolved.world EXCEPT !.address = place]
             said == [kind |-> settings.kind, token |-> resolved.said]
  <2>1. started = IF settings.port = Broken THEN Refused(w, "INTERNAL")
                  ELSE IF resolved.code # "ok" THEN resolved
                  ELSE IF settings.port \in resolved.world.taken THEN Refused(resolved.world, "INTERNAL")
                  ELSE Ends(left, 0, said)
    BY DEF main, Listening
  <2> HIDE DEF started, settings, resolved, left, said
  <2>2. /\ Refused(w, "INTERNAL").world = w /\ Refused(w, "INTERNAL").code # "ok"
        /\ Refused(resolved.world, "INTERNAL").world = resolved.world
        /\ Refused(resolved.world, "INTERNAL").code # "ok"
    BY <1>2
  <2>3. /\ Ends(left, 0, said).world = left /\ Ends(left, 0, said).code = "ok"
        /\ Ends(left, 0, said).said = said
    BY <1>3
  <2>4. \/ started.world = w /\ started.code # "ok"
        \/ started = resolved /\ resolved.code # "ok"
        \/ started.world = resolved.world /\ started.code # "ok" /\ resolved.code = "ok"
        \/ /\ resolved.code = "ok" /\ settings.port \notin resolved.world.taken /\ started.code = "ok"
           /\ started.said = said /\ started.world = left
    BY <2>1, <2>2, <2>3
  <2>5. settings.kind # "http" => place = resolved.world.address
    OBVIOUS
  <2> HIDE DEF place
  <2> QED BY <2>4, <2>5 DEF left, said
<1> HIDE DEF settings, resolved, started
<1>6. resolved.world = w \/ resolved.world = [w EXCEPT !.token = "new"]
  BY <1>4
<1>7. /\ resolved.world.taken = w.taken /\ resolved.world.address = w.address
      /\ DOMAIN resolved.world = DOMAIN w
      /\ resolved.world = [field \in DOMAIN resolved.world |-> resolved.world[field]]
      /\ \A field \in DOMAIN w \ {"token", "address"} : resolved.world[field] = w[field]
  BY <1>6
<1>8. /\ started.world.token = resolved.world.token \/ started.world.token = w.token
      /\ started.code = "ok" => started.world.token = resolved.world.token
      /\ \A field \in DOMAIN w \ {"token", "address"} : started.world[field] = w[field]
  BY <1>5, <1>6, <1>7
<1>9. w.token # Nothing => started.world.token = w.token
  BY <1>4, <1>8
<1>10. started.world.token # w.token => given = {} /\ started.world.token = "new"
  BY <1>1, <1>4, <1>8
<1>11. started.world.address # w.address =>
         started.code = "ok" /\ started.said.kind = "http" /\ env.port \notin w.taken
  <2> SUFFICES ASSUME started.world.address # w.address
               PROVE  started.code = "ok" /\ started.said.kind = "http" /\ env.port \notin w.taken
    OBVIOUS
  <2>1. started.world # w /\ started.world # resolved.world
    BY <1>7
  <2>2. started # resolved
    BY <2>1
  <2>3. PICK place : /\ started.world = [resolved.world EXCEPT !.address = place]
                     /\ settings.kind # "http" => place = resolved.world.address
    BY <1>5, <2>1, <2>2
  <2>4. settings.kind = "http"
    <3>1. settings.kind # "http" => started.world.address = resolved.world.address
      BY <1>7, <2>3
    <3> QED BY <1>7, <3>1
  <2> QED BY <1>1, <1>5, <1>7, <2>1, <2>2, <2>4
<1>12. ASSUME started.code = "ok"
       PROVE  /\ started.said.token # Nothing
              /\ started.said.token \in IF given = {} THEN {started.world.token} ELSE given
              /\ argv.token # Nothing => started.said.token = argv.token
              /\ given = {} => started.said.kind = "http"
  BY <1>1, <1>4, <1>5, <1>8, <1>12
<1> QED BY <1>8, <1>9, <1>10, <1>11, <1>12 DEF started
=============================================================================
