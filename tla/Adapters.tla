------------------------------ MODULE Adapters ------------------------------
(***************************************************************************)
(* Finding LM Studio (packages/lmstudio-adapter/src/capability.ts,         *)
(* router.ts) and what two seams of the sidecar make of it (wiring.ts).    *)
(*                                                                         *)
(* A probe asks the REST server, then the lms command, and its result is   *)
(* kept for Ttl ticks.  Probes overlap: each stores its own result when it *)
(* ends.  A read of the model context asks for the adapters each time; the *)
(* activation seam asks once and keeps the bundle for its lifetime.  LM    *)
(* Studio is started and stopped at any time.                              *)
(***************************************************************************)
EXTENDS Naturals

CONSTANTS
  Clients,   \* each makes one call of the sidecar at a time, again and again
  Ttl,       \* DEFAULT_PROBE_TTL_SECONDS, in ticks
  MaxWait    \* how long the lms command may take in a probe, in ticks

ASSUME AdaptersAssumption == Ttl \in Nat \ {0} /\ MaxWait \in Nat

VARIABLES
  host,      \* external: which of the REST server and the lms command answer in time
  cache,     \* probeCache for the one base URL: the last stored probe, for how long
  bundle,    \* cached, of createSidecarActivationSeam
  calls      \* the call of each client, and where it is

adapterVars == <<host, cache, bundle, calls>>

Runtimes == {"rest", "unreachable"}

(* An observation older than any that may be served is not told apart. *)
Oldest == Ttl + MaxWait + 1
Probe == [rest : BOOLEAN, lms : BOOLEAN, age : 0 .. Oldest]
NothingSeen == [rest |-> FALSE, lms |-> FALSE, age |-> 0]

Empty == [seen |-> NothingSeen, left |-> 0]   \* or expired, which no call tells apart

Kinds == {"context", "forced", "activation"}
Call ==
  [kind : Kinds, seen : Probe,
   at : {"idle", "rest", "cli", "list", "active", "first", "second", "answered"},
   using : Runtimes, wait : 0 .. MaxWait,
   discovery : BOOLEAN, runtime : BOOLEAN]
NoCall == [kind |-> "context", at |-> "idle", seen |-> NothingSeen, using |-> "unreachable", wait |-> 0,
         discovery |-> FALSE, runtime |-> FALSE]

TypeOK ==
  /\ host \in [rest : BOOLEAN, lms : BOOLEAN]
  /\ cache \in [seen : Probe, left : 0 .. Ttl]
  /\ bundle \in Runtimes \cup {"none"}
  /\ calls \in [Clients -> Call]

AdaptersInit ==
  /\ host \in [rest : BOOLEAN, lms : BOOLEAN]
  /\ cache = Empty
  /\ bundle = "none"
  /\ calls = [c \in Clients |-> NoCall]

To(c, at) == [c EXCEPT !.at = at, !.wait = 0]

-----------------------------------------------------------------------------
(* resolveAdapters: writes go over REST or fail; reads fall back on lms. *)

RuntimeOf(seen) == IF seen.rest THEN "rest" ELSE "unreachable"
Lists(seen) == (seen.rest /\ host.rest) \/ (~seen.rest /\ seen.lms /\ host.lms)
Reaches(runtime) == runtime = "rest" /\ host.rest

(* (Faulty variant: reads take the adapters the activation seam keeps.) *)
ResolvesKept(c, kind, seen) ==
  LET using == [NoCall EXCEPT !.kind = kind, !.using =
                  IF bundle = "none" THEN RuntimeOf(seen) ELSE bundle] IN
  IF kind = "activation"
  THEN bundle' = RuntimeOf(seen) /\ calls' = [calls EXCEPT ![c] = To(using, "first")]
  ELSE UNCHANGED bundle /\ calls' = [calls EXCEPT ![c] = [To(using, "list") EXCEPT !.seen = seen]]

(* The call goes on with the adapters of a probe; the activation seam keeps its
   bundle, for this call and all later ones. *)
Resolves(c, kind, seen) ==
  LET using == [NoCall EXCEPT !.kind = kind, !.using = RuntimeOf(seen)] IN
  IF kind = "activation"
  THEN bundle' = RuntimeOf(seen) /\ calls' = [calls EXCEPT ![c] = To(using, "first")]
  ELSE UNCHANGED bundle /\ calls' = [calls EXCEPT ![c] = [To(using, "list") EXCEPT !.seen = seen]]

-----------------------------------------------------------------------------
(* probeCapabilities. *)

(* (Faulty variant: each use of the entry renews it.) *)
HitRenews(c, kind) == Resolves(c, kind, cache.seen) /\ cache' = [cache EXCEPT !.left = Ttl]

(* The stored probe is served; its lifetime counts from when it was stored. *)
Hit(c, kind) == Resolves(c, kind, cache.seen) /\ UNCHANGED cache

(* A call that needs adapters: the bundle, the cache, or a live probe. *)
Begin(c, kind) ==
  /\ calls[c].at = "idle"
  /\ UNCHANGED host
  /\ IF kind = "activation" /\ bundle # "none"
     THEN /\ calls' = [calls EXCEPT ![c] = [To(NoCall, "first") EXCEPT !.kind = kind, !.using = bundle]]
          /\ UNCHANGED <<cache, bundle>>
     ELSE IF cache.left > 0 /\ kind # "forced" THEN Hit(c, kind)
     ELSE /\ calls' = [calls EXCEPT ![c] = [To(NoCall, "rest") EXCEPT !.kind = kind]]
          /\ UNCHANGED <<cache, bundle>>

ProbeRest(c) ==
  /\ calls[c].at = "rest"
  /\ calls' = [calls EXCEPT ![c] =
                 [To(@, "cli") EXCEPT !.seen = [NothingSeen EXCEPT !.rest = host.rest]]]
  /\ UNCHANGED <<host, cache, bundle>>

(* `lms status`, `lms ls` if that was understood, whose answer goes into the
   matrices alone, and the import of the SDK: one wait, and the probe ends.  Its
   result replaces whatever another probe stored, and lives from now. *)
Stores(c) ==
  /\ calls[c].at = "cli"
  /\ LET seen == [calls[c].seen EXCEPT !.lms = host.lms] IN
     /\ cache' = [seen |-> seen, left |-> Ttl]
     /\ Resolves(c, calls[c].kind, seen)
  /\ UNCHANGED host

-----------------------------------------------------------------------------
(* The model context: the list of models, then the active one; the forced
   probe of the command line only lists.  What no later step reads is forgotten. *)

ListsModels(c) ==
  /\ calls[c].at = "list"
  /\ calls' = [calls EXCEPT ![c] =
                 [To(@, IF calls[c].kind = "context" THEN "active" ELSE "answered") EXCEPT
                    !.discovery = Lists(calls[c].seen), !.seen.age = 0, !.seen.lms = FALSE]]
  /\ UNCHANGED <<host, cache, bundle>>

ReadsActive(c) ==
  /\ calls[c].at = "active"
  /\ calls' = [calls EXCEPT ![c] = [To(@, "answered") EXCEPT !.runtime = Reaches(calls[c].using),
                                                            !.using = "unreachable"]]
  /\ UNCHANGED <<host, cache, bundle>>

(* An activation: its first call of the runtime, and, when that reached the
   host, a later one.  Each looks up the bundle again. *)
Works(c) ==
  /\ \/ /\ calls[c].at = "first"
        /\ LET reached == Reaches(calls[c].using) IN
           calls' = [calls EXCEPT ![c] =
                       [To(@, IF reached THEN "second" ELSE "answered") EXCEPT
                          !.runtime = reached, !.using = bundle]]
     \/ /\ calls[c].at = "second"
        /\ calls' = [calls EXCEPT ![c] =
                       [To(@, "answered") EXCEPT !.runtime = Reaches(calls[c].using)]]
  /\ UNCHANGED <<host, cache, bundle>>

(* The client has its answer, and may ask again. *)
Returns(c) ==
  /\ calls[c].at = "answered"
  /\ calls' = [calls EXCEPT ![c] = NoCall]
  /\ UNCHANGED <<host, cache, bundle>>

-----------------------------------------------------------------------------
(* A tick.  The lms command is given up at its timeouts; how long the other calls
   wait tells no property anything. *)
Older(seen) == [seen EXCEPT !.age = IF @ < Oldest THEN @ + 1 ELSE Oldest]

Tick ==
  /\ \A c \in Clients : calls[c].wait < MaxWait
  /\ cache' = IF cache.left > 1 THEN [seen |-> Older(cache.seen), left |-> cache.left - 1] ELSE Empty
  /\ calls' = [c \in Clients |->
                 IF calls[c].at = "cli"
                 THEN [calls[c] EXCEPT !.wait = @ + 1, !.seen = Older(@)]
                 ELSE calls[c]]
  /\ UNCHANGED <<host, bundle>>

HostChanges ==
  /\ host' \in [rest : BOOLEAN, lms : BOOLEAN]
  /\ host' # host
  /\ UNCHANGED <<cache, bundle, calls>>

(* Every step of a call but its beginning. *)
Proceeds(c) ==
  \/ ProbeRest(c) \/ Stores(c)
  \/ ListsModels(c) \/ ReadsActive(c) \/ Works(c) \/ Returns(c)

AdaptersNext ==
  \/ \E c \in Clients : Proceeds(c) \/ \E kind \in Kinds : Begin(c, kind)
  \/ Tick
  \/ HostChanges

AdaptersSpec == AdaptersInit /\ [][AdaptersNext]_adapterVars

(* A call that waits gets its answer or times out, and time passes.  Nobody has
   to ask, and LM Studio has to do nothing. *)
FairSpec == AdaptersSpec /\ SF_adapterVars(Tick) /\ \A c \in Clients : WF_adapterVars(Proceeds(c))

-----------------------------------------------------------------------------
(* What a read is told was seen no longer ago than the lifetime of a stored
   probe and the timeouts of the probe itself, however probes overlap and
   however often the entry is used (capability.ts:129-146). *)
ServedFresh ==
  \A c \in Clients : calls[c].at = "list" =>
    calls[c].seen.age <= MaxWait + (IF calls[c].kind = "forced" THEN 0 ELSE Ttl - 1)

(* Once LM Studio is up for good, reads of the model context come to show it:
   no stored probe and no late one keeps it offline (deps.ts:303-308, "a server
   that comes up mid-process is picked up"). *)
ReadsRecover ==
  <>[]host.rest =>
    <>[](\A c \in Clients : calls[c].kind # "activation" /\ calls[c].at = "answered" =>
           /\ calls[c].seen.rest /\ calls[c].discovery
           /\ calls[c].kind = "context" => calls[c].runtime)

(* "Cannot reach LM Studio - start it and retry." (locales/en/common.json:437):
   once LM Studio is up for good, activations come to reach it. *)
RetryReaches ==
  <>[]host.rest =>
    <>[](\A c \in Clients : calls[c].kind = "activation" /\ calls[c].at = "answered" =>
           calls[c].runtime)
=============================================================================
