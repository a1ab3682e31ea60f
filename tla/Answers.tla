------------------------------- MODULE Answers -------------------------------
(***************************************************************************)
(* One command of lmps, one call of a method of the sidecar, one look at   *)
(* the models for the window, or one recommendation: what it was asked and *)
(* what it found, and what it answered.                                    *)
(***************************************************************************)
EXTENDS Sidecar

CONSTANTS
  None,          \* no answer yet
  Estimator(_)   \* what LM Studio estimates of a model, for each configuration

ASSUME NothingAssumption == Nothing \notin Nat

INSTANCE Measurements WITH Unknown <- Nothing
INSTANCE Optimizer WITH Unknown <- Nothing

VARIABLES
  input,   \* what is asked, and the world it is asked in
  output   \* the answer, and the world that is left

(* lmps runs once and ends. *)
Command ==
  /\ input.kind = "command"
  /\ output' = runCli(input.argv, input.world)

(* A method, in a process that serves it. *)
Call ==
  /\ input.kind = "call"
  /\ output' = handle(input.method, input.params, input.world)

(* The models of the window, with what was measured of them. *)
Project ==
  /\ input.kind = "context"
  /\ output' = buildModelContext(input)

(* A recommendation, with what the estimator knows of the model. *)
Posed(i) ==
  [base |-> i.base, rule |-> i.rule, host |-> i.host, records |-> i.records,
   estimator |-> Estimator(i.model)]
Recommend ==
  /\ input.kind = "recommend"
  /\ output' = recommend(Posed(input))

(* A world is a record, and its profiles are a map from their ids; a run of the
   activation ends in one of these ways (activation/runner.ts, exit-codes.ts). *)
Endings == {"active", "canceled", "failed-but-recovered", "failed", "ACTIVATION_LOCK_BUSY", "ACTIVATION_PREFLIGHT"}
IsWorld(w) ==
  /\ w = [field \in DOMAIN w |-> w[field]] /\ {"profiles", "locale"} \subseteq DOMAIN w
  /\ w.profiles = [id \in DOMAIN w.profiles |-> w.profiles[id]]
  /\ w.host.run.outcome \in Endings

(* Numbers or nothing; what is measured or estimated has numbers, or nothing,
   for figures. *)
Figure == Nat \cup {Nothing}
IsRecord(r) ==
  /\ r # Nothing /\ r.completed \in BOOLEAN /\ r.at \in Nat
  /\ r.decode \in Figure /\ r.ttft \in Figure
IsEstimate(e) == e.exact \in BOOLEAN /\ e.vram \in Figure

(* What a recommendation is asked with: the estimator knows of every offload
   for the contexts of the baseline and of the rule's ranges, or answers nothing
   of it; and the rule weighs something (schema: domain/src/rules.ts). *)
IsQuestion(q) ==
  LET contexts == {c.context : c \in DOMAIN q.estimator}
      Allowed(hint) == IF hint.key = "offload" THEN GPU_OFFLOAD_LADDER ELSE contexts \ {Nothing}
  IN  /\ contexts \subseteq Figure
      /\ DOMAIN q.estimator = [offload : GPU_OFFLOAD_LADDER \cup {Nothing}, context : contexts]
      /\ \A c \in DOMAIN q.estimator : q.estimator[c] # Nothing => IsEstimate(q.estimator[c])
      /\ q.base \in DOMAIN q.estimator
      /\ q.rule.hints \in Seq([key : {"offload", "context"}, min : Nat, max : Nat])
      /\ \A j \in DOMAIN q.rule.hints : \A quantile \in 0 .. 2 :
           valueAt(q.rule.hints[j], quantile) \in Allowed(q.rule.hints[j])
      /\ q.rule.minVram \in Figure /\ q.rule.minContext \in Figure
      /\ q.rule.weights \in [1 .. 4 -> Nat] /\ \E k \in 1 .. 4 : q.rule.weights[k] > 0
      /\ q.host.vramFree \in Figure
      /\ q.records \in Seq({q.records[i] : i \in DOMAIN q.records})
      /\ \A i \in DOMAIN q.records : IsRecord(q.records[i])

(* What the ladder counts on: "0 means fully host-resident" (offload-ladder.ts:7),
   so that what is estimated exactly is so without offload, and with no VRAM. *)
HostedWithoutGpu(estimator) ==
  \A c \in DOMAIN estimator :
    estimator[c] # Nothing /\ estimator[c].exact =>
      LET hosted == [c EXCEPT !.offload = 0]
      IN  /\ hosted \in DOMAIN estimator /\ estimator[hosted] # Nothing
          /\ estimator[hosted].exact /\ estimator[hosted].vram = 0

(* Whatever is asked is answered once. *)
Unanswered ==
  /\ output = None
  /\ input.kind \in {"command", "call"} => IsWorld(input.world)
  /\ input.kind = "recommend" => IsQuestion(Posed(input))
Respond == output = None /\ UNCHANGED input /\ (Command \/ Call \/ Project \/ Recommend)
AnswersSpec == Unanswered /\ [][Respond]_<<input, output>>

Answered(kind) == input.kind = kind /\ output # None

-----------------------------------------------------------------------------
(* Evidence of another machine is shown as such for the scenario, however old
   it is and whatever else is known; and a default is offered only when its
   profile exists for that model (model-context.ts:99-153, 208-226). *)
OtherMachineIsShown ==
  Answered("context") =>
    \A m \in DOMAIN output : \A t \in DOMAIN output[m].scenarios :
      LET s == output[m].scenarios[t]
          evidence == {p.validation : p \in {q \in input.profiles : q.model = m /\ q.task = t}}
                        \cup {b \in input.benchmarks : b.model = m /\ b.task = t}
      IN  /\ (\E e \in evidence \ {Nothing} : /\ e.at # Nothing
                                              /\ Differs(e.host, input.ready.host))
               => s.evidence = "changed-environment"
          /\ s.defaultState = "available"
               => \E p \in input.profiles : p.model = m /\ p.task = t /\ p.id \in s.chosen

(* A refused command (exit code 4), and a call that is refused for what it
   asks, leave profiles, backups, files, documents, defaults, token and host as
   they found them; only the language may have been stored, and the refusal
   noted (commands/profile.ts:134 "never leave a half-applied create"). *)
RefusedLeavesWorld ==
  /\ Answered("command") /\ output.exit = 4 =>
       output.world = [input.world EXCEPT !.locale = output.world.locale]
  /\ Answered("call") /\ output.code \notin {"ok", "INTERNAL"} =>
       output.world = [input.world EXCEPT !.notice = output.world.notice, !.audits = output.world.audits]

(* What is recommended was estimated exactly, lies within the free VRAM and
   the rule's demands, and was asked for within the budget of calls; all that
   is safe is offered, but for the cut; and if any configuration asked for and
   safe was measured on this machine, the selected one was, however its static
   score compares (feedback.ts:1-20, cut by recommendation.ts only after the
   ranking). *)
RecommendationSound ==
  Answered("recommend") =>
    LET in == Posed(input)
        asked == Examined(in)
        offered == output.candidates
        safe == {d \in filterByHardConstraints(asked.drafts, in.rule) :
                   /\ d.id \in DOMAIN asked.estimates
                   /\ computeSafetyMargin(asked.estimates[d.id], in.host, in.rule) = "safe"}
        measured == {d \in safe : \E i \in DOMAIN in.records :
                       LET r == in.records[i]
                       IN  r.completed /\ r.config = d.config /\ r.host = in.host.host /\ r.decode # Nothing}
    IN  /\ output.calls <= MAX_ESTIMATE_CALLS
        /\ Len(offered) = Min({MAX_CANDIDATES, Cardinality(safe)})
        /\ \A i, j \in DOMAIN offered : offered[i].id = offered[j].id => i = j
        /\ \A i \in DOMAIN offered :
             LET c == offered[i]
             IN  /\ c.estimate = in.estimator[c.config] /\ c.estimate.exact
                 /\ c.estimate.vram <= in.host.vramFree
                 /\ in.rule.minVram # Nothing => in.host.vramFree >= in.rule.minVram
                 /\ in.rule.minContext # Nothing => OrDefault(c.config.context, 0) >= in.rule.minContext
        /\ measured # {} => offered[1].score.measured

(* A model that is larger than the GPU but fits the host is offered with a
   part of it on the GPU: whenever an answered draft is hybrid and the rule
   sets no floor of VRAM, something is recommended (README.md:76-77). *)
BiggerThanVramIsOffered ==
  Answered("recommend") =>
    LET in == Posed(input)
        asked == Examined(in)
        hybrid == {id \in DOMAIN asked.estimates :
                     classifyResourceFit(asked.estimates[id], in.host) = "hybrid-memory"}
    IN  hybrid # {} /\ in.rule.minVram = Nothing => output.candidates # <<>>
=============================================================================
