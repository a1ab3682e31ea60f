---------------------------- MODULE Measurements ----------------------------
(***************************************************************************)
(* What is made of a benchmark's readings: the metrics of its samples and  *)
(* its use of memory (packages/benchmark), the comparison with the         *)
(* estimate (optimizer calibration.ts), and what the window is told about  *)
(* a model's profiles (core model-context.ts).  Unknown is null; a reading *)
(* of the host is what is used of its GPUs and of its memory.              *)
(***************************************************************************)
EXTENDS Integers, Sequences, FiniteSets, FiniteSetsExt, SequencesExt

CONSTANT Unknown

Known(S) == S \ {Unknown}
MaxKnown(S) == IF Known(S) = {} THEN Unknown ELSE Max(Known(S))

-----------------------------------------------------------------------------
(* metrics.ts: medians over the samples that allow the figure. *)

(* Twice the median of a bag of numbers, given as a sequence. *)
median2(seq) ==
  IF seq = <<>> THEN Unknown
  ELSE LET sorted == SortSeq(seq, LAMBDA a, b : a < b)
           n == Len(sorted)
       IN  IF n % 2 = 1 THEN 2 * sorted[(n + 1) \div 2]
           ELSE sorted[n \div 2] + sorted[n \div 2 + 1]

Rates(samples, usable(_), rate(_)) ==
  LET chosen == SelectSeq(samples, usable)
  IN  [i \in DOMAIN chosen |-> rate(chosen[i])]

aggregateSamples(samples, peaks) ==
  LET timed(s) == s.ttft # Unknown /\ s.ttft > 0
      decoded(s) == s.ttft # Unknown /\ s.total > s.ttft /\ s.tokens > 0
  IN  [samples |-> Len(samples),
       ttft |-> median2(Rates(samples, timed, LAMBDA s : s.ttft)),
       prefill |-> median2(Rates(samples, LAMBDA s : timed(s) /\ s.prompt > 0,
                                 LAMBDA s : (1000 * s.prompt) \div s.ttft)),
       decode |-> median2(Rates(samples, decoded,
                                LAMBDA s : (1000 * s.tokens) \div (s.total - s.ttft))),
       memoryPeak |-> IF peaks = {} THEN Unknown ELSE Max(peaks)]

-----------------------------------------------------------------------------
(* resource-usage.ts: growth since the reading before the load. *)

delta(now, before) ==
  IF Unknown \in {now, before} THEN Unknown ELSE Max({0, now - before})

(* The largest growth of both together, at one reading. *)
(* (Faulty variant: the largest of each, at different readings.) *)
PeakOfEach(deltas) ==
  LET vram == MaxKnown({d.vram : d \in deltas})
      ram == MaxKnown({d.ram : d \in deltas})
  IN  IF Unknown \in {vram, ram} THEN Unknown ELSE vram + ram

PeakTogether(deltas) ==
  MaxKnown({d.vram + d.ram : d \in {x \in deltas : Unknown \notin {x.vram, x.ram}}})

buildResourceUsageEvidence(before, readings) ==
  LET deltas == {[vram |-> delta(r.vram, before.vram), ram |-> delta(r.ram, before.ram)] :
                   r \in ToSet(readings)}
      vram == MaxKnown({d.vram : d \in deltas})
      ram == MaxKnown({d.ram : d \in deltas})
      total == PeakTogether(deltas)
  IN  [vram |-> vram, ram |-> ram, total |-> total,
       completeness |-> IF total # Unknown THEN "complete"
                        ELSE IF {vram, ram} # {Unknown} THEN "partial" ELSE "unavailable"]

-----------------------------------------------------------------------------
(* calibration.ts: 10% above the estimate is a degradation. *)

estimatedTotal(e) ==
  IF e.total # Unknown THEN e.total
  ELSE IF Unknown \in {e.vram, e.ram} THEN Unknown ELSE e.vram + e.ram

calibrateEstimate(e, status, usage) ==
  LET est == estimatedTotal(e)
      observed == usage.total
      comparable == /\ status = "completed" /\ usage.completeness = "complete"
                    /\ est # Unknown /\ est > 0
  IN  IF ~comparable
      THEN [applied |-> FALSE, rebenchmark |-> TRUE, degraded |-> FALSE, confidence |-> "estimated"]
      ELSE [applied |-> TRUE, rebenchmark |-> FALSE,
            degraded |-> 10 * observed > 11 * est,
            confidence |-> IF observed > est THEN "low" ELSE "estimated"]

-----------------------------------------------------------------------------
(* model-context.ts: how much a measurement still says. *)

Differs(recorded, now) == Unknown \notin {recorded, now} /\ recorded # now

(* Time counts in days, the limit is ttl; a time in the future is stale. *)
(* (Faulty variant: the environment is compared only for fresh evidence.) *)
evidenceAgeFirst(v, now, ttl, ready) ==
  IF v.at = Unknown THEN "partial"
  ELSE IF now < v.at \/ now - v.at > ttl THEN "stale"
  ELSE IF Differs(v.host, ready.host) \/ Differs(v.lmStudio, ready.lmStudio) THEN "changed-environment"
  ELSE IF Unknown \in {v.host, v.lmStudio, ready.host, ready.lmStudio} THEN "partial" ELSE "current"

evidenceStatus(v, now, ttl, ready) ==
  IF v.at = Unknown THEN "partial"
  ELSE IF Differs(v.host, ready.host) \/ Differs(v.lmStudio, ready.lmStudio) THEN "changed-environment"
  ELSE IF now < v.at \/ now - v.at > ttl THEN "stale"
  ELSE IF Unknown \in {v.host, v.lmStudio, ready.host, ready.lmStudio} THEN "partial" ELSE "current"

(* Weakest first: a scenario is as doubtful as its most doubtful part. *)
EVIDENCE_PRIORITY == <<"unmeasured", "current", "partial", "stale", "changed-environment">>

strongestEvidence(values) ==
  IF values = {} THEN "unmeasured"
  ELSE EVIDENCE_PRIORITY[Max({i \in DOMAIN EVIDENCE_PRIORITY : EVIDENCE_PRIORITY[i] \in values})]

ProfileEvidence(p, now, ttl, ready) ==
  IF p.validation = Unknown THEN "unmeasured" ELSE evidenceStatus(p.validation, now, ttl, ready)

(* One scenario of one model: its profiles, results and default. *)
Scenario(in, model, task) ==
  LET profiles == {p \in in.profiles : p.model = model /\ p.task = task}
      results == {b \in in.benchmarks : b.model = model /\ b.task = task}
      default == in.defaults[<<model, task>>]
      live == default \in {p.id : p \in profiles}
  IN  [hasProfiles |-> profiles # {},
       defaultState |-> IF default = Unknown THEN "none" ELSE IF live THEN "available" ELSE "stale",
       chosen |-> {p.id : p \in {q \in profiles : live /\ q.id = default}},
       evidence |-> strongestEvidence(
                      {ProfileEvidence(p, in.now, in.ttl, in.ready) : p \in profiles}
                      \cup {evidenceStatus(b, in.now, in.ttl, in.ready) : b \in results})]

(* Every model that is discovered, has a profile or was measured. *)
buildModelContext(in) ==
  LET tasks(m) == {p.task : p \in {q \in in.profiles : q.model = m}}
                  \cup {b.task : b \in {c \in in.benchmarks : c.model = m}}
      models == in.models \cup {p.model : p \in in.profiles} \cup {b.model : b \in in.benchmarks}
  IN  [m \in models |->
         [availability |-> IF m \in in.models THEN "available"
                           ELSE IF in.discovery = "ready" THEN "missing" ELSE "unknown",
          loaded |-> IF in.active # Unknown THEN in.active = m
                     ELSE IF in.runtime = "idle" THEN FALSE ELSE Unknown,
          scenarios |-> [t \in tasks(m) |-> Scenario(in, m, t)]]]
=============================================================================
