----------------------------- MODULE Optimizer -----------------------------
(***************************************************************************)
(* From a baseline and a rule to ranked candidates (packages/optimizer,    *)
(* driven by core recommendation.ts): drafts at the quantiles of the       *)
(* rule's ranges, hard constraints, at most MAX_ESTIMATE_CALLS estimates,  *)
(* the ladder of lower offloads for what does not fit the GPU, the safety  *)
(* margin, the static score, and measurements on this host that outrank    *)
(* it.  Memory counts in units of 512 MiB, offload in quarters, scores in  *)
(* thousandths; Unknown is null.  What the estimator answers is an input.  *)
(* Lists whose elements have distinct ids are sets, and the order of such  *)
(* a list is told by its ids.                                              *)
(***************************************************************************)
EXTENDS Integers, Sequences, FiniteSets, FiniteSetsExt

CONSTANT Unknown

MAX_ESTIMATE_CALLS == 12
MAX_CANDIDATES == 6
GPU_OFFLOAD_LADDER == 0 .. 4

OrDefault(value, default) == IF value = Unknown THEN default ELSE value
Clamp(x, low, high) == Max({low, Min({x, high})})

-----------------------------------------------------------------------------
(* A finite set in an order, the set of its pairs of an earlier and a later
   element: what comes before x, the first n, and the first n as a sequence. *)

Before(S, order, x) == {y \in S : <<y, x>> \in order}
Place(S, order, x) == Cardinality(Before(S, order, x)) + 1
FirstOf(S, order, n) == {x \in S : Place(S, order, x) <= n}
InOrder(S, order, n) ==
  [k \in 1 .. Min({n, Cardinality(S)}) |-> CHOOSE x \in S : Place(S, order, x) = k]

-----------------------------------------------------------------------------
(* resource-fit.ts and safe-margin.ts *)

gpuReserve(total) == Max({1, (5 * OrDefault(total, 0) + 50) \div 100})
ramReserve(total) == Max({4, (10 * OrDefault(total, 0) + 50) \div 100})

totalUsage(e) ==
  IF e.total # Unknown THEN e.total
  ELSE IF Unknown \in {e.ram, e.vram} THEN Unknown ELSE e.vram + e.ram

classifyResourceFit(e, h) ==
  LET free == OrDefault(h.ramFree, h.ramTotal)
      total == totalUsage(e)
      gpu == h.vramFree
      known == total # Unknown /\ free # Unknown
      hostCarries == total + ramReserve(h.ramTotal) <= free
  IN  IF ~e.exact \/ e.vram = Unknown THEN "resource-unknown"
      ELSE IF (e.vram = 0 \/ e.offload = 0) /\ known
        THEN IF hostCarries THEN "host-memory" ELSE "resource-insufficient"
      ELSE IF e.vram # 0 /\ e.offload # 0 /\ gpu # Unknown /\ e.vram + gpuReserve(h.vramTotal) <= gpu
        THEN "gpu-resident"
      ELSE IF known /\ gpu # Unknown
        THEN IF hostCarries THEN "hybrid-memory" ELSE "resource-insufficient"
      ELSE "resource-unknown"

recommendable(e, h) ==
  classifyResourceFit(e, h) \in {"gpu-resident", "hybrid-memory", "host-memory"}

(* The reason a candidate is unsafe, or "safe". *)
(* (Faulty variant: what is short of the rule's floor passes.) *)
MarginWithoutFloor(e, h, rule) ==
  IF ~e.exact \/ e.vram = Unknown THEN "rough-estimate"
  ELSE IF h.vramFree = Unknown THEN "no-gpu-vram"
  ELSE IF e.vram > h.vramFree THEN "over-vram" ELSE "safe"

computeSafetyMargin(e, h, rule) ==
  IF rule.minVram # Unknown /\ (h.vramFree = Unknown \/ h.vramFree < rule.minVram)
  THEN "under-min-vram" ELSE MarginWithoutFloor(e, h, rule)

-----------------------------------------------------------------------------
(* candidate.ts *)

(* The quantile of each of n ranges, draft by draft, without repetition. *)
quantileVectors(n) ==
  LET all(q) == [i \in 1 .. n |-> q]
      split(a, b) == [i \in 1 .. n |-> IF 2 * i <= n + 1 THEN a ELSE b]
  IN  CASE n = 0 -> <<all(0)>>
        [] n = 1 -> <<all(0), all(1), all(2)>>
        [] OTHER -> <<all(0), all(1), all(2), split(1, 0), split(1, 2), split(2, 0)>>

valueAt(hint, quantile) ==
  CASE quantile = 0 -> hint.min
    [] quantile = 2 -> hint.max
    [] OTHER -> (hint.min + hint.max + 1) \div 2

(* The draft of a vector: the baseline with the hints laid over it. *)
applyHints(base, hints, quantiles) ==
  LET at(key) == CHOOSE j \in DOMAIN hints : hints[j].key = key
      hinted == {hints[j].key : j \in DOMAIN hints}
  IN  [key \in DOMAIN base |-> IF key \in hinted THEN valueAt(hints[at(key)], quantiles[at(key)]) ELSE base[key]]

generateCandidateDrafts(base, rule) ==
  LET vectors == quantileVectors(Len(rule.hints))
  IN  {[id |-> <<i, Unknown>>, config |-> applyHints(base, rule.hints, vectors[i])] :
         i \in IF rule.architectureFits THEN DOMAIN vectors ELSE {}}

(* The support of the least supported capability the rule requires is exact,
   unknown or unavailable; all drafts share the concurrency of the baseline. *)
Kept(draft, rule) ==
  /\ rule.minContext = Unknown \/ OrDefault(draft.config.context, 0) >= rule.minContext
  /\ rule.concurrencyFits
  /\ rule.support # "unavailable"

filterByHardConstraints(drafts, rule) == {d \in drafts : Kept(d, rule)}

-----------------------------------------------------------------------------
(* offload-ladder.ts *)

offloadVariant(draft, step) ==
  [id |-> <<draft.id[1], step>>, config |-> [draft.config EXCEPT !.offload = step]]

(* (Faulty variant: the rungs above the draft's own.) *)
RungsAbove(draft) ==
  {offloadVariant(draft, s) : s \in {t \in GPU_OFFLOAD_LADDER : t > OrDefault(draft.config.offload, 4)}}

Rungs(draft) ==
  {offloadVariant(draft, s) : s \in {t \in GPU_OFFLOAD_LADDER : t < OrDefault(draft.config.offload, 4)}}

(* Drafts are looked at as they were generated, and the rungs of each from the
   highest down. *)
LooksAt(id) == 10 * id[1] + (IF id[2] = Unknown THEN 0 ELSE 5 - id[2])
LookedAt(drafts) == {p \in drafts \X drafts : LooksAt(p[1].id) < LooksAt(p[2].id)}

(* Lower rungs for every draft whose exact estimate is not GPU-resident. *)
planLadderFallback(kept, estimates, h, budget) ==
  LET lowered == {d \in kept : /\ d.id \in DOMAIN estimates /\ estimates[d.id].exact
                              /\ classifyResourceFit(estimates[d.id], h) # "gpu-resident"}
      planned == UNION {Rungs(d) : d \in lowered}
  IN  FirstOf(planned, LookedAt(planned), budget)

-----------------------------------------------------------------------------
(* scoring.ts, in thousandths; unknown values are neutral.  The batch size and
   the temperature are left to LM Studio. *)

breakdown(config, e, h) ==
  LET neutral(v, x) == IF v = Unknown THEN 500 ELSE x
      context == neutral(config.context, Clamp(config.context, 0, 8) * 125)
  IN  [vramEfficiency |-> IF h.vramFree = 0 THEN 500
                          ELSE Clamp(1000 - (1000 * e.vram) \div h.vramFree, 0, 1000),
       latency |-> (neutral(config.offload, 250 * config.offload)
                    + neutral(config.context, 1000 - context)) \div 2,
       throughput |-> 500,
       quality |-> (context + 500) \div 2]

scoreCandidate(config, rule, e, h) ==
  LET b == breakdown(config, e, h)
      w == rule.weights
  IN  [total |-> (w[1] * b.vramEfficiency + w[2] * b.latency + w[3] * b.throughput
                  + w[4] * b.quality) \div (w[1] + w[2] + w[3] + w[4]),
       confidence |-> IF e.exact /\ computeSafetyMargin(e, h, rule) = "safe"
                         /\ rule.support # "unknown" THEN "high" ELSE "low",
       measured |-> FALSE]

-----------------------------------------------------------------------------
(* feedback.ts: records are the benchmark log, oldest first. *)

fingerprintCompatible(record, h) ==
  Unknown \in {record.host, h.host} \/ record.host = h.host

Matches(record, config, h) ==
  /\ record.completed /\ record.decode # Unknown
  /\ record.config = config
  /\ fingerprintCompatible(record, h)

(* The most recent match; the later one in the log wins a tie. *)
matchMeasuredEvidence(records, config, h) ==
  LET matching == {i \in DOMAIN records : Matches(records[i], config, h)}
      newest(i) == \A j \in matching :
        records[j].at < records[i].at \/ (records[j].at = records[i].at /\ j <= i)
  IN  IF matching = {} THEN Unknown ELSE records[CHOOSE i \in matching : newest(i)]

(* 70% decode throughput and 30% inverse time to the first token. *)
measuredBlend(r, maxDecode, maxTtft) ==
  LET decode == IF maxDecode = 0 THEN 0 ELSE (1000 * r.decode) \div maxDecode
      ttft == IF Unknown \in {r.ttft, maxTtft} \/ maxTtft = 0 THEN 500
              ELSE 1000 - (1000 * r.ttft) \div maxTtft
  IN  (7 * decode + 3 * ttft) \div 10

applyMeasuredFeedback(candidates, records, h) ==
  LET evidence(c) == matchMeasuredEvidence(records, c.config, h)
      found == {evidence(c) : c \in candidates} \ {Unknown}
      ttfts == {r.ttft : r \in found} \ {Unknown}
      maxDecode == Max({0} \cup {r.decode : r \in found})
      maxTtft == IF ttfts = {} THEN Unknown ELSE Max(ttfts)
      Measured(r) == [total |-> measuredBlend(r, maxDecode, maxTtft), confidence |-> "high", measured |-> TRUE]
  IN  {IF evidence(c) = Unknown THEN c ELSE [c EXCEPT !.score = Measured(evidence(c))] : c \in candidates}

(* The alphabet's order of the ids: low-high, max, mid, mid-high, mid-low, the
   rungs of mid, min; the rungs of a draft follow it, the lowest first. *)
IdRank(id) ==
  LET place == CASE id[1] = 2 /\ id[2] # Unknown -> 6
                 [] OTHER -> <<7, 3, 2, 5, 4, 1>>[id[1]]
  IN  10 * place + (IF id[2] = Unknown THEN 0 ELSE 1 + id[2])

(* Measured before estimated, then by value, then by id. *)
RanksBefore(a, b) ==
  IF a.score.measured # b.score.measured THEN a.score.measured
  ELSE IF a.score.total # b.score.total THEN a.score.total > b.score.total
  ELSE IdRank(a.id) < IdRank(b.id)

-----------------------------------------------------------------------------
(* recommendation.ts of the optimizer and of core *)

(* (Faulty variant: the cut comes before the measurements.) *)
RankedTooLate(candidates, records, h) ==
  LET first == applyMeasuredFeedback(FirstOf(candidates, LookedAt(candidates), MAX_CANDIDATES), records, h)
  IN  InOrder(first, {p \in first \X first : RanksBefore(p[1], p[2])}, MAX_CANDIDATES)

Ranked(candidates, records, h) ==
  LET all == applyMeasuredFeedback(candidates, records, h)
  IN  InOrder(all, {p \in all \X all : RanksBefore(p[1], p[2])}, MAX_CANDIDATES)

(* What is safe by its estimate, with its static score. *)
Assessed(drafts, rule, estimates, h) ==
  {[id |-> d.id, config |-> d.config, estimate |-> estimates[d.id],
    score |-> scoreCandidate(d.config, rule, estimates[d.id], h)] :
     d \in {x \in filterByHardConstraints(drafts, rule) :
              x.id \in DOMAIN estimates /\ computeSafetyMargin(estimates[x.id], h, rule) = "safe"}}

generateRecommendation(drafts, rule, estimates, h, records) ==
  Ranked(Assessed(drafts, rule, estimates, h), records, h)

(* What the estimator knows of a set of drafts; a failing call counts. *)
Estimates(drafts, estimator) ==
  LET answered == {d \in drafts : estimator[d.config] # Unknown}
  IN  [id \in {d.id : d \in answered} |-> estimator[(CHOOSE d \in drafts : d.id = id).config]]

(* The drafts, what was asked for them and how often: the kept drafts first,
   then the rungs of those that do not fit, within one budget. *)
Examined(in) ==
  LET drafts == generateCandidateDrafts(in.base, in.rule)
      kept == filterByHardConstraints(drafts, in.rule)
      asked == FirstOf(kept, LookedAt(kept), MAX_ESTIMATE_CALLS)
      first == Estimates(asked, in.estimator)
      extra == planLadderFallback(kept, first, in.host, MAX_ESTIMATE_CALLS - Cardinality(asked))
      second == Estimates(extra, in.estimator)
  IN  [drafts |-> drafts \cup extra,
       estimates |-> [id \in DOMAIN first \cup DOMAIN second |->
                        IF id \in DOMAIN first THEN first[id] ELSE second[id]],
       calls |-> Cardinality(asked) + Cardinality(extra)]

(* recommend: the ranked candidates; the first one is selected. *)
recommend(in) ==
  LET a == Examined(in)
  IN  [candidates |-> generateRecommendation(a.drafts, in.rule, a.estimates, in.host, in.records),
       calls |-> a.calls]
=============================================================================
