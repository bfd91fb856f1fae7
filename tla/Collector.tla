----------------------------- MODULE Collector ------------------------------
(***************************************************************************)
(* collect_resources.py: from the raw entries that cAdvisor has of one     *)
(* container to the aggregates of the report.  Every counter of the script *)
(* (CPU time, network bytes, throttled time) is cumulative and goes back   *)
(* to zero when the container restarts; one counter stands for them all.   *)
(* Times are in ticks, rates in percent, aggregates in hundredths.         *)
(***************************************************************************)
EXTENDS Subsequences, FiniteSets

Lesser(a, b) == IF a < b THEN a ELSE b

\* Mutant of Rate: without the clamp.
RateUnclamped(prev, cur) ==
  IF cur.ts > prev.ts THEN (100 * (cur.count - prev.count)) \div (cur.ts - prev.ts) ELSE 0

\* _to_samples: the counter's increase per tick, clamped to zero.
Rate(prev, cur) ==
  IF cur.ts > prev.ts /\ cur.count > prev.count
  THEN (100 * (cur.count - prev.count)) \div (cur.ts - prev.ts) ELSE 0

\* Pairwise: the first raw entry has no baseline.
ToSamples(raw) ==
  IF raw = <<>> THEN <<>>
  ELSE [k \in 1 .. Len(raw) - 1 |->
          [ts |-> raw[k + 1].ts, rate |-> Rate(raw[k], raw[k + 1]), count |-> raw[k + 1].count]]

\* Mutant of InWindow: a sample on either edge is left out.
InWindowStrict(samples, start, end) ==
  Pick(samples, {k \in DOMAIN samples : start < samples[k].ts /\ samples[k].ts < end})

\* _collect_one.
InWindow(samples, start, end) ==
  Pick(samples, {k \in DOMAIN samples : start <= samples[k].ts /\ samples[k].ts <= end})

\* main: without the warm-up, unless nothing were left.
Kept(samples, cutoff) ==
  LET kept == Pick(samples, {k \in DOMAIN samples : samples[k].ts >= cutoff})
  IN IF kept = <<>> THEN samples ELSE kept

-----------------------------------------------------------------------------
(* Aggregates of a sequence of numbers.                                     *)

\* sorted(values)[k], counted from zero.
Ranked(values, k) ==
  CHOOSE v \in {values[n] : n \in DOMAIN values} :
    /\ Cardinality({n \in DOMAIN values : values[n] < v}) <= k
    /\ k < Cardinality({n \in DOMAIN values : values[n] <= v})

\* _quantile_sorted, with q in percent.
Quantile(values, q) ==
  LET at == (Len(values) - 1) * q
      lo == at \div 100
      hi == Lesser(lo + 1, Len(values) - 1)
  IN Ranked(values, lo) * (100 - (at % 100)) + Ranked(values, hi) * (at % 100)

Total(values) ==
  LET sum[n \in 0 .. Len(values)] == IF n = 0 THEN 0 ELSE sum[n - 1] + values[n]
  IN sum[Len(values)]

\* stats.
Stats(values) ==
  IF values = <<>> THEN [min |-> 0, avg |-> 0, p50 |-> 0, p95 |-> 0, p99 |-> 0, max |-> 0]
  ELSE [min |-> 100 * Ranked(values, 0),
        avg |-> (100 * Total(values)) \div Len(values),
        p50 |-> Quantile(values, 50),
        p95 |-> Quantile(values, 95),
        p99 |-> Quantile(values, 99),
        max |-> 100 * Ranked(values, Len(values) - 1)]

\* The delta of a cumulative counter: max less min.
Delta(values) ==
  IF values = <<>> THEN 0 ELSE Ranked(values, Len(values) - 1) - Ranked(values, 0)

\* _aggregate.
Aggregate(samples) ==
  LET column(f) == [k \in DOMAIN samples |-> samples[k][f]]
  IN [samples |-> Len(samples), rate |-> Stats(column("rate")), delta |-> Delta(column("count"))]

\* main for one container, given what _fetch_raw returned.
Report(raw, start, end, warmup) ==
  Aggregate(Kept(InWindow(ToSamples(raw), start, end), start + warmup))
=============================================================================
