------------------------------ MODULE LoadRun -------------------------------
(***************************************************************************)
(* load-tests/run.sh: the probe for cAdvisor, then the cells of the        *)
(* profile x route matrix, one after the other, each a k6 run, a wait for  *)
(* cAdvisor, and a collection with collect_resources.py; next to them the  *)
(* measured container, its restarts and cAdvisor.                          *)
(*                                                                         *)
(* External, and modelled from how the scripts use them: k6, the container *)
(* (whose counters restart with it), cAdvisor (one entry per second, kept  *)
(* for storage_duration) and date +%s, which knows whole seconds only.     *)
(***************************************************************************)
EXTENDS Collector

CONSTANTS
  Cells,           \* profiles times routes
  TicksPerSecond,  \* also the ticks between two of cAdvisor's entries
  Retention,       \* storage_duration
  Count,           \* --count: how many entries the collector asks for
  Warmup,          \* --warmup
  Cooldown,        \* COOLDOWN
  MaxRun,          \* bound: ticks the k6 run of each cell takes
  MaxRestarts,     \* bound: restarts of the container
  UpTimes,         \* when cAdvisor may begin to listen
  Nothing          \* no report yet

ASSUME LoadAssumption ==
  /\ {Cells, TicksPerSecond, Count} \subseteq Nat \ {0}
  /\ MaxRun \in [1 .. Cells -> Nat \ {0}]
  /\ {Retention, Warmup, Cooldown, MaxRestarts} \subseteq Nat
  /\ UpTimes \subseteq Nat

VARIABLES
  now,       \* the clock
  upAt,      \* when cAdvisor begins to listen, and to take an entry every second
  pc,        \* "probe", "retry" (sleep 1), "start", "k6", "tail" (sleep 2), "cooldown", "done"
  tries,     \* probes so far
  sampling,  \* SAMPLE_RESOURCES: "unknown", "on", or off as "skipped" or "cold"
  cell,      \* the cell at hand
  since,     \* when the present wait began
  start,     \* start_ts
  end,       \* end_ts
  counter,   \* the container's counter
  buffer,    \* cAdvisor's entries of the container
  restarts,  \* restarts so far
  report,    \* the latest aggregates, with the cell's own traffic
  caused     \* history: traffic of the latest cell

probing == <<tries, sampling>>
vars == <<now, upAt, pc, probing, cell, since, start, end, counter, buffer, restarts, report, caused>>

Init ==
  /\ now = 0
  /\ upAt \in UpTimes
  /\ pc = "probe"
  /\ tries = 0
  /\ sampling = "unknown"
  /\ cell = 1
  /\ since = 0 /\ start = 0 /\ end = 0
  /\ counter = 0
  /\ buffer = IF upAt = 0 THEN <<[ts |-> 0, count |-> 0]>> ELSE <<>>
  /\ restarts = 0
  /\ report = Nothing
  /\ caused = 0

Waited == now - since

\* Mutant of TailTicks: the samples are fetched at once.
TailTicksNone == 0

\* sleep 2.
TailTicks == 2 * TicksPerSecond

\* Mutant of RetryTicks: the probes follow one another at once.
RetryTicksNone == 0

\* sleep 1 between two probes.
RetryTicks == TicksPerSecond

\* date +%s.
Date == now - (now % TicksPerSecond)

-----------------------------------------------------------------------------
(* The container, cAdvisor and the clock.                                   *)

\* One entry of cAdvisor, and the end of those that are too old.
Housekeeping(time, count) ==
  IF time >= upAt /\ (time - upAt) % TicksPerSecond = 0
  THEN LET entries == Append(buffer, [ts |-> time, count |-> count])
       IN Pick(entries, {k \in DOMAIN entries : entries[k].ts > time - Retention})
  ELSE buffer

\* How long the script stays where it is.
Patience ==
  CASE pc = "retry" -> RetryTicks
    [] pc = "k6" -> MaxRun[cell]
    [] pc = "tail" -> IF sampling = "on" THEN TailTicks ELSE 0
    [] pc = "cooldown" -> Cooldown
    [] OTHER -> 0

\* Time passes; while k6 runs, the container may do one unit of work in a tick.
Tick ==
  /\ Waited < Patience
  /\ \E work \in IF pc = "k6" THEN {0, 1} ELSE {0} :
       /\ counter' = counter + work
       /\ caused' = caused + work
       /\ buffer' = Housekeeping(now + 1, counter + work)
  /\ now' = now + 1
  /\ UNCHANGED <<upAt, pc, probing, cell, since, start, end, restarts, report>>

\* The container restarts; cAdvisor may go on with its series or begin a new one.
Restart ==
  /\ restarts < MaxRestarts
  /\ restarts' = restarts + 1
  /\ counter' = 0
  /\ buffer' \in {buffer, <<>>}
  /\ UNCHANGED <<now, upAt, pc, probing, cell, since, start, end, report, caused>>

-----------------------------------------------------------------------------
(* Discovery.                                                               *)

\* SAMPLE_RESOURCES=0, no docker, no python3 or no container to measure.
Skip ==
  /\ pc = "probe"
  /\ pc' = "start"
  /\ sampling' = "skipped"
  /\ UNCHANGED <<now, upAt, tries, cell, since, start, end, counter, buffer, restarts, report, caused>>

\* cadvisor_ok: a probe of /healthz, which takes no time.
Probe ==
  /\ pc = "probe"
  /\ tries' = tries + 1
  /\ IF now >= upAt
     THEN pc' = "start" /\ sampling' = "on"
     ELSE pc' = "retry" /\ UNCHANGED sampling
  /\ since' = now
  /\ UNCHANGED <<now, upAt, cell, start, end, counter, buffer, restarts, report, caused>>

\* After the third probe the script goes on without cAdvisor.
Retry ==
  /\ pc = "retry"
  /\ Waited >= RetryTicks
  /\ IF tries < 3
     THEN pc' = "probe" /\ UNCHANGED sampling
     ELSE pc' = "start" /\ sampling' = "cold"
  /\ UNCHANGED <<now, upAt, tries, cell, since, start, end, counter, buffer, restarts, report, caused>>

-----------------------------------------------------------------------------
(* run_cell and the main loop.                                              *)

StartCell ==
  /\ pc = "start"
  /\ pc' = "k6"
  /\ start' = Date
  /\ since' = now
  /\ caused' = 0
  /\ report' = Nothing
  /\ UNCHANGED <<now, upAt, probing, cell, end, counter, buffer, restarts>>

\* Mutant of K6Ends: set -e takes its course.
K6EndsAborting(rc) ==
  /\ pc = "k6"
  /\ Waited > 0
  /\ pc' = IF rc = 0 THEN "tail" ELSE "done"
  /\ end' = Date
  /\ since' = now
  /\ UNCHANGED <<now, upAt, probing, cell, start, counter, buffer, restarts, report, caused>>

\* Thresholds make k6 fail, or abort, and the script carries on all the same.
K6Ends(rc) ==
  /\ pc = "k6"
  /\ Waited > 0
  /\ pc' = "tail"
  /\ end' = Date
  /\ since' = now
  /\ UNCHANGED <<now, upAt, probing, cell, start, counter, buffer, restarts, report, caused>>

\* Mutant of Fetched: as many entries as for one every other second.
FetchedHalf(ok) ==
  IF ~ ok THEN <<>>
  ELSE SubSeq(buffer, Len(buffer) - Lesser(Count \div 2, Len(buffer)) + 1, Len(buffer))

\* The last Count entries, or nothing when cAdvisor or the container cannot be found.
Fetched(ok) ==
  CASE ~ ok -> <<>>
    [] ok /\ Len(buffer) <= Count -> buffer
    [] OTHER -> SubSeq(buffer, Len(buffer) - Count + 1, Len(buffer))

\* Mutant of LastCell: one cell too many.
LastCellPast == cell > Cells

LastCell == cell = Cells

\* collect_resources returns at once when there is nothing to sample.
CollectNothing ==
  /\ pc = "tail"
  /\ sampling # "on"
  /\ pc' = IF LastCell THEN "done" ELSE "cooldown"
  /\ since' = now
  /\ UNCHANGED <<now, upAt, probing, cell, start, end, counter, buffer, restarts, report, caused>>

CollectResources(ok) ==
  /\ pc = "tail"
  /\ sampling = "on"
  /\ Waited >= TailTicks
  /\ report' = [ok |-> ok, aggregate |-> Report(Fetched(ok), start, end, Warmup)]
  /\ pc' = IF LastCell THEN "done" ELSE "cooldown"
  /\ since' = now
  /\ UNCHANGED <<now, upAt, probing, cell, start, end, counter, buffer, restarts, caused>>

NextCell ==
  /\ pc = "cooldown"
  /\ Waited >= Cooldown
  /\ pc' = "start"
  /\ cell' = cell + 1
  /\ since' = now
  /\ UNCHANGED <<now, upAt, probing, start, end, counter, buffer, restarts, report, caused>>

Next ==
  \/ Tick
  \/ Restart
  \/ Skip \/ Probe \/ Retry
  \/ StartCell
  \/ \E rc \in {0, 1} : K6Ends(rc)
  \/ CollectNothing
  \/ \E ok \in BOOLEAN : CollectResources(ok)
  \/ NextCell

Spec == Init /\ [][Next]_vars

\* Time passes, k6 comes to an end (its profiles have durations), bash goes on.
Fairness ==
  /\ WF_vars(Tick)
  /\ WF_vars(Skip \/ Probe \/ Retry \/ StartCell \/ (\E rc \in {0, 1} : K6Ends(rc))
             \/ CollectNothing \/ (\E ok \in BOOLEAN : CollectResources(ok)) \/ NextCell)

FairSpec == Spec /\ Fairness

-----------------------------------------------------------------------------
(* Properties.                                                              *)

\* The variables keep to their types: times do not run ahead of the clock, and cAdvisor's
\* entries are in the order of their times.
TypeOK ==
  /\ pc \in {"probe", "retry", "start", "k6", "tail", "cooldown", "done"}
  /\ sampling \in {"unknown", "on", "skipped", "cold"}
  /\ report # Nothing => sampling = "on"
  /\ cell \in 1 .. Cells
  /\ {now, upAt, tries, since, start, end, counter, restarts, caused} \subseteq Nat
  /\ since <= now /\ start <= now /\ end <= now
  /\ \A k \in 1 .. Len(buffer) - 1 : buffer[k].ts < buffer[k + 1].ts

\* cAdvisor still has the entry before the cell's first, and the collector asks for it: the
\* buffer is no shorter than the cell, the wait behind it and two seconds.
BufferCovers == now - start + 2 * TicksPerSecond <= Lesser(Retention, Count * TicksPerSecond)

\* Without restarts, what the report calls the cell's own (traffic, throttling) was caused
\* by this cell and no other, though the window is cut at whole seconds; and where the
\* buffer covers the cell, all of it is there but what fell into the warm-up, the second
\* behind it, and the end: less than a second up to the date, and less than one before.
DeltaIsTheCells ==
  report # Nothing /\ restarts = 0 =>
    /\ report.aggregate.delta <= caused
    /\ report.ok /\ BufferCovers => caused + 2 <= report.aggregate.delta + Warmup + 3 * TicksPerSecond

\* Restarts or not: no rate is negative or above what the container can do, and the
\* aggregates of a series are in their order.
StatsOrdered ==
  report # Nothing =>
    LET s == report.aggregate.rate
    IN /\ 0 <= s.min /\ s.min <= s.avg /\ s.avg <= s.max /\ s.max <= 100 * 100
       /\ s.min <= s.p50 /\ s.p50 <= s.p95 /\ s.p95 <= s.p99 /\ s.p99 <= s.max

\* The entries that cAdvisor took with one before them, between two times.
Taken(from, to) == Cardinality({t \in upAt + 1 .. now :
  (t - upAt) % TicksPerSecond = 0 /\ from <= t /\ t <= to})

\* Where the buffer covers the cell, every entry of its window behind the warm-up is in the
\* report, once; those of the warm-up stand in only where there are no others.
NoSampleLost ==
  report # Nothing /\ report.ok /\ restarts = 0 /\ BufferCovers =>
    LET late == Taken(start + Warmup, end)
    IN report.aggregate.samples = IF late = 0 THEN Taken(start, end) ELSE late

\* A cAdvisor that listens at the latest two seconds after the script has begun is found,
\* as the comment at cadvisor_ok promises of one that has just been started.
ColdStartCovered == upAt <= 2 * TicksPerSecond => sampling # "cold"

\* Once k6 was found on the PATH (else run.sh ends before its first cell), the matrix is run
\* to its end, whether k6 runs fail or not, and whatever becomes of cAdvisor, the collector
\* and the container.
AllCellsRun == <>(pc = "done" /\ cell = Cells)

\* A comment in _aggregate says of counters: the delta over the window is what the
\* benchmark actually caused.
DeltaNotAboveTraffic == report # Nothing => report.aggregate.delta <= caused
=============================================================================
