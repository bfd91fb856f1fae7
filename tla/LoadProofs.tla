----------------------------- MODULE LoadProofs -----------------------------
(***************************************************************************)
(* Proofs about LoadRun, for any number of cells, any clock resolution,    *)
(* any storage duration and any moment at which cAdvisor begins to listen: *)
(* what the probe guarantees, what is in cAdvisor's buffer, and what the   *)
(* reports say.                                                            *)
(***************************************************************************)
EXTENDS LoadRun, CollectorProofs

\* How far the probing has come: the k-th probe is made k - 1 seconds after the first at the
\* earliest, and the last one that failed was made before cAdvisor listened.
ProbeInv ==
  /\ now \in Nat /\ since \in Nat /\ upAt \in Nat
  /\ tries \in 0 .. 3
  /\ pc = "probe" =>
       /\ sampling = "unknown" /\ tries < 3
       /\ tries = 1 => now >= TicksPerSecond
       /\ tries = 2 => now >= 2 * TicksPerSecond
  /\ pc = "retry" =>
       /\ sampling = "unknown" /\ tries > 0
       /\ since <= now /\ since < upAt
       /\ tries = 2 => since >= TicksPerSecond
       /\ tries = 3 => since >= 2 * TicksPerSecond
  /\ sampling = "cold" => upAt > 2 * TicksPerSecond

\* The second is a positive number of ticks.
LEMMA Constants == TicksPerSecond \in Nat \ {0} /\ UpTimes \subseteq Nat
BY LoadAssumption

LEMMA Starts == Init => ProbeInv
BY Constants, SMT DEF Init, ProbeInv

LEMMA Steps == ProbeInv /\ [Next]_vars => ProbeInv'
<1> SUFFICES ASSUME ProbeInv, [Next]_vars PROVE ProbeInv'
    OBVIOUS
<1> USE DEF ProbeInv
<1>1. CASE Tick
      BY <1>1, Constants DEF Tick, probing
<1>2. CASE Restart
      BY <1>2 DEF Restart, probing
<1>3. CASE Skip
      BY <1>3, Constants DEF Skip
<1>4. CASE Probe
      BY <1>4, Constants DEF Probe
<1>5. CASE Retry
      BY <1>5, Constants DEF Retry, Waited, RetryTicks
<1>6. CASE StartCell
      BY <1>6 DEF StartCell, probing
<1>7. ASSUME NEW rc \in {0, 1}, K6Ends(rc) PROVE ProbeInv'
      BY <1>7 DEF K6Ends, probing
<1>8. CASE CollectNothing
      BY <1>8 DEF CollectNothing, probing
<1>9. ASSUME NEW ok \in BOOLEAN, CollectResources(ok) PROVE ProbeInv'
      BY <1>9 DEF CollectResources, probing
<1>10. CASE NextCell
      BY <1>10 DEF NextCell, probing
<1>11. CASE UNCHANGED vars
      BY <1>11 DEF vars, probing
<1> QED
    BY <1>1, <1>2, <1>3, <1>4, <1>5, <1>6, <1>7, <1>8, <1>9, <1>10, <1>11 DEF Next

\* However many cells follow, and whenever cAdvisor begins to listen: the matrix goes without
\* resources as "cold" only if cAdvisor took longer than the two seconds of retries.
THEOREM ColdStart == Spec => []ColdStartCovered
<1>1. ProbeInv => ColdStartCovered
      BY Constants DEF ProbeInv, ColdStartCovered
<1> QED
    BY Starts, Steps, <1>1, PTL DEF Spec

-----------------------------------------------------------------------------
(* The script's clock, and the moments at which cAdvisor takes an entry.    *)

LEMMA Params ==
  /\ Cells \in Nat \ {0} /\ TicksPerSecond \in Nat \ {0} /\ Count \in Nat \ {0}
  /\ Retention \in Nat /\ Warmup \in Nat /\ UpTimes \subseteq Nat
  BY LoadAssumption

\* date +%s is at most a second behind.
LEMMA DateProperties ==
  ASSUME now \in Nat
  PROVE  Date \in Nat /\ Date <= now /\ now < Date + TicksPerSecond
<1>1. now % TicksPerSecond \in 0 .. TicksPerSecond - 1
  BY Params, DivMod
<1>2. now % TicksPerSecond <= now
  BY Params, ModBelow
<1>. QED BY <1>1, <1>2, Params DEF Date

Sampled(t) == t \in Nat /\ t >= upAt /\ (t - upAt) % TicksPerSecond = 0

LEMMA SampledForm ==
  ASSUME upAt \in Nat, NEW t \in Nat
  PROVE  Sampled(t) <=> \E j \in Nat : t = upAt + TicksPerSecond * j
<1>. DEFINE d == TicksPerSecond
<1>0. d \in Nat \ {0}
  BY Params
<1>. HIDE DEF d
<1>1. ASSUME Sampled(t) PROVE \E j \in Nat : t = upAt + d * j
  <2>. DEFINE a == t - upAt
              q == a \div d
  <2>1. a \in Nat /\ a % d = 0
    BY <1>1 DEF Sampled, d
  <2>. HIDE DEF a
  <2>2. q \in Int /\ a = d * q
    BY <1>0, <2>1, DivMod
  <2>3. q \in Nat
    BY <1>0, <2>1
  <2>4. t = upAt + a
    BY DEF a
  <2>. QED BY <2>2, <2>3, <2>4
<1>2. ASSUME NEW j \in Nat, t = upAt + d * j PROVE Sampled(t)
  <2>1. d * j \in Nat /\ (d * j) % d = 0
    BY <1>0
  <2>2. t - upAt = d * j /\ t >= upAt
    BY <1>2, <2>1
  <2>. QED BY <2>1, <2>2 DEF Sampled, d
<1>. QED BY <1>1, <1>2 DEF d

LEMMA SampledGap ==
  ASSUME upAt \in Nat, NEW t, NEW u, Sampled(t), Sampled(u), t < u
  PROVE  u >= t + TicksPerSecond
<1>. DEFINE d == TicksPerSecond
<1>0. d \in Nat \ {0} /\ t \in Nat /\ u \in Nat
  BY Params DEF Sampled
<1>1. PICK j \in Nat : t = upAt + d * j
  BY <1>0, SampledForm
<1>2. PICK l \in Nat : u = upAt + d * l
  BY <1>0, SampledForm
<1>. HIDE DEF d
<1>3. j < l
  <2>1. CASE l <= j
    <3>1. d * l <= d * j
      <4>1. CASE l = j
        BY <1>0, <4>1
      <4>2. CASE l < j
        BY <1>0, <4>2, Multiples
      <4>. QED BY <2>1, <4>1, <4>2
    <3>2. d * l \in Int /\ d * j \in Int
      BY <1>0
    <3>. QED BY <1>1, <1>2, <3>1, <3>2
  <2>. QED BY <2>1
<1>4. d * l >= d * j + d /\ d * l \in Int /\ d * j \in Int
  BY <1>0, <1>3, Multiples
<1>. QED BY <1>0, <1>1, <1>2, <1>4 DEF d

LEMMA SampledNext ==
  ASSUME upAt \in Nat, NEW t, Sampled(t)
  PROVE  /\ Sampled(t + TicksPerSecond)
         /\ t > upAt => Sampled(t - TicksPerSecond)
<1>. DEFINE d == TicksPerSecond
<1>0. d \in Nat \ {0} /\ t \in Nat
  BY Params DEF Sampled
<1>1. PICK j \in Nat : t = upAt + d * j
  BY <1>0, SampledForm
<1>2. d * j \in Nat /\ d * (j + 1) = d * j + d
  BY <1>0
<1>3. Sampled(t + d)
  <2>1. j + 1 \in Nat /\ t + d = upAt + d * (j + 1) /\ t + d \in Nat
    BY <1>0, <1>1, <1>2
  <2>. QED BY <2>1, SampledForm
<1>4. ASSUME t > upAt PROVE Sampled(t - d)
  <2>1. j # 0
    BY <1>0, <1>1, <1>4
  <2>2. j - 1 \in Nat /\ d * (j - 1) = d * j - d /\ d * (j - 1) \in Nat
    BY <1>0, <2>1
  <2>3. t - d = upAt + d * (j - 1)
    BY <1>0, <1>1, <1>2, <2>2
  <2>. QED BY <2>2, <2>3, SampledForm
<1>. QED BY <1>3, <1>4

\* Before any moment from upAt on there is a sample less than a second back, and less than
\* a second ahead.
LEMMA SampledNear ==
  ASSUME upAt \in Nat, NEW x \in Nat, x >= upAt
  PROVE  /\ \E t \in Nat : Sampled(t) /\ t <= x /\ x < t + TicksPerSecond
         /\ \E t \in Nat : Sampled(t) /\ x <= t /\ t < x + TicksPerSecond
<1>. DEFINE d == TicksPerSecond
            a == x - upAt
            q == a \div d
            r == a % d
            t == upAt + d * q
<1>0. d \in Nat \ {0} /\ a \in Nat /\ x = upAt + a
  BY Params
<1>. HIDE DEF d, a
<1>1. r \in 0 .. d - 1 /\ q \in Int /\ a = d * q + r
  BY <1>0, DivMod
<1>2. q \in Nat
  BY <1>0
<1>3. d * q \in Nat /\ x = upAt + a
  BY <1>0, <1>2
<1>. HIDE DEF q, r
<1>4. t \in Nat /\ t <= x /\ x < t + d
  BY <1>0, <1>1, <1>3
<1>5. Sampled(t)
  BY <1>2, <1>4, SampledForm DEF d
<1>. HIDE DEF t
<1>6. Sampled(t + d) /\ t + d \in Nat
  BY <1>0, <1>4, <1>5, SampledNext DEF d
<1>7. \E u \in Nat : Sampled(u) /\ x <= u /\ u < x + d
  <2>1. CASE t = x
    BY <1>0, <1>4, <1>5, <2>1
  <2>2. CASE t < x
    BY <1>0, <1>4, <1>6, <2>2
  <2>. QED BY <1>4, <2>1, <2>2
<1>. QED BY <1>4, <1>5, <1>7 DEF d

-----------------------------------------------------------------------------
(* The script: where it is, and which report it holds.                      *)

\* Only whole cells have reports, and only while cAdvisor is there to be asked; the two
\* dates of a cell are less than a second behind the moments they stand for.
FlowInv ==
  /\ pc \in {"probe", "retry", "start", "k6", "tail", "cooldown", "done"}
  /\ sampling \in {"unknown", "on", "skipped", "cold"}
  /\ cell \in 1 .. Cells
  /\ pc = "cooldown" => cell < Cells
  /\ now \in Nat /\ upAt \in Nat /\ since \in Nat /\ start \in Nat /\ end \in Nat
  /\ counter \in Nat /\ restarts \in Nat /\ caused \in Nat
  /\ since <= now /\ start <= now /\ end <= now
  /\ pc \in {"probe", "retry", "k6", "tail"} => report = Nothing
  /\ report # Nothing => sampling = "on"
  /\ sampling = "on" => upAt <= now
  /\ pc = "k6" => /\ start <= since /\ since < start + TicksPerSecond
                  /\ sampling = "on" => upAt <= since
  /\ pc = "tail" => end <= since /\ since < end + TicksPerSecond

LEMMA FlowStarts ==
  ASSUME Init
  PROVE  FlowInv
  BY Params, SMT DEF Init, FlowInv

LEMMA FlowSteps ==
  ASSUME FlowInv, ProbeInv, [Next]_vars
  PROVE  FlowInv'
<1>. USE DEF FlowInv
<1>0. TicksPerSecond \in Nat \ {0}
  BY Params
<1>1. CASE Tick
  <2>1. PICK work \in {0, 1} : counter' = counter + work /\ caused' = caused + work
    BY <1>1 DEF Tick
  <2>. QED BY <1>1, <2>1 DEF Tick, probing
<1>2. CASE Restart
  BY <1>2 DEF Restart, probing
<1>3. CASE Skip
  BY <1>3 DEF Skip, ProbeInv
<1>4. CASE Probe
  BY <1>4 DEF Probe, ProbeInv
<1>5. CASE Retry
  BY <1>5 DEF Retry, ProbeInv
<1>6. CASE StartCell
  <2>1. Date \in Nat /\ Date <= now /\ now < Date + TicksPerSecond
    BY DateProperties
  <2>. QED BY <1>6, <2>1 DEF StartCell, probing
<1>7. ASSUME NEW rc \in {0, 1}, K6Ends(rc) PROVE FlowInv'
  <2>1. Date \in Nat /\ Date <= now /\ now < Date + TicksPerSecond
    BY DateProperties
  <2>. QED BY <1>7, <2>1 DEF K6Ends, probing
<1>8. CASE CollectNothing
  BY <1>0, <1>8, Params DEF CollectNothing, LastCell, probing
<1>9. ASSUME NEW ok \in BOOLEAN, CollectResources(ok) PROVE FlowInv'
  <2>1. sampling = "on" /\ sampling' = "on" /\ pc' \in {"done", "cooldown"}
        /\ (pc' = "cooldown" => cell # Cells)
    BY <1>9 DEF CollectResources, LastCell, probing
  <2>2. UNCHANGED <<now, upAt, cell, start, end, counter, restarts, caused>> /\ since' = now
    BY <1>9 DEF CollectResources
  <2>. QED BY <2>1, <2>2, Params
<1>10. CASE NextCell
  BY <1>10, Params DEF NextCell, probing
<1>11. CASE UNCHANGED vars
  BY <1>11 DEF vars, probing
<1>. QED
  BY <1>1, <1>2, <1>3, <1>4, <1>5, <1>6, <1>7, <1>8, <1>9, <1>10, <1>11 DEF Next

-----------------------------------------------------------------------------
(* The buffer.                                                              *)

\* Two entries at the positions a < b of s: a whole number of seconds apart that is no less
\* than their distance in s, and no more work between them than ticks.
Apart(s) == \A a, b \in 1 .. Len(s) : a < b =>
  /\ s[b].ts - s[a].ts >= TicksPerSecond * (b - a)
  /\ s[b].count - s[a].count <= s[b].ts - s[a].ts

BufferInv ==
  /\ buffer \in Seq(Entry)
  /\ \A k \in 1 .. Len(buffer) :
       /\ Sampled(buffer[k].ts) /\ buffer[k].ts <= now
       /\ counter - buffer[k].count <= now - buffer[k].ts
  /\ Apart(buffer)

LEMMA Entries ==
  ASSUME NEW s \in Seq(Entry)
  PROVE  /\ Len(s) \in Nat
         /\ DOMAIN s = 1 .. Len(s)
         /\ \A k \in 1 .. Len(s) : s[k] \in Entry /\ s[k].ts \in Nat /\ s[k].count \in Nat
<1>1. Len(s) \in Nat /\ DOMAIN s = 1 .. Len(s) /\ \A k \in 1 .. Len(s) : s[k] \in Entry
  BY LenProperties
<1>. QED BY <1>1 DEF Entry

\* Whatever is picked of entries that are apart is apart.
LEMMA PickApart ==
  ASSUME NEW s \in Seq(Entry), Apart(s), NEW I
  PROVE  Apart(Pick(s, I))
<1>. DEFINE t == Pick(s, I)
<1>0. t \in Seq(Entry) /\ TicksPerSecond \in Nat \ {0}
  BY PickPositions, Params
<1>1. PICK m : Comes(t, s, I \cap (1 .. Len(s)), m)
  BY PickPositions
<1>2. Len(t) \in Nat /\ Len(s) \in Nat
  BY <1>0, Entries
<1>. HIDE DEF t
<1>3. /\ m \in [1 .. Len(t) -> Nat]
      /\ \A k \in 1 .. Len(t) : m[k] \in 1 .. Len(s) /\ t[k] = s[m[k]]
      /\ \A a, b \in 1 .. Len(t) : a < b => m[a] < m[b]
  BY <1>1, <1>2 DEF Comes
<1>4. \A a, b \in 1 .. Len(t) : a < b => b - a <= m[b] - m[a]
  BY <1>2, <1>3, ApartByPositions
<1>5. ASSUME NEW a \in 1 .. Len(t), NEW b \in 1 .. Len(t), a < b
      PROVE  /\ t[b].ts - t[a].ts >= TicksPerSecond * (b - a)
             /\ t[b].count - t[a].count <= t[b].ts - t[a].ts
  <2>1. /\ s[m[b]].ts - s[m[a]].ts >= TicksPerSecond * (m[b] - m[a])
        /\ s[m[b]].count - s[m[a]].count <= s[m[b]].ts - s[m[a]].ts
    BY <1>3, <1>5 DEF Apart
  <2>2. b - a \in Nat /\ m[b] - m[a] \in Nat /\ b - a <= m[b] - m[a]
    BY <1>3, <1>4, <1>5
  <2>3. s[m[b]].ts \in Nat /\ s[m[a]].ts \in Nat
    BY <1>3, Entries
  <2>4. /\ TicksPerSecond * (m[b] - m[a]) >= TicksPerSecond * (b - a)
        /\ TicksPerSecond * (m[b] - m[a]) \in Int /\ TicksPerSecond * (b - a) \in Int
    <3>1. CASE b - a = m[b] - m[a]
      BY <1>0, <2>2, <3>1
    <3>2. CASE b - a < m[b] - m[a]
      BY <1>0, <2>2, <3>2, Multiples
    <3>. QED BY <2>2, <3>1, <3>2
  <2>5. t[a] = s[m[a]] /\ t[b] = s[m[b]]
    BY <1>3
  <2>. DEFINE p == TicksPerSecond * (m[b] - m[a])
              q == TicksPerSecond * (b - a)
  <2>6. p \in Int /\ q \in Int /\ p >= q /\ s[m[b]].ts - s[m[a]].ts >= p
    BY <2>1, <2>4
  <2>. HIDE DEF p, q
  <2>7. s[m[b]].ts - s[m[a]].ts >= q
    BY <2>3, <2>6
  <2>. QED BY <2>1, <2>5, <2>7 DEF q
<1>. QED BY <1>5 DEF Apart, t

-----------------------------------------------------------------------------
(* One tick of cAdvisor.                                                    *)

\* The entry that a tick adds when the second is full.
Fresh(count) == [ts |-> now + 1, count |-> count]

\* The buffer after a tick: its entries are those that were there, and the new one.
LEMMA KeptEntries ==
  ASSUME FlowInv, buffer \in Seq(Entry), NEW c \in Nat
  PROVE  /\ Housekeeping(now + 1, c) \in Seq(Entry)
         /\ \A k \in 1 .. Len(Housekeeping(now + 1, c)) :
              \/ \E j \in 1 .. Len(buffer) : Housekeeping(now + 1, c)[k] = buffer[j]
              \/ Housekeeping(now + 1, c)[k] = Fresh(c) /\ Sampled(now + 1)
<1>. DEFINE s == Append(buffer, Fresh(c))
            I == {k \in DOMAIN s : s[k].ts > (now + 1) - Retention}
<1>0. now + 1 \in Nat /\ Fresh(c) \in Entry
  BY DEF FlowInv, Fresh, Entry
<1>1. CASE ~ Sampled(now + 1)
  <2>1. Housekeeping(now + 1, c) = buffer
    BY <1>0, <1>1 DEF Housekeeping, Sampled
  <2>. QED BY <2>1
<1>2. CASE Sampled(now + 1)
  <2>1. Housekeeping(now + 1, c) = Pick(s, I)
    BY <1>2 DEF Housekeeping, Sampled, Fresh
  <2>2. /\ s \in Seq(Entry) /\ Len(s) = Len(buffer) + 1
        /\ \A k \in 1 .. Len(buffer) : s[k] = buffer[k]
        /\ s[Len(buffer) + 1] = Fresh(c)
    BY <1>0, AppendProperties
  <2>3. Len(buffer) \in Nat
    BY Entries
  <2>. HIDE DEF s, I
  <2>4. Pick(s, I) \in Seq(Entry)
    BY <2>2, PickPositions
  <2>5. \A k \in 1 .. Len(Pick(s, I)) : \E j \in 1 .. Len(s) : Pick(s, I)[k] = s[j]
    BY <2>2, PickMembers
  <2>6. \A j \in 1 .. Len(s) : j \in 1 .. Len(buffer) \/ j = Len(buffer) + 1
    BY <2>2, <2>3
  <2>. QED BY <1>2, <2>1, <2>2, <2>4, <2>5, <2>6
<1>. QED BY <1>1, <1>2

LEMMA BufferTick ==
  ASSUME FlowInv, BufferInv, NEW c \in {counter, counter + 1}
  PROVE  /\ Housekeeping(now + 1, c) \in Seq(Entry)
         /\ \A k \in 1 .. Len(Housekeeping(now + 1, c)) :
              /\ Sampled(Housekeeping(now + 1, c)[k].ts)
              /\ Housekeeping(now + 1, c)[k].ts <= now + 1
              /\ c - Housekeeping(now + 1, c)[k].count <= (now + 1) - Housekeeping(now + 1, c)[k].ts
         /\ Apart(Housekeeping(now + 1, c))
<1>. DEFINE new == Housekeeping(now + 1, c)
<1>0. /\ now \in Nat /\ counter \in Nat /\ c \in Nat /\ upAt \in Nat
      /\ buffer \in Seq(Entry) /\ TicksPerSecond \in Nat \ {0}
  BY Params DEF FlowInv, BufferInv
<1>00. c <= counter + 1
  BY <1>0
<1>1. /\ new \in Seq(Entry)
      /\ \A k \in 1 .. Len(new) : \/ \E j \in 1 .. Len(buffer) : new[k] = buffer[j]
                                  \/ new[k] = Fresh(c) /\ Sampled(now + 1)
  BY <1>0, KeptEntries
<1>. HIDE DEF new
<1>2. ASSUME NEW k \in 1 .. Len(new)
      PROVE  Sampled(new[k].ts) /\ new[k].ts <= now + 1 /\ c - new[k].count <= (now + 1) - new[k].ts
  <2>1. ASSUME NEW j \in 1 .. Len(buffer), new[k] = buffer[j]
        PROVE  Sampled(new[k].ts) /\ new[k].ts <= now + 1 /\ c - new[k].count <= (now + 1) - new[k].ts
    <3>1. /\ Sampled(buffer[j].ts) /\ buffer[j].ts <= now
          /\ counter - buffer[j].count <= now - buffer[j].ts
          /\ buffer[j].ts \in Nat /\ buffer[j].count \in Nat
      BY <1>0, Entries DEF BufferInv
    <3>2. c - buffer[j].count <= (now + 1) - buffer[j].ts
      <4>. DEFINE x == buffer[j].count
                  y == buffer[j].ts
      <4>1. x \in Nat /\ y \in Nat /\ counter - x <= now - y
        BY <3>1
      <4>. HIDE DEF x, y
      <4>2. c - x <= (now + 1) - y
        BY <1>0, <1>00, <4>1
      <4>. QED BY <4>2 DEF x, y
    <3>3. buffer[j].ts <= now + 1
      BY <1>0, <3>1
    <3>. QED BY <2>1, <3>1, <3>2, <3>3
  <2>2. ASSUME new[k] = Fresh(c), Sampled(now + 1)
        PROVE  Sampled(new[k].ts) /\ new[k].ts <= now + 1 /\ c - new[k].count <= (now + 1) - new[k].ts
    BY <1>0, <2>2 DEF Fresh
  <2>. QED BY <1>1, <2>1, <2>2
<1>3. Apart(new)
  <2>. DEFINE s == Append(buffer, Fresh(c))
              n == Len(buffer)
  <2>1. CASE ~ Sampled(now + 1)
    <3>1. new = buffer
      BY <1>0, <2>1 DEF Housekeeping, Sampled, new
    <3>. QED BY <3>1 DEF BufferInv
  <2>2. CASE Sampled(now + 1)
    <3>1. Fresh(c) \in Entry /\ Fresh(c).ts = now + 1 /\ Fresh(c).count = c
      BY <1>0 DEF Fresh, Entry
    <3>2. /\ s \in Seq(Entry) /\ Len(s) = n + 1
          /\ \A k \in 1 .. n : s[k] = buffer[k]
          /\ s[n + 1] = Fresh(c)
      BY <1>0, <3>1, AppendProperties
    <3>3. n \in Nat /\ \A k \in 1 .. n : buffer[k].ts \in Nat /\ buffer[k].count \in Nat
      BY <1>0, Entries
    <3>. HIDE DEF s, n
    <3>4. ASSUME NEW a \in 1 .. n
          PROVE  /\ (now + 1) - buffer[a].ts >= TicksPerSecond * ((n + 1) - a)
                 /\ c - buffer[a].count <= (now + 1) - buffer[a].ts
      <4>1. n \in 1 .. n /\ buffer[n].ts \in Nat /\ buffer[a].ts \in Nat
        BY <3>3
      <4>2. Sampled(buffer[n].ts) /\ buffer[n].ts < now + 1
        BY <1>0, <4>1 DEF BufferInv, n
      <4>3. now + 1 >= buffer[n].ts + TicksPerSecond
        BY <1>0, <2>2, <4>2, SampledGap
      <4>4. /\ buffer[n].ts - buffer[a].ts >= TicksPerSecond * (n - a)
            /\ TicksPerSecond * (n - a) \in Int
            /\ TicksPerSecond * ((n + 1) - a) = TicksPerSecond * (n - a) + TicksPerSecond
        <5>1. TicksPerSecond * ((n + 1) - a) = TicksPerSecond * (n - a) + TicksPerSecond
              /\ TicksPerSecond * (n - a) \in Int
          BY <1>0, <3>3
        <5>2. CASE a = n
          BY <1>0, <4>1, <5>1, <5>2
        <5>3. CASE a < n
          BY <4>1, <5>1, <5>3 DEF BufferInv, Apart, n
        <5>. QED BY <3>3, <5>2, <5>3, <5>1
      <4>5. counter - buffer[a].count <= now - buffer[a].ts /\ buffer[a].count \in Nat
        BY <3>3 DEF BufferInv, n
      <4>6. c - buffer[a].count <= (now + 1) - buffer[a].ts
        <5>. DEFINE x == buffer[a].count
                    y == buffer[a].ts
        <5>1. x \in Nat /\ y \in Nat /\ counter - x <= now - y
          BY <4>1, <4>5
        <5>. HIDE DEF x, y
        <5>2. c - x <= (now + 1) - y
          BY <1>0, <1>00, <5>1
        <5>. QED BY <5>2 DEF x, y
      <4>. DEFINE p == TicksPerSecond * (n - a)
                  q == TicksPerSecond * ((n + 1) - a)
      <4>7. p \in Int /\ q = p + TicksPerSecond /\ buffer[n].ts - buffer[a].ts >= p
        BY <4>4
      <4>. HIDE DEF p, q
      <4>8. (now + 1) - buffer[a].ts >= q
        BY <1>0, <4>1, <4>3, <4>7
      <4>. QED BY <4>6, <4>8 DEF q
    <3>5. ASSUME NEW a \in 1 .. n + 1, NEW b \in 1 .. n + 1, a < b
          PROVE  /\ s[b].ts - s[a].ts >= TicksPerSecond * (b - a)
                 /\ s[b].count - s[a].count <= s[b].ts - s[a].ts
      <4>1. a \in 1 .. n /\ s[a] = buffer[a]
        BY <3>2, <3>3, <3>5
      <4>2. CASE b = n + 1
        BY <3>1, <3>2, <3>4, <4>1, <4>2
      <4>3. CASE b \in 1 .. n
        <5>1. s[b] = buffer[b]
          BY <3>2, <4>3
        <5>. QED BY <3>5, <4>1, <4>3, <5>1 DEF BufferInv, Apart, n
      <4>. QED BY <3>3, <4>2, <4>3
    <3>6. Apart(s)
      BY <3>2, <3>5 DEF Apart
    <3>7. new = Pick(s, {k \in DOMAIN s : s[k].ts > (now + 1) - Retention})
      BY <2>2 DEF Housekeeping, Sampled, Fresh, new, s
    <3>. QED BY <3>2, <3>6, <3>7, PickApart
  <2>. QED BY <2>1, <2>2
<1>. QED BY <1>1, <1>2, <1>3 DEF new
-----------------------------------------------------------------------------
(* The types.                                                               *)

LEMMA BufferStarts ==
  ASSUME Init
  PROVE  BufferInv
<1>1. upAt \in Nat /\ now = 0 /\ counter = 0
  BY Params DEF Init
<1>2. CASE upAt = 0
  <2>. DEFINE e == [ts |-> 0, count |-> 0]
  <2>1. e \in Entry /\ e.ts = 0 /\ e.count = 0
    BY DEF Entry
  <2>2. buffer = <<e>>
    BY <1>2 DEF Init
  <2>. HIDE DEF e
  <2>3. buffer \in Seq(Entry) /\ Len(buffer) = 1 /\ buffer[1] = e
    BY <2>1, <2>2
  <2>4. 0 % TicksPerSecond = 0
    BY Params
  <2>5. Sampled(0)
    BY <1>1, <1>2, <2>4 DEF Sampled
  <2>6. Apart(buffer)
    BY <2>3 DEF Apart
  <2>7. \A k \in 1 .. Len(buffer) : buffer[k] = e
    BY <2>3
  <2>. QED BY <1>1, <2>1, <2>3, <2>5, <2>6, <2>7 DEF BufferInv
<1>3. CASE upAt # 0
  <2>1. buffer = <<>>
    BY <1>3 DEF Init
  <2>. QED BY <2>1 DEF BufferInv, Apart
<1>. QED BY <1>2, <1>3

LEMMA BufferSteps ==
  ASSUME FlowInv, BufferInv, [Next]_vars
  PROVE  BufferInv'
<1>0. now \in Nat /\ counter \in Nat /\ upAt \in Nat /\ buffer \in Seq(Entry)
  BY DEF FlowInv, BufferInv
<1>1. CASE Tick
  <2>1. PICK work \in {0, 1} : /\ counter' = counter + work
                               /\ buffer' = Housekeeping(now + 1, counter + work)
    BY <1>1 DEF Tick
  <2>2. counter' \in {counter, counter + 1} /\ buffer' = Housekeeping(now + 1, counter')
    BY <1>0, <2>1
  <2>3. now' = now + 1 /\ upAt' = upAt
    BY <1>1 DEF Tick
  <2>4. /\ buffer' \in Seq(Entry)
        /\ \A k \in 1 .. Len(buffer') :
             /\ Sampled(buffer'[k].ts)
             /\ buffer'[k].ts <= now + 1
             /\ counter' - buffer'[k].count <= (now + 1) - buffer'[k].ts
        /\ Apart(buffer')
    BY <2>2, BufferTick
  <2>. QED BY <2>3, <2>4 DEF BufferInv, Sampled, Apart
<1>2. CASE Restart
  <2>1. counter' = 0 /\ buffer' \in {buffer, <<>>} /\ now' = now /\ upAt' = upAt
    BY <1>2 DEF Restart
  <2>2. CASE buffer' = <<>>
    BY <2>2 DEF BufferInv, Apart
  <2>3. CASE buffer' = buffer
    <3>1. \A k \in 1 .. Len(buffer) : /\ Sampled(buffer[k].ts) /\ buffer[k].ts <= now
                                      /\ buffer[k].ts \in Nat /\ buffer[k].count \in Nat
      BY <1>0, Entries DEF BufferInv
    <3>2. \A k \in 1 .. Len(buffer) : 0 - buffer[k].count <= now - buffer[k].ts
      BY <1>0, <3>1
    <3>. QED BY <2>1, <2>3, <3>1, <3>2 DEF BufferInv, Sampled, Apart
  <2>. QED BY <2>1, <2>2, <2>3
<1>3. ASSUME UNCHANGED <<now, upAt, counter, buffer>> PROVE BufferInv'
  BY <1>3 DEF BufferInv, Sampled, Apart
<1>4. CASE UNCHANGED vars
  BY <1>3, <1>4 DEF vars
<1>5. ASSUME NEW rc \in {0, 1}, K6Ends(rc) PROVE BufferInv'
  BY <1>3, <1>5 DEF K6Ends
<1>6. ASSUME NEW ok \in BOOLEAN, CollectResources(ok) PROVE BufferInv'
  BY <1>3, <1>6 DEF CollectResources
<1>7. CASE Skip \/ Probe \/ Retry
  BY <1>3, <1>7 DEF Skip, Probe, Retry
<1>8. CASE StartCell \/ CollectNothing \/ NextCell
  BY <1>3, <1>8 DEF StartCell, CollectNothing, NextCell
<1>. QED BY <1>1, <1>2, <1>4, <1>5, <1>6, <1>7, <1>8 DEF Next

\* Times do not run ahead of the clock, reports are those of a cAdvisor that was found, and
\* the buffer is in the order of its times: the collector differences neighbours, so two
\* entries out of order would be a rate of zero and traffic lost.
THEOREM TypesKept == Spec => []TypeOK
<1>1. ASSUME ProbeInv, FlowInv, BufferInv PROVE TypeOK
  <2>1. \A k \in 1 .. Len(buffer) - 1 : buffer[k].ts < buffer[k + 1].ts
    <3>. SUFFICES ASSUME NEW k \in 1 .. Len(buffer) - 1
                  PROVE  buffer[k].ts < buffer[k + 1].ts
      OBVIOUS
    <3>1. /\ Len(buffer) \in Nat
          /\ \A j \in 1 .. Len(buffer) : buffer[j].ts \in Nat
      BY <1>1, Entries DEF BufferInv
    <3>. DEFINE n == Len(buffer)
    <3>2. n \in Nat
      BY <3>1
    <3>. HIDE DEF n
    <3>3. k \in 1 .. n /\ k + 1 \in 1 .. n /\ k < k + 1
      BY <3>2 DEF n
    <3>4. TicksPerSecond \in Nat \ {0} /\ TicksPerSecond * ((k + 1) - k) = TicksPerSecond
      BY <3>3, Params
    <3>5. buffer[k + 1].ts - buffer[k].ts >= TicksPerSecond
      BY <1>1, <3>3, <3>4 DEF BufferInv, Apart, n
    <3>6. buffer[k].ts \in Nat /\ buffer[k + 1].ts \in Nat
      BY <3>1, <3>3 DEF n
    <3>. QED BY <3>4, <3>5, <3>6
  <2>. QED BY <1>1, <2>1 DEF TypeOK, ProbeInv, FlowInv
<1>. QED
    BY Starts, Steps, FlowStarts, FlowSteps, BufferStarts, BufferSteps, <1>1, PTL DEF Spec

-----------------------------------------------------------------------------
(* What a collection is given.                                              *)

Fetch == Lesser(Len(buffer), Count)

\* The collector gets the last entries of the buffer, Count at most, or none at all.
LEMMA FetchedIs ==
  ASSUME BufferInv, NEW ok \in BOOLEAN
  PROVE  /\ Fetched(ok) \in Seq(Entry)
         /\ Len(Fetched(ok)) = IF ok THEN Fetch ELSE 0
         /\ \A k \in 1 .. Len(Fetched(ok)) :
              /\ (Len(buffer) - Fetch) + k \in 1 .. Len(buffer)
              /\ Fetched(ok)[k] = buffer[(Len(buffer) - Fetch) + k]
<1>. DEFINE n == Len(buffer)
            f == Fetched(ok)
<1>1. /\ buffer \in Seq(Entry) /\ n \in Nat /\ Count \in Nat \ {0}
      /\ \A k \in 1 .. n : buffer[k] \in Entry
  BY Entries, Params DEF BufferInv
<1>2. CASE ~ ok
  <2>1. f = <<>>
    BY <1>2 DEF Fetched
  <2>. QED BY <1>2, <2>1
<1>3. CASE ok /\ n <= Count
  <2>1. f = buffer
    BY <1>3 DEF Fetched
  <2>2. Fetch = n
    BY <1>1, <1>3 DEF Fetch, Lesser
  <2>. HIDE DEF n
  <2>3. \A k \in 1 .. n : (n - n) + k = k
    BY <1>1
  <2>. QED BY <1>1, <1>3, <2>1, <2>2, <2>3 DEF n
<1>4. CASE ok /\ ~ (n <= Count)
  <2>1. f = SubSeq(buffer, (n - Count) + 1, n)
    BY <1>4 DEF Fetched
  <2>2. Fetch = Count
    BY <1>1, <1>4 DEF Fetch, Lesser
  <2>. DEFINE m == (n - Count) + 1
  <2>3. m \in 1 .. n /\ n \in 1 .. n
    BY <1>1, <1>4
  <2>4. /\ SubSeq(buffer, m, n) \in Seq(Entry)
        /\ Len(SubSeq(buffer, m, n)) = (IF m <= n THEN n - m + 1 ELSE 0)
        /\ \A k \in 1 .. n - m + 1 : SubSeq(buffer, m, n)[k] = buffer[m + k - 1]
    <3>1. m \in 1 .. n + 1 /\ n \in m - 1 .. n
      BY <1>1, <2>3
    <3>. HIDE DEF m
    <3>. QED BY <1>1, <3>1, SubSeqProperties DEF n
  <2>. HIDE DEF n
  <2>5. m <= n /\ (n - m) + 1 = Count /\ \A k \in 1 .. Count : /\ m + k - 1 = (n - Count) + k
                                                               /\ (n - Count) + k \in 1 .. n
    BY <1>1, <1>4
  <2>. HIDE DEF m, f
  <2>6. Len(f) = Count /\ f \in Seq(Entry)
    BY <2>1, <2>4, <2>5 DEF m
  <2>7. \A k \in 1 .. Count : f[k] = buffer[(n - Count) + k]
    BY <2>1, <2>4, <2>5 DEF m
  <2>. QED BY <1>4, <2>2, <2>5, <2>6, <2>7 DEF n, f
<1>. QED BY <1>2, <1>3, <1>4

LEMMA FetchedOrder ==
  ASSUME BufferInv, NEW ok \in BOOLEAN
  PROVE  Steady(Fetched(ok)) /\ Ascending(Fetched(ok))
<1>. DEFINE n == Len(buffer)
            f == Fetched(ok)
            c == n - Fetch
<1>1. /\ f \in Seq(Entry) /\ Len(f) \in Nat
      /\ \A k \in 1 .. Len(f) : c + k \in 1 .. n /\ f[k] = buffer[c + k]
  BY FetchedIs, LenProperties
<1>2. n \in Nat /\ Fetch \in Int
  BY Entries, Params DEF BufferInv, Fetch, Lesser
<1>3. c \in Int
  BY <1>2
<1>4. TicksPerSecond \in Nat \ {0}
  BY Params
<1>. HIDE DEF f, c
<1>5. ASSUME NEW a \in 1 .. Len(f), NEW b \in 1 .. Len(f), a < b
      PROVE  f[a].ts < f[b].ts /\ f[b].count - f[a].count <= f[b].ts - f[a].ts
  <2>1. c + a \in 1 .. n /\ c + b \in 1 .. n /\ c + a < c + b
    BY <1>1, <1>3, <1>5
  <2>2. /\ buffer[c + b].ts - buffer[c + a].ts >= TicksPerSecond * ((c + b) - (c + a))
        /\ buffer[c + b].count - buffer[c + a].count <= buffer[c + b].ts - buffer[c + a].ts
    BY <2>1 DEF BufferInv, Apart
  <2>3. buffer[c + a].ts \in Nat /\ buffer[c + b].ts \in Nat
    BY <2>1, Entries DEF BufferInv
  <2>. DEFINE d == (c + b) - (c + a)
  <2>4. d \in Nat \ {0}
    BY <1>1, <1>3, <1>5
  <2>. HIDE DEF d
  <2>5. TicksPerSecond * d \in Nat \ {0}
    BY <1>4, <2>4
  <2>6. buffer[c + b].ts - buffer[c + a].ts >= TicksPerSecond * d
    BY <2>2 DEF d
  <2>7. buffer[c + a].ts < buffer[c + b].ts
    BY <2>3, <2>5, <2>6
  <2>8. f[a] = buffer[c + a] /\ f[b] = buffer[c + b]
    BY <1>1
  <2>. QED BY <2>2, <2>7, <2>8
<1>6. \A k \in 1 .. Len(f) - 1 : k \in 1 .. Len(f) /\ k + 1 \in 1 .. Len(f) /\ k < k + 1
  BY <1>1
<1>. QED BY <1>5, <1>6 DEF Steady, Ascending, f

\* The samples of a collection: those of the fetched entries but the first.
Samples(ok) == ToSamples(Fetched(ok))

LEMMA SamplesAre ==
  ASSUME BufferInv, NEW ok \in BOOLEAN
  PROVE  /\ Samples(ok) \in Seq(Sample) /\ Ascending(Samples(ok))
         /\ \A k \in 1 .. Len(Samples(ok)) :
              \E a, b \in 1 .. Len(buffer) : /\ a < b
                                             /\ Samples(ok)[k].ts = buffer[b].ts
                                             /\ Samples(ok)[k].count = buffer[b].count
         /\ ok => \A b \in 1 .. Len(buffer) : b > (Len(buffer) - Fetch) + 1 =>
              \E k \in 1 .. Len(Samples(ok)) : /\ Samples(ok)[k].ts = buffer[b].ts
                                               /\ Samples(ok)[k].count = buffer[b].count
<1>. DEFINE f == Fetched(ok)
            t == Samples(ok)
            n == Len(buffer)
            c == n - Fetch
<1>1. /\ f \in Seq(Entry) /\ Len(f) \in Nat /\ Len(f) = IF ok THEN Fetch ELSE 0
      /\ \A k \in 1 .. Len(f) : c + k \in 1 .. n /\ f[k] = buffer[c + k]
  BY FetchedIs, LenProperties
<1>2. Steady(f) /\ Ascending(f)
  BY FetchedOrder
<1>3. n \in Nat /\ Fetch \in Int
  BY Entries, Params DEF BufferInv, Fetch, Lesser
<1>. HIDE DEF f
<1>4. /\ t \in Seq(Sample) /\ Ascending(t) /\ Len(t) \in Nat
      /\ Len(t) = IF f = <<>> THEN 0 ELSE Len(f) - 1
      /\ \A k \in 1 .. Len(t) : k + 1 \in 1 .. Len(f) /\ t[k].ts = f[k + 1].ts
                                /\ t[k].count = f[k + 1].count
  BY <1>1, <1>2, ToSamplesIs, SamplesAscend, LenProperties DEF Samples, f
<1>. HIDE DEF t, n, c
<1>5. c \in Int /\ c = n - Fetch
  BY <1>3 DEF c
<1>6. ASSUME NEW k \in 1 .. Len(t)
      PROVE  \E a, b \in 1 .. n : a < b /\ t[k].ts = buffer[b].ts /\ t[k].count = buffer[b].count
  <2>1. k + 1 \in 1 .. Len(f) /\ t[k].ts = f[k + 1].ts /\ t[k].count = f[k + 1].count
    BY <1>4
  <2>2. k \in 1 .. Len(f)
    BY <1>1, <2>1
  <2>3. c + k \in 1 .. n /\ c + (k + 1) \in 1 .. n /\ f[k + 1] = buffer[c + (k + 1)]
    BY <1>1, <2>1, <2>2
  <2>4. c + k < c + (k + 1)
    BY <1>5
  <2>. QED BY <2>1, <2>3, <2>4
<1>7. ASSUME ok, NEW b \in 1 .. n, b > c + 1
      PROVE  \E k \in 1 .. Len(t) : t[k].ts = buffer[b].ts /\ t[k].count = buffer[b].count
  <2>. DEFINE k == (b - c) - 1
  <2>1. k + 1 = b - c /\ k \in Nat \ {0} /\ c + (k + 1) = b
    BY <1>3, <1>5, <1>7
  <2>2. Len(f) = Fetch /\ k + 1 <= Fetch
    BY <1>1, <1>3, <1>5, <1>7
  <2>. HIDE DEF k
  <2>3. k + 1 \in 1 .. Len(f)
    BY <1>1, <2>1, <2>2
  <2>4. f # <<>>
    BY <2>3
  <2>5. k \in 1 .. Len(t)
    BY <1>1, <1>4, <2>1, <2>3, <2>4
  <2>6. t[k].ts = f[k + 1].ts /\ t[k].count = f[k + 1].count /\ f[k + 1] = buffer[b]
    BY <1>1, <1>4, <2>1, <2>3, <2>5
  <2>. QED BY <2>5, <2>6
<1>. QED BY <1>4, <1>6, <1>7 DEF t, n, c

-----------------------------------------------------------------------------
(* The aggregates are in their order.                                       *)

\* The samples a report is made of.
Chosen(ok) == Kept(InWindow(Samples(ok), start, end), start + Warmup)

LEMMA ReportIs ==
  ASSUME FlowInv, BufferInv, NEW ok \in BOOLEAN
  PROVE  /\ Report(Fetched(ok), start, end, Warmup) = Aggregate(Chosen(ok))
         /\ Chosen(ok) \in Seq(Sample)
<1>1. Report(Fetched(ok), start, end, Warmup) = Aggregate(Chosen(ok))
  BY DEF Report, Chosen, Samples
<1>2. start \in Nat /\ end \in Nat /\ start + Warmup \in Nat
  BY Params DEF FlowInv
<1>3. Samples(ok) \in Seq(Sample) /\ Ascending(Samples(ok))
  BY SamplesAre
<1>4. Chosen(ok) \in Seq(Sample)
  BY <1>2, <1>3, KeptIs DEF Chosen, ChosenFrom
<1>. QED BY <1>1, <1>4

LEMMA StatsStep ==
  ASSUME FlowInv, BufferInv, StatsOrdered, [Next]_vars
  PROVE  StatsOrdered'
<1>1. ASSUME UNCHANGED report PROVE StatsOrdered'
  BY <1>1 DEF StatsOrdered
<1>2. ASSUME NEW ok \in BOOLEAN, CollectResources(ok) PROVE StatsOrdered'
  <2>. DEFINE a == Aggregate(Chosen(ok))
  <2>1. report' = [ok |-> ok, aggregate |-> a]
    BY <1>2, ReportIs DEF CollectResources
  <2>2. LET s == a.rate
        IN /\ 0 <= s.min /\ s.min <= s.avg /\ s.avg <= s.max /\ s.max <= 100 * 100
           /\ s.min <= s.p50 /\ s.p50 <= s.p95 /\ s.p95 <= s.p99 /\ s.p99 <= s.max
    BY ReportIs, AggregateIs
  <2>. HIDE DEF a
  <2>3. report'.aggregate = a
    BY <2>1
  <2>. QED BY <2>2, <2>3 DEF StatsOrdered
<1>3. CASE StartCell
  <2>1. report' = Nothing
    BY <1>3 DEF StartCell
  <2>. QED BY <2>1 DEF StatsOrdered
<1>4. CASE UNCHANGED vars
  BY <1>1, <1>4 DEF vars
<1>5. CASE Tick \/ Restart \/ Skip \/ Probe \/ Retry \/ CollectNothing \/ NextCell
  BY <1>1, <1>5 DEF Tick, Restart, Skip, Probe, Retry, CollectNothing, NextCell
<1>6. ASSUME NEW rc \in {0, 1}, K6Ends(rc) PROVE StatsOrdered'
  BY <1>1, <1>6 DEF K6Ends
<1>. QED BY <1>2, <1>3, <1>4, <1>5, <1>6 DEF Next

\* Whatever restarts in a run, and wherever its window is cut: no rate in a report is negative
\* or above what the container can do, and the aggregates are in their order.
THEOREM StatsSound == Spec => []StatsOrdered
<1>1. Init => StatsOrdered
  BY DEF Init, StatsOrdered
<1>. QED
    BY Starts, Steps, FlowStarts, FlowSteps, BufferStarts, BufferSteps, <1>1, StatsStep, PTL DEF Spec

-----------------------------------------------------------------------------
(* No sample is lost.                                                       *)

\* Until the container restarts, cAdvisor has every entry that is not older than its
\* storage duration.
Coverage == restarts = 0 =>
  \A t \in Nat : Sampled(t) /\ t <= now /\ t > now - Retention =>
    \E k \in 1 .. Len(buffer) : buffer[k].ts = t

LEMMA CoverageStarts ==
  ASSUME Init
  PROVE  Coverage
<1>1. ASSUME NEW t \in Nat, Sampled(t), t <= now PROVE \E k \in 1 .. Len(buffer) : buffer[k].ts = t
  <2>1. t = 0 /\ upAt = 0
    BY <1>1, Params DEF Init, Sampled
  <2>2. buffer = <<[ts |-> 0, count |-> 0]>>
    BY <2>1 DEF Init
  <2>3. Len(buffer) = 1 /\ buffer[1].ts = 0
    BY <2>2
  <2>. QED BY <2>1, <2>3
<1>. QED BY <1>1 DEF Coverage

LEMMA CoverageTick ==
  ASSUME FlowInv, BufferInv, Coverage, restarts = 0, NEW c \in Nat,
         NEW t \in Nat, Sampled(t), t <= now + 1, t > (now + 1) - Retention
  PROVE  \E k \in 1 .. Len(Housekeeping(now + 1, c)) : Housekeeping(now + 1, c)[k].ts = t
<1>. DEFINE s == Append(buffer, Fresh(c))
            I == {k \in DOMAIN s : s[k].ts > (now + 1) - Retention}
            n == Len(buffer)
<1>0. now \in Nat /\ Retention \in Nat /\ buffer \in Seq(Entry) /\ n \in Nat
      /\ \A k \in 1 .. n : buffer[k].ts \in Nat
  BY Params, Entries DEF FlowInv, BufferInv
<1>1. CASE t <= now
  <2>1. t > now - Retention
    BY <1>0
  <2>2. PICK j \in 1 .. n : buffer[j].ts = t
    BY <1>1, <2>1 DEF Coverage
  <2>3. CASE ~ Sampled(now + 1)
    <3>1. Housekeeping(now + 1, c) = buffer
      BY <1>0, <2>3 DEF Housekeeping, Sampled, FlowInv
    <3>. QED BY <2>2, <3>1
  <2>4. CASE Sampled(now + 1)
    <3>1. Housekeeping(now + 1, c) = Pick(s, I)
      BY <2>4 DEF Housekeeping, Sampled, Fresh
    <3>2. Fresh(c) \in Entry
      BY <1>0 DEF Fresh, Entry
    <3>3. /\ s \in Seq(Entry) /\ Len(s) = n + 1 /\ DOMAIN s = 1 .. Len(s)
          /\ \A k \in 1 .. n : s[k] = buffer[k]
      BY <1>0, <3>2, AppendProperties, LenProperties
    <3>. HIDE DEF s, n
    <3>4. j \in 1 .. Len(s) /\ s[j].ts = t
      BY <1>0, <2>2, <3>3
    <3>5. j \in I
      BY <3>3, <3>4
    <3>. HIDE DEF I
    <3>6. s \in Seq(Entry)
      BY <3>3
    <3>7. j \in 1 .. Len(s)
      BY <3>4
    <3>8. \E k \in 1 .. Len(Pick(s, I)) : Pick(s, I)[k] = s[j]
      BY <3>5, <3>6, <3>7, PickStays
    <3>. QED BY <3>1, <3>4, <3>8
  <2>. QED BY <2>3, <2>4
<1>2. CASE t = now + 1
  <2>1. Housekeeping(now + 1, c) = Pick(s, I)
    BY <1>2 DEF Housekeeping, Sampled, Fresh
  <2>2. Fresh(c) \in Entry /\ Fresh(c).ts = t
    BY <1>0, <1>2 DEF Fresh, Entry
  <2>3. /\ s \in Seq(Entry) /\ Len(s) = n + 1 /\ DOMAIN s = 1 .. Len(s) /\ s[n + 1] = Fresh(c)
    BY <1>0, <2>2, AppendProperties, LenProperties
  <2>. HIDE DEF s, n
  <2>4. n + 1 \in 1 .. Len(s) /\ s[n + 1].ts = t
    BY <1>0, <2>2, <2>3
  <2>5. n + 1 \in I
    BY <2>3, <2>4
  <2>. HIDE DEF I
  <2>6. s \in Seq(Entry)
    BY <2>3
  <2>. DEFINE m == n + 1
  <2>7. m \in 1 .. Len(s) /\ m \in I
    BY <2>4, <2>5
  <2>. HIDE DEF m
  <2>8. \E k \in 1 .. Len(Pick(s, I)) : Pick(s, I)[k] = s[m]
    BY <2>6, <2>7, PickStays
  <2>. QED BY <2>1, <2>4, <2>8 DEF m
<1>. QED BY <1>0, <1>1, <1>2

LEMMA CoverageSteps ==
  ASSUME FlowInv, BufferInv, Coverage, [Next]_vars
  PROVE  Coverage'
<1>0. now \in Nat /\ counter \in Nat /\ restarts \in Nat
  BY DEF FlowInv
<1>1. CASE Tick
  <2>1. PICK work \in {0, 1} : buffer' = Housekeeping(now + 1, counter + work)
    BY <1>1 DEF Tick
  <2>. DEFINE c == counter + work
  <2>2. c \in Nat
    BY <1>0
  <2>. HIDE DEF c
  <2>3. now' = now + 1 /\ upAt' = upAt /\ restarts' = restarts /\ buffer' = Housekeeping(now + 1, c)
    BY <1>1, <2>1 DEF Tick, c
  <2>4. ASSUME restarts = 0, NEW t \in Nat, Sampled(t), t <= now + 1, t > (now + 1) - Retention
        PROVE  \E k \in 1 .. Len(buffer') : buffer'[k].ts = t
    BY <2>2, <2>3, <2>4, CoverageTick
  <2>. QED BY <2>3, <2>4 DEF Coverage, Sampled
<1>2. CASE Restart
  <2>1. restarts' # 0
    BY <1>0, <1>2 DEF Restart
  <2>. QED BY <2>1 DEF Coverage
<1>3. ASSUME UNCHANGED <<now, upAt, buffer, restarts>> PROVE Coverage'
  BY <1>3 DEF Coverage, Sampled
<1>4. CASE UNCHANGED vars
  BY <1>3, <1>4 DEF vars
<1>5. ASSUME NEW rc \in {0, 1}, K6Ends(rc) PROVE Coverage'
  BY <1>3, <1>5 DEF K6Ends
<1>6. ASSUME NEW ok \in BOOLEAN, CollectResources(ok) PROVE Coverage'
  BY <1>3, <1>6 DEF CollectResources
<1>7. CASE Skip \/ Probe \/ Retry
  BY <1>3, <1>7 DEF Skip, Probe, Retry
<1>8. CASE StartCell \/ CollectNothing \/ NextCell
  BY <1>3, <1>8 DEF StartCell, CollectNothing, NextCell
<1>. QED BY <1>1, <1>2, <1>4, <1>5, <1>6, <1>7, <1>8 DEF Next

\* Where the buffer covers the cell, the collector has a sample of every second since the
\* cell's start: the entry, and the one before it.
LEMMA SampleThere ==
  ASSUME FlowInv, BufferInv, Coverage, restarts = 0, BufferCovers,
         NEW t \in Nat, Sampled(t), upAt < t, start <= t, t <= now
  PROVE  \E k \in 1 .. Len(Samples(TRUE)), b \in 1 .. Len(buffer) :
           /\ buffer[b].ts = t
           /\ Samples(TRUE)[k].ts = t /\ Samples(TRUE)[k].count = buffer[b].count
<1>. DEFINE d == TicksPerSecond
            n == Len(buffer)
            p == Count * d
            u == t - d
<1>0. /\ now \in Nat /\ start \in Nat /\ upAt \in Nat /\ d \in Nat \ {0} /\ Retention \in Nat
      /\ Count \in Nat \ {0} /\ p \in Nat
  BY Params DEF FlowInv
<1>. HIDE DEF d, p
<1>1. (now - start) + 2 * d <= Retention /\ (now - start) + 2 * d <= p
  BY <1>0 DEF BufferCovers, Lesser, d, p
<1>2. n \in Nat /\ \A k \in 1 .. n : buffer[k].ts \in Nat /\ buffer[k].ts <= now
  BY Entries DEF BufferInv
<1>21. Fetch = IF n < Count THEN n ELSE Count
  BY DEF Fetch, Lesser
<1>3. Sampled(u)
  BY <1>0, SampledNext DEF d
<1>4. u \in Nat /\ u < t /\ u > now - Retention /\ t > now - Retention /\ u <= now
      /\ now - u <= p - d
  <2>1. u \in Nat
    BY <1>3 DEF Sampled
  <2>. QED BY <1>0, <1>1, <2>1
<1>5. PICK a \in 1 .. n : buffer[a].ts = u
  BY <1>3, <1>4 DEF Coverage
<1>6. PICK b \in 1 .. n : buffer[b].ts = t
  BY <1>4 DEF Coverage
<1>. HIDE DEF u, n
<1>7. \A i, j \in 1 .. n : i < j => buffer[j].ts - buffer[i].ts >= d * (j - i)
  BY DEF BufferInv, Apart, n, d
<1>8. a < b
  <2>1. CASE a = b
    BY <1>4, <1>5, <1>6, <2>1
  <2>2. CASE b < a
    <3>1. u - t >= d * (a - b)
      BY <1>5, <1>6, <1>7, <2>2
    <3>. DEFINE e == a - b
    <3>2. e \in Nat
      BY <1>2, <2>2
    <3>. HIDE DEF e
    <3>3. d * e \in Nat /\ u - t >= d * e
      BY <1>0, <3>1, <3>2 DEF e
    <3>. QED BY <1>4, <3>3
  <2>. QED BY <1>2, <2>1, <2>2
<1>9. a > n - Fetch
  <2>1. CASE n <= Count
    BY <1>0, <1>2, <1>21, <2>1
  <2>2. CASE ~ (n <= Count)
    <3>1. Fetch = Count
      BY <1>0, <1>2, <1>21, <2>2
    <3>2. a \in Nat /\ a <= n /\ n \in 1 .. n
      BY <1>2
    <3>. DEFINE e == n - a
    <3>3. e \in Nat
      BY <1>2, <3>2
    <3>4. d * e \in Int /\ d * e <= p - d
      <4>1. CASE a = n
        <5>1. e = 0 /\ p >= d
          <6>1. p = d * Count /\ d * Count >= d * 0 + d
            BY <1>0, Multiples DEF p
          <6>. QED BY <1>0, <4>1, <6>1
        <5>. HIDE DEF e
        <5>. QED BY <1>0, <5>1
      <4>2. CASE a < n
        <5>1. buffer[n].ts - u >= d * e
          BY <1>5, <1>7, <3>2, <4>2
        <5>2. buffer[n].ts <= now /\ buffer[n].ts \in Nat
          BY <1>2, <3>2
        <5>. HIDE DEF e
        <5>3. d * e \in Int
          BY <1>0, <3>3
        <5>. QED BY <1>0, <1>4, <5>1, <5>2, <5>3
      <4>. QED BY <3>2, <4>1, <4>2
    <3>. HIDE DEF e
    <3>5. e < Count
      <4>1. SUFFICES ASSUME Count <= e PROVE FALSE
        BY <1>0, <3>3
      <4>2. d * e >= d * Count
        <5>1. CASE e = Count
          BY <1>0, <5>1
        <5>2. CASE Count < e
          <6>1. d * e >= d * Count + d /\ d * Count \in Int
            BY <1>0, <3>3, <5>2, Multiples
          <6>. QED BY <1>0, <3>4, <6>1
        <5>. QED BY <1>0, <3>3, <4>1, <5>1, <5>2
      <4>3. d * Count = p
        BY <1>0 DEF p
      <4>. QED BY <1>0, <3>4, <4>2, <4>3
    <3>. QED BY <1>0, <1>2, <3>1, <3>2, <3>5 DEF e
  <2>. QED BY <2>1, <2>2
<1>10. b > (n - Fetch) + 1
  BY <1>0, <1>2, <1>21, <1>8, <1>9
<1>11. \E k \in 1 .. Len(Samples(TRUE)) : /\ Samples(TRUE)[k].ts = buffer[b].ts
                                          /\ Samples(TRUE)[k].count = buffer[b].count
  BY <1>10, SamplesAre DEF n
<1>. QED BY <1>6, <1>11 DEF n

\* The moments of Taken.
Times(from, to) ==
  {t \in upAt + 1 .. now : (t - upAt) % TicksPerSecond = 0 /\ from <= t /\ t <= to}

LEMMA TimesAre ==
  ASSUME FlowInv, NEW from \in Nat, NEW to \in Nat, NEW t
  PROVE  t \in Times(from, to) <=> t \in Nat /\ Sampled(t) /\ upAt < t /\ t <= now /\ from <= t /\ t <= to
<1>1. now \in Nat /\ upAt \in Nat
  BY DEF FlowInv
<1>. QED BY <1>1 DEF Times, Sampled

LEMMA TakenIs ==
  ASSUME FlowInv, NEW from \in Nat, NEW to \in Nat
  PROVE  /\ Taken(from, to) = Cardinality(Times(from, to))
         /\ Taken(from, to) = 0 <=> Times(from, to) = {}
<1>1. now \in Nat /\ upAt \in Nat
  BY DEF FlowInv
<1>2. Taken(from, to) = Cardinality(Times(from, to))
  BY DEF Taken, Times
<1>3. upAt + 1 \in Int /\ now \in Int
  BY <1>1
<1>4. IsFiniteSet(upAt + 1 .. now)
  BY <1>3, FS_Interval
<1>5. Times(from, to) \in SUBSET (upAt + 1 .. now)
  BY DEF Times
<1>6. IsFiniteSet(Times(from, to))
  BY <1>4, <1>5, FS_Subset
<1>. QED BY <1>2, <1>6, FS_EmptySet

\* A sample of the collection is one of these moments.
LEMMA SampleTimes ==
  ASSUME FlowInv, BufferInv, NEW ok \in BOOLEAN, NEW k \in 1 .. Len(Samples(ok))
  PROVE  LET t == Samples(ok)[k].ts
         IN t \in Nat /\ Sampled(t) /\ upAt < t /\ t <= now
<1>1. PICK a \in 1 .. Len(buffer), b \in 1 .. Len(buffer) :
        a < b /\ Samples(ok)[k].ts = buffer[b].ts
  BY SamplesAre
<1>. DEFINE d == TicksPerSecond
            e == b - a
<1>2. /\ Sampled(buffer[a].ts) /\ Sampled(buffer[b].ts) /\ buffer[b].ts <= now
      /\ buffer[b].ts - buffer[a].ts >= d * e
  BY <1>1 DEF BufferInv, Apart
<1>3. e \in Nat \ {0} /\ d \in Nat \ {0}
  BY <1>1, Entries, Params DEF BufferInv
<1>. HIDE DEF d, e
<1>4. d * e \in Nat \ {0}
  BY <1>3
<1>5. upAt \in Nat /\ buffer[a].ts \in Nat /\ buffer[a].ts >= upAt /\ buffer[b].ts \in Nat
  BY <1>2 DEF FlowInv, Sampled
<1>6. upAt < buffer[b].ts
  BY <1>2, <1>4, <1>5
<1>. QED BY <1>1, <1>2, <1>5, <1>6

\* The report has the moments of the window, or of the part behind the warm-up if there are any.
LEMMA ChosenTimes ==
  ASSUME FlowInv, BufferInv, Coverage, restarts = 0, BufferCovers
  PROVE  LET late == Times(start + Warmup, end)
         IN {Chosen(TRUE)[k].ts : k \in 1 .. Len(Chosen(TRUE))}
              = IF late = {} THEN Times(start, end) ELSE late
<1>. DEFINE s == Samples(TRUE)
            cutoff == start + Warmup
            c == Chosen(TRUE)
            T == {c[k].ts : k \in 1 .. Len(c)}
            In(j) == start <= s[j].ts /\ s[j].ts <= end
            Late(j) == In(j) /\ cutoff <= s[j].ts
<1>1. /\ start \in Nat /\ end \in Nat /\ cutoff \in Nat /\ now \in Nat /\ Warmup \in Nat
      /\ end <= now /\ start <= cutoff
  BY Params DEF FlowInv
<1>2. s \in Seq(Sample) /\ Ascending(s)
  BY SamplesAre
<1>3. c = Kept(InWindow(s, start, end), cutoff)
  BY DEF Chosen
<1>. HIDE DEF s, c, cutoff
<1>4. /\ \A k \in 1 .. Len(c) : \E j \in 1 .. Len(s) : In(j) /\ c[k] = s[j]
      /\ \A j \in 1 .. Len(s) : Late(j) => \E k \in 1 .. Len(c) : c[k] = s[j]
      /\ (\E j \in 1 .. Len(s) : Late(j)) => \A k \in 1 .. Len(c) : cutoff <= c[k].ts
      /\ ~ (\E j \in 1 .. Len(s) : Late(j)) =>
           \A j \in 1 .. Len(s) : In(j) => \E k \in 1 .. Len(c) : c[k] = s[j]
  <2>1. start \in Nat /\ end \in Nat /\ cutoff \in Nat
    BY <1>1
  <2>2. ChosenFrom(c, s, start, end, cutoff)
    BY <1>2, <1>3, <2>1, KeptIs
  <2>. QED BY <2>2 DEF ChosenFrom
<1>5. \A j \in 1 .. Len(s) : s[j].ts \in Nat /\ Sampled(s[j].ts) /\ upAt < s[j].ts /\ s[j].ts <= now
  BY SampleTimes DEF s
<1>6. \A t \in Times(start, end) : \E j \in 1 .. Len(s) : s[j].ts = t /\ In(j)
  <2>. TAKE t \in Times(start, end)
  <2>1. t \in Nat /\ Sampled(t) /\ upAt < t /\ t <= now /\ start <= t /\ t <= end
    BY <1>1, TimesAre
  <2>2. \E k \in 1 .. Len(s) : s[k].ts = t
    BY <2>1, SampleThere DEF s
  <2>. QED BY <2>1, <2>2
<1>7. \A j \in 1 .. Len(s) : In(j) => s[j].ts \in Times(start, end)
  BY <1>1, <1>5, TimesAre
<1>8. \A t : t \in Times(cutoff, end) <=> t \in Times(start, end) /\ cutoff <= t
  <2>. TAKE t
  <2>1. /\ t \in Times(start, end) <=>
             t \in Nat /\ Sampled(t) /\ upAt < t /\ t <= now /\ start <= t /\ t <= end
        /\ t \in Times(cutoff, end) <=>
             t \in Nat /\ Sampled(t) /\ upAt < t /\ t <= now /\ cutoff <= t /\ t <= end
    BY <1>1, TimesAre
  <2>. QED BY <1>1, <2>1
<1>9. CASE Times(cutoff, end) = {}
  <2>1. \A j \in 1 .. Len(s) : ~ Late(j)
    BY <1>7, <1>8, <1>9
  <2>2. T \subseteq Times(start, end)
    BY <1>4, <1>7
  <2>3. Times(start, end) \subseteq T
    <3>. SUFFICES ASSUME NEW t \in Times(start, end) PROVE t \in T
      OBVIOUS
    <3>1. PICK j \in 1 .. Len(s) : s[j].ts = t /\ In(j)
      BY <1>6
    <3>2. PICK k \in 1 .. Len(c) : c[k] = s[j]
      BY <1>4, <2>1, <3>1
    <3>. QED BY <3>1, <3>2
  <2>. QED BY <1>9, <2>2, <2>3 DEF c, cutoff
<1>10. CASE Times(cutoff, end) # {}
  <2>1. \E j \in 1 .. Len(s) : Late(j)
    <3>1. PICK t : t \in Times(cutoff, end)
      BY <1>10
    <3>2. t \in Times(start, end) /\ cutoff <= t
      BY <1>8, <3>1
    <3>3. PICK j \in 1 .. Len(s) : s[j].ts = t /\ In(j)
      BY <1>6, <3>2
    <3>. QED BY <3>2, <3>3
  <2>2. T \subseteq Times(cutoff, end)
    <3>. SUFFICES ASSUME NEW k \in 1 .. Len(c) PROVE c[k].ts \in Times(cutoff, end)
      OBVIOUS
    <3>1. PICK j \in 1 .. Len(s) : In(j) /\ c[k] = s[j]
      BY <1>4
    <3>2. cutoff <= c[k].ts
      BY <1>4, <2>1
    <3>3. c[k].ts \in Times(start, end)
      BY <1>7, <3>1
    <3>. QED BY <1>8, <3>2, <3>3
  <2>3. Times(cutoff, end) \subseteq T
    <3>. SUFFICES ASSUME NEW t \in Times(cutoff, end) PROVE t \in T
      OBVIOUS
    <3>1. t \in Times(start, end) /\ cutoff <= t
      BY <1>8
    <3>2. PICK j \in 1 .. Len(s) : s[j].ts = t /\ In(j)
      BY <1>6, <3>1
    <3>3. PICK k \in 1 .. Len(c) : c[k] = s[j]
      BY <1>4, <3>1, <3>2
    <3>. QED BY <3>2, <3>3
  <2>. QED BY <1>10, <2>2, <2>3 DEF c, cutoff
<1>. QED BY <1>9, <1>10 DEF cutoff

LEMMA NothingLost ==
  ASSUME FlowInv, BufferInv, Coverage, restarts = 0, BufferCovers
  PROVE  LET late == Taken(start + Warmup, end)
         IN Len(Chosen(TRUE)) = IF late = 0 THEN Taken(start, end) ELSE late
<1>. DEFINE cutoff == start + Warmup
            c == Chosen(TRUE)
            T == {c[k].ts : k \in 1 .. Len(c)}
<1>1. start \in Nat /\ end \in Nat /\ cutoff \in Nat
  BY Params DEF FlowInv
<1>2. c \in Seq(Sample) /\ Ascending(c)
  BY <1>1, SamplesAre, KeptIs DEF Chosen, ChosenFrom
<1>3. Cardinality(T) = Len(c)
  <2>. HIDE DEF c
  <2>. QED BY <1>2, DistinctTimes
<1>4. T = IF Times(cutoff, end) = {} THEN Times(start, end) ELSE Times(cutoff, end)
  BY ChosenTimes
<1>. HIDE DEF cutoff, c, T
<1>5. /\ Taken(cutoff, end) = Cardinality(Times(cutoff, end))
      /\ Taken(cutoff, end) = 0 <=> Times(cutoff, end) = {}
      /\ Taken(start, end) = Cardinality(Times(start, end))
  BY <1>1, TakenIs
<1>6. Len(c) = IF Taken(cutoff, end) = 0 THEN Taken(start, end) ELSE Taken(cutoff, end)
  BY <1>3, <1>4, <1>5
<1>. QED BY <1>6 DEF c, cutoff

\* What the window holds does not change as time goes on.
LEMMA WindowClosed ==
  ASSUME FlowInv, upAt' = upAt, end' = end, start' = start, now' \in {now, now + 1}
  PROVE  /\ \A from : Taken(from, end)' = Taken(from, end)
         /\ BufferCovers' => BufferCovers
<1>1. now \in Nat /\ upAt \in Nat /\ start \in Nat /\ end \in Nat /\ end <= now
  BY DEF FlowInv
<1>2. ASSUME NEW from PROVE Taken(from, end)' = Taken(from, end)
  <2>1. \A t : t \in upAt + 1 .. now' /\ t <= end <=> t \in upAt + 1 .. now /\ t <= end
    BY <1>1
  <2>2. {t \in upAt + 1 .. now' : (t - upAt) % TicksPerSecond = 0 /\ from <= t /\ t <= end}
        = {t \in upAt + 1 .. now : (t - upAt) % TicksPerSecond = 0 /\ from <= t /\ t <= end}
    BY <2>1
  <2>. QED BY <2>2 DEF Taken
<1>3. ASSUME BufferCovers' PROVE BufferCovers
  <2>. DEFINE m == Lesser(Retention, Count * TicksPerSecond)
              w == 2 * TicksPerSecond
  <2>1. m \in Int /\ w \in Int
    <3>1. Retention \in Int /\ Count * TicksPerSecond \in Int /\ w \in Int
      BY Params
    <3>. QED BY <3>1 DEF Lesser
  <2>2. (now' - start) + w <= m
    BY <1>3 DEF BufferCovers
  <2>. HIDE DEF m, w
  <2>3. (now - start) + w <= m
    <3>1. CASE now' = now
      BY <2>2, <3>1
    <3>2. CASE now' = now + 1
      BY <1>1, <2>1, <2>2, <3>2
    <3>. QED BY <3>1, <3>2
  <2>. QED BY <2>3 DEF BufferCovers, m, w
<1>. QED BY <1>2, <1>3

LEMMA LostStep ==
  ASSUME FlowInv, BufferInv, Coverage, NoSampleLost, [Next]_vars
  PROVE  NoSampleLost'
<1>0. now \in Nat /\ restarts \in Nat
  BY DEF FlowInv
<1>1. ASSUME UNCHANGED <<report, restarts, upAt, start, end>>, now' \in {now, now + 1}
      PROVE  NoSampleLost'
  <2>1. SUFFICES ASSUME report' # Nothing, report'.ok, restarts' = 0, BufferCovers'
                 PROVE  LET late == Taken(start + Warmup, end)'
                        IN report'.aggregate.samples = IF late = 0 THEN Taken(start, end)' ELSE late
    BY DEF NoSampleLost
  <2>2. /\ Taken(start + Warmup, end)' = Taken(start + Warmup, end)
        /\ Taken(start, end)' = Taken(start, end)
    <3>1. \A from : Taken(from, end)' = Taken(from, end)
      BY <1>1, WindowClosed
    <3>. QED BY <1>1, <3>1 DEF Taken
  <2>3. BufferCovers
    BY <1>1, <2>1, WindowClosed
  <2>. QED BY <1>1, <2>1, <2>2, <2>3 DEF NoSampleLost
<1>2. CASE report' = Nothing
  BY <1>2 DEF NoSampleLost
<1>3. CASE Tick
  BY <1>0, <1>1, <1>3 DEF Tick
<1>4. CASE Restart
  <2>1. restarts' # 0
    BY <1>0, <1>4 DEF Restart
  <2>. QED BY <2>1 DEF NoSampleLost
<1>5. CASE Skip \/ Probe \/ Retry
  BY <1>2, <1>5 DEF Skip, Probe, Retry, FlowInv
<1>6. CASE StartCell
  BY <1>2, <1>6 DEF StartCell
<1>7. ASSUME NEW rc \in {0, 1}, K6Ends(rc) PROVE NoSampleLost'
  BY <1>2, <1>7 DEF K6Ends, FlowInv
<1>8. CASE CollectNothing \/ NextCell
  BY <1>1, <1>8 DEF CollectNothing, NextCell
<1>9. ASSUME NEW ok \in BOOLEAN, CollectResources(ok) PROVE NoSampleLost'
  <2>. DEFINE a == Aggregate(Chosen(ok))
  <2>1. report' = [ok |-> ok, aggregate |-> a] /\ UNCHANGED <<now, upAt, start, end, restarts>>
    BY <1>9, ReportIs DEF CollectResources
  <2>2. a.samples = Len(Chosen(ok))
    BY ReportIs, AggregateIs
  <2>. HIDE DEF a
  <2>3. SUFFICES ASSUME ok, restarts = 0, BufferCovers
                 PROVE  LET late == Taken(start + Warmup, end)
                        IN a.samples = IF late = 0 THEN Taken(start, end) ELSE late
    BY <2>1 DEF NoSampleLost, BufferCovers, Taken
  <2>. QED BY <2>2, <2>3, NothingLost
<1>10. CASE UNCHANGED vars
  BY <1>1, <1>10 DEF vars
<1>. QED BY <1>3, <1>4, <1>5, <1>6, <1>7, <1>8, <1>9, <1>10 DEF Next

\* Where cAdvisor's storage and the collector's count cover the cell, every entry of its
\* window behind the warm-up is counted, once, and none of another cell: whatever the clock's
\* resolution, and wherever between two seconds the cell begins and ends.
THEOREM NothingLostEver == Spec => []NoSampleLost
<1>1. Init => NoSampleLost
  BY DEF Init, NoSampleLost
<1>. QED
    BY Starts, Steps, FlowStarts, FlowSteps, BufferStarts, BufferSteps, CoverageStarts, CoverageSteps,
       <1>1, LostStep, PTL DEF Spec

-----------------------------------------------------------------------------
(* The delta is the cell's.                                                 *)

\* Between cells: what was sampled in the last second is what the counter says.
Quiet(e) == e.ts + TicksPerSecond >= now => e.count = counter

\* Behind k6: an entry lacks at most the work since its time.
Drained(e) == e.count = counter \/ counter - e.count <= since - e.ts

\* Since the cell's start: no entry is older than the cell's traffic, and what it has of
\* that fits into the time since the start, and since cAdvisor began.
Own(e) == e.ts >= start =>
  /\ counter <= e.count + caused
  /\ (e.count + caused) - counter <= e.ts - start
  /\ (e.count + caused) - counter <= e.ts - upAt

Traffic == restarts = 0 =>
  /\ \A k \in 1 .. Len(buffer) : buffer[k].count <= counter
  /\ \A a, b \in 1 .. Len(buffer) : a < b => buffer[a].count <= buffer[b].count
  /\ pc \in {"probe", "retry"} => counter = 0
  /\ pc = "k6" => caused <= now - since
  /\ pc = "tail" => caused <= since - start
  /\ sampling = "on" =>
       /\ pc \in {"start", "cooldown"} => \A k \in 1 .. Len(buffer) : Quiet(buffer[k])
       /\ pc \in {"k6", "tail"} => \A k \in 1 .. Len(buffer) : Own(buffer[k])
       /\ pc = "tail" => /\ \A k \in 1 .. Len(buffer) : Drained(buffer[k])
                         /\ caused <= since - upAt

LEMMA TrafficStarts ==
  ASSUME Init
  PROVE  Traffic
<1>1. CASE upAt = 0
  <2>1. buffer = <<[ts |-> 0, count |-> 0]>>
    BY <1>1 DEF Init
  <2>2. Len(buffer) = 1 /\ buffer[1].count = 0
    BY <2>1
  <2>3. \A k \in 1 .. Len(buffer) : k = 1
    BY <2>2
  <2>. QED BY <2>2, <2>3 DEF Init, Traffic
<1>2. CASE upAt # 0
  <2>1. buffer = <<>>
    BY <1>2 DEF Init
  <2>. QED BY <2>1 DEF Init, Traffic
<1>. QED BY <1>1, <1>2

\* A tick brings no entry that is below its predecessors.
LEMMA GrowingTick ==
  ASSUME FlowInv, BufferInv, NEW c \in Nat, c >= counter,
         \A k \in 1 .. Len(buffer) : buffer[k].count <= counter,
         \A a, b \in 1 .. Len(buffer) : a < b => buffer[a].count <= buffer[b].count
  PROVE  LET new == Housekeeping(now + 1, c)
         IN \A a, b \in 1 .. Len(new) : a < b => new[a].count <= new[b].count
<1>. DEFINE s == Append(buffer, Fresh(c))
            I == {k \in DOMAIN s : s[k].ts > (now + 1) - Retention}
            n == Len(buffer)
            R == {x \in Entry \X Entry : x[1].count <= x[2].count}
            new == Housekeeping(now + 1, c)
<1>0. now \in Nat /\ counter \in Nat /\ buffer \in Seq(Entry) /\ n \in Nat
      /\ \A k \in 1 .. n : buffer[k] \in Entry /\ buffer[k].count \in Nat
  BY Entries DEF FlowInv, BufferInv
<1>1. CASE ~ Sampled(now + 1)
  <2>1. new = buffer
    BY <1>0, <1>1 DEF Housekeeping, Sampled, FlowInv
  <2>. QED BY <2>1
<1>2. CASE Sampled(now + 1)
  <2>1. new = Pick(s, I)
    BY <1>2 DEF Housekeeping, Sampled, Fresh
  <2>2. Fresh(c) \in Entry /\ Fresh(c).count = c
    BY <1>0 DEF Fresh, Entry
  <2>3. /\ s \in Seq(Entry) /\ Len(s) = n + 1
        /\ \A k \in 1 .. n : s[k] = buffer[k]
        /\ s[n + 1] = Fresh(c)
    BY <1>0, <2>2, AppendProperties
  <2>. HIDE DEF s, I, n, new
  <2>4. ASSUME NEW a \in 1 .. Len(s), NEW b \in 1 .. Len(s), a < b PROVE <<s[a], s[b]>> \in R
    <3>1. a \in 1 .. n /\ s[a] = buffer[a] /\ s[a] \in Entry /\ s[b] \in Entry
      BY <1>0, <2>2, <2>3, <2>4, LenProperties
    <3>2. CASE b = n + 1
      <4>1. buffer[a].count <= counter /\ buffer[a].count \in Nat
        BY <1>0, <3>1 DEF n
      <4>2. s[a].count <= s[b].count
        BY <1>0, <2>2, <2>3, <3>1, <3>2, <4>1
      <4>. QED BY <3>1, <4>2
    <3>3. CASE b \in 1 .. n
      <4>1. s[b] = buffer[b] /\ buffer[a].count <= buffer[b].count
        BY <2>3, <2>4, <3>1, <3>3 DEF n
      <4>. QED BY <3>1, <4>1
    <3>. QED BY <1>0, <2>3, <3>2, <3>3
  <2>5. s \in Seq(Entry)
    BY <2>3
  <2>6. \A a, b \in 1 .. Len(Pick(s, I)) : a < b => <<Pick(s, I)[a], Pick(s, I)[b]>> \in R
    <3>. HIDE DEF R
    <3>. QED BY <2>4, <2>5, PickOrdered
  <2>7. \A a, b \in 1 .. Len(new) : a < b => new[a].count <= new[b].count
    BY <2>1, <2>6
  <2>. QED BY <2>7 DEF new
<1>. QED BY <1>1, <1>2

LEMMA TrafficTick ==
  ASSUME FlowInv, BufferInv, Traffic, restarts = 0, Tick
  PROVE  Traffic'
<1>1. PICK work \in {0, 1} :
        /\ work = 1 => pc = "k6"
        /\ counter' = counter + work /\ caused' = caused + work
        /\ buffer' = Housekeeping(now + 1, counter + work)
  BY DEF Tick
<1>2. /\ now' = now + 1
      /\ UNCHANGED <<upAt, pc, sampling, since, start, end, restarts, report>>
  BY DEF Tick, probing
<1>3. /\ now \in Nat /\ counter \in Nat /\ caused \in Nat /\ since \in Nat /\ start \in Nat /\ upAt \in Nat
      /\ buffer \in Seq(Entry) /\ TicksPerSecond \in Nat \ {0} /\ work \in Nat
      /\ since <= now
  BY Params DEF FlowInv, BufferInv
<1>. DEFINE c == counter + work
<1>4. c \in Nat /\ c >= counter
  BY <1>3
<1>. HIDE DEF c
<1>5. /\ \A k \in 1 .. Len(buffer') : \/ \E j \in 1 .. Len(buffer) : buffer'[k] = buffer[j]
                                      \/ buffer'[k] = Fresh(c) /\ Sampled(now + 1)
  BY <1>1, <1>3, <1>4, KeptEntries DEF c
<1>6. Fresh(c).ts = now + 1 /\ Fresh(c).count = c
  BY DEF Fresh
<1>7. \A j \in 1 .. Len(buffer) : buffer[j].ts \in Nat /\ buffer[j].count \in Nat
  BY <1>3, Entries
<1>8. \A j \in 1 .. Len(buffer) : buffer[j].count <= counter
  BY DEF Traffic
<1>9. \A k \in 1 .. Len(buffer') : buffer'[k].count <= counter'
  <2>. TAKE k \in 1 .. Len(buffer')
  <2>1. ASSUME NEW j \in 1 .. Len(buffer), buffer'[k] = buffer[j] PROVE buffer'[k].count <= counter'
    <3>1. buffer[j].count \in Nat /\ buffer[j].count <= counter
      BY <1>7, <1>8
    <3>. QED BY <1>1, <1>3, <2>1, <3>1
  <2>2. ASSUME buffer'[k] = Fresh(c) PROVE buffer'[k].count <= counter'
    <3>1. buffer'[k].count = c /\ counter' = c
      BY <1>1, <1>6, <2>2 DEF c
    <3>. QED BY <1>4, <3>1
  <2>. QED BY <1>5, <2>1, <2>2
<1>10. \A a, b \in 1 .. Len(buffer') : a < b => buffer'[a].count <= buffer'[b].count
  <2>1. \A a, b \in 1 .. Len(buffer) : a < b => buffer[a].count <= buffer[b].count
    BY DEF Traffic
  <2>2. \A a, b \in 1 .. Len(Housekeeping(now + 1, c)) :
          a < b => Housekeeping(now + 1, c)[a].count <= Housekeeping(now + 1, c)[b].count
    BY <1>4, <1>8, <2>1, GrowingTick
  <2>3. buffer' = Housekeeping(now + 1, c)
    BY <1>1 DEF c
  <2>. QED BY <2>2, <2>3
<1>11. pc \in {"probe", "retry"} => counter' = 0
  BY <1>1, <1>3 DEF Traffic
<1>12. pc = "k6" => caused' <= now' - since
  <2>1. pc = "k6" => caused <= now - since
    BY DEF Traffic
  <2>. QED BY <1>1, <1>2, <1>3, <2>1
<1>13. pc # "k6" => counter' = counter /\ caused' = caused /\ c = counter
  BY <1>1, <1>3 DEF c
<1>14. pc = "tail" => caused' <= since - start
  BY <1>13 DEF Traffic
<1>15. ASSUME sampling = "on", pc \in {"start", "cooldown"}, NEW k \in 1 .. Len(buffer')
       PROVE  Quiet(buffer[k])'
  <2>1. \A j \in 1 .. Len(buffer) : Quiet(buffer[j])
    BY <1>15 DEF Traffic
  <2>2. counter' = counter /\ c = counter
    BY <1>13, <1>15
  <2>3. ASSUME NEW j \in 1 .. Len(buffer), buffer'[k] = buffer[j] PROVE Quiet(buffer[k])'
    <3>1. buffer[j].ts \in Nat /\ Quiet(buffer[j])
      BY <1>7, <2>1
    <3>2. buffer[j].ts + TicksPerSecond >= now + 1 => buffer[j].count = counter
      BY <1>3, <3>1 DEF Quiet
    <3>. QED BY <1>2, <2>2, <2>3, <3>2 DEF Quiet
  <2>4. ASSUME buffer'[k] = Fresh(c) PROVE Quiet(buffer[k])'
    BY <1>6, <2>2, <2>4 DEF Quiet
  <2>. QED BY <1>5, <2>3, <2>4
<1>16. ASSUME sampling = "on", pc = "tail", NEW k \in 1 .. Len(buffer')
       PROVE  Drained(buffer[k])'
  <2>1. \A j \in 1 .. Len(buffer) : Drained(buffer[j])
    BY <1>16 DEF Traffic
  <2>2. counter' = counter /\ c = counter /\ since' = since
    BY <1>2, <1>13, <1>16
  <2>3. ASSUME NEW j \in 1 .. Len(buffer), buffer'[k] = buffer[j] PROVE Drained(buffer[k])'
    BY <2>1, <2>2, <2>3 DEF Drained
  <2>4. ASSUME buffer'[k] = Fresh(c) PROVE Drained(buffer[k])'
    BY <1>6, <2>2, <2>4 DEF Drained
  <2>. QED BY <1>5, <2>3, <2>4
<1>17. ASSUME sampling = "on", pc \in {"k6", "tail"}, NEW k \in 1 .. Len(buffer')
       PROVE  Own(buffer[k])'
  <2>1. \A j \in 1 .. Len(buffer) : Own(buffer[j])
    BY <1>17 DEF Traffic
  <2>2. counter' = counter + work /\ caused' = caused + work /\ start' = start /\ upAt' = upAt
    BY <1>1, <1>2
  <2>3. ASSUME NEW j \in 1 .. Len(buffer), buffer'[k] = buffer[j] PROVE Own(buffer[k])'
    <3>. DEFINE x == buffer[j].count
                y == buffer[j].ts
    <3>1. x \in Nat /\ y \in Nat
      BY <1>7
    <3>2. y >= start => /\ counter <= x + caused
                        /\ (x + caused) - counter <= y - start
                        /\ (x + caused) - counter <= y - upAt
      BY <2>1 DEF Own
    <3>3. buffer'[k].count = x /\ buffer'[k].ts = y
      BY <2>3
    <3>. HIDE DEF x, y
    <3>4. y >= start => /\ counter + work <= x + (caused + work)
                        /\ (x + (caused + work)) - (counter + work) <= y - start
                        /\ (x + (caused + work)) - (counter + work) <= y - upAt
      BY <1>3, <3>1, <3>2
    <3>. QED BY <2>2, <3>3, <3>4 DEF Own
  <2>4. ASSUME buffer'[k] = Fresh(c) PROVE Own(buffer[k])'
    <3>1. caused' \in Nat /\ caused' <= (now + 1) - start /\ caused' <= (now + 1) - upAt
      <4>1. CASE pc = "k6"
        <5>1. caused' <= (now + 1) - since /\ start <= since /\ upAt <= since
          BY <1>2, <1>12, <1>17, <4>1 DEF FlowInv
        <5>. QED BY <1>1, <1>3, <5>1
      <4>2. CASE pc = "tail"
        <5>1. caused' = caused /\ caused <= since - start /\ caused <= since - upAt
          BY <1>13, <1>17, <4>2 DEF Traffic
        <5>. QED BY <1>3, <5>1
      <4>. QED BY <1>17, <4>1, <4>2
    <3>2. buffer'[k].count = counter' /\ buffer'[k].ts = now + 1
      BY <1>1, <1>6, <2>4 DEF c
    <3>3. counter' \in Nat
      BY <1>1, <1>3
    <3>4. /\ counter' <= counter' + caused'
          /\ (counter' + caused') - counter' <= (now + 1) - start
          /\ (counter' + caused') - counter' <= (now + 1) - upAt
      <4>. DEFINE g == caused'
                  h == counter'
                  x == (now + 1) - start
                  y == (now + 1) - upAt
      <4>1. g \in Nat /\ h \in Nat /\ x \in Int /\ y \in Int /\ g <= x /\ g <= y
        BY <1>3, <3>1, <3>3
      <4>. HIDE DEF g, h, x, y
      <4>2. h <= h + g /\ (h + g) - h = g
        BY <4>1
      <4>3. h <= h + g /\ (h + g) - h <= x /\ (h + g) - h <= y
        BY <4>1, <4>2
      <4>. QED BY <4>3 DEF g, h, x, y
    <3>. QED BY <2>2, <3>2, <3>4 DEF Own
  <2>. QED BY <1>5, <2>3, <2>4
<1>18. sampling = "on" /\ pc = "tail" => caused' <= since - upAt
  BY <1>13 DEF Traffic
<1>. QED BY <1>2, <1>9, <1>10, <1>11, <1>12, <1>14, <1>15, <1>16, <1>17, <1>18 DEF Traffic

LEMMA TrafficSteps ==
  ASSUME FlowInv, ProbeInv, BufferInv, Traffic, [Next]_vars
  PROVE  Traffic'
<1>0. /\ now \in Nat /\ counter \in Nat /\ caused \in Nat /\ since \in Nat /\ start \in Nat /\ upAt \in Nat
      /\ restarts \in Nat /\ TicksPerSecond \in Nat \ {0} /\ since <= now
      /\ \A k \in 1 .. Len(buffer) : buffer[k].ts \in Nat /\ buffer[k].count \in Nat
  BY Params, Entries DEF FlowInv, BufferInv
<1>1. CASE restarts' # 0
  BY <1>1 DEF Traffic
<1>2. SUFFICES ASSUME restarts' = 0, restarts = 0 PROVE Traffic'
  <2>1. ASSUME restarts # 0 PROVE restarts' # 0
    <3>1. restarts' \in {restarts, restarts + 1}
      BY DEF Next, Tick, Restart, Skip, Probe, Retry, StartCell, K6Ends, CollectNothing,
             CollectResources, NextCell, vars
    <3>. QED BY <1>0, <2>1, <3>1
  <2>. QED BY <1>1, <2>1
<1>3. /\ \A k \in 1 .. Len(buffer) : buffer[k].count <= counter
      /\ \A a, b \in 1 .. Len(buffer) : a < b => buffer[a].count <= buffer[b].count
      /\ pc \in {"probe", "retry"} => counter = 0
      /\ pc = "k6" => caused <= now - since
      /\ pc = "tail" => caused <= since - start
      /\ sampling = "on" =>
           /\ pc \in {"start", "cooldown"} => \A k \in 1 .. Len(buffer) : Quiet(buffer[k])
           /\ pc \in {"k6", "tail"} => \A k \in 1 .. Len(buffer) : Own(buffer[k])
           /\ pc = "tail" => /\ \A k \in 1 .. Len(buffer) : Drained(buffer[k])
                             /\ caused <= since - upAt
  BY <1>2 DEF Traffic
<1>4. CASE Tick
  BY <1>2, <1>4, TrafficTick
<1>5. CASE Restart
  BY <1>0, <1>2, <1>5 DEF Restart
<1>6. CASE Skip
  <2>1. UNCHANGED <<counter, buffer>> /\ pc' = "start" /\ sampling' = "skipped"
    BY <1>6 DEF Skip
  <2>. QED BY <1>3, <2>1 DEF Traffic
<1>7. CASE Probe
  <2>1. /\ UNCHANGED <<counter, buffer, now>> /\ pc = "probe" /\ pc' \in {"start", "retry"}
    BY <1>7 DEF Probe
  <2>2. counter = 0 /\ \A k \in 1 .. Len(buffer) : buffer[k].count = counter
    BY <1>0, <1>3, <2>1
  <2>3. \A k \in 1 .. Len(buffer) : Quiet(buffer[k])'
    BY <2>1, <2>2 DEF Quiet
  <2>. QED BY <1>3, <2>1, <2>2, <2>3 DEF Traffic
<1>8. CASE Retry
  <2>1. UNCHANGED <<counter, buffer>> /\ pc = "retry" /\ pc' \in {"start", "probe"} /\ sampling' # "on"
    BY <1>8 DEF Retry, ProbeInv
  <2>. QED BY <1>3, <2>1 DEF Traffic
<1>9. CASE StartCell
  <2>1. /\ pc = "start" /\ pc' = "k6" /\ start' = Date /\ since' = now /\ caused' = 0
        /\ UNCHANGED <<now, upAt, sampling, counter, buffer, restarts>>
    BY <1>9 DEF StartCell, probing
  <2>2. Date \in Nat /\ Date <= now /\ now < Date + TicksPerSecond
    BY <1>0, DateProperties
  <2>3. ASSUME sampling = "on", NEW k \in 1 .. Len(buffer) PROVE Own(buffer[k])'
    <3>1. SUFFICES ASSUME buffer[k].ts >= Date
                   PROVE  /\ counter <= buffer[k].count + 0
                          /\ (buffer[k].count + 0) - counter <= buffer[k].ts - Date
                          /\ (buffer[k].count + 0) - counter <= buffer[k].ts - upAt
      BY <2>1 DEF Own
    <3>2. Quiet(buffer[k]) /\ buffer[k].ts \in Nat /\ buffer[k].ts >= upAt
      BY <1>3, <2>1, <2>3 DEF BufferInv, Sampled
    <3>3. buffer[k].count = counter
      BY <1>0, <2>2, <3>1, <3>2 DEF Quiet
    <3>. QED BY <1>0, <2>2, <3>1, <3>2, <3>3
  <2>4. now - now = 0
    BY <1>0
  <2>. QED BY <1>3, <2>1, <2>3, <2>4 DEF Traffic
<1>10. ASSUME NEW rc \in {0, 1}, K6Ends(rc) PROVE Traffic'
  <2>1. /\ pc = "k6" /\ pc' = "tail" /\ since' = now
        /\ UNCHANGED <<now, upAt, sampling, start, counter, buffer, restarts, caused>>
    BY <1>10 DEF K6Ends, probing
  <2>2. caused <= now - since /\ start <= since /\ (sampling = "on" => upAt <= since)
    BY <1>3, <2>1 DEF FlowInv
  <2>3. caused <= now - start
    BY <1>0, <2>2
  <2>4. sampling = "on" => caused <= now - upAt
    BY <1>0, <2>2
  <2>5. \A k \in 1 .. Len(buffer) : Drained(buffer[k])'
    <3>. TAKE k \in 1 .. Len(buffer)
    <3>1. counter - buffer[k].count <= now - buffer[k].ts
      BY DEF BufferInv
    <3>. QED BY <2>1, <3>1 DEF Drained
  <2>6. sampling = "on" => \A k \in 1 .. Len(buffer) : Own(buffer[k])'
    BY <1>3, <2>1 DEF Own
  <2>. QED BY <1>3, <2>1, <2>3, <2>4, <2>5, <2>6 DEF Traffic
<1>11. CASE CollectNothing
  <2>1. /\ pc' \in {"done", "cooldown"} /\ sampling' # "on" /\ UNCHANGED <<counter, buffer>>
    BY <1>11 DEF CollectNothing, probing
  <2>. QED BY <1>3, <2>1 DEF Traffic
<1>12. ASSUME NEW ok \in BOOLEAN, CollectResources(ok) PROVE Traffic'
  <2>1. /\ pc = "tail" /\ sampling = "on" /\ Waited >= TailTicks /\ pc' \in {"done", "cooldown"}
        /\ UNCHANGED <<now, counter, buffer>>
    BY <1>12 DEF CollectResources
  <2>2. now - since >= 2 * TicksPerSecond
    BY <2>1 DEF Waited, TailTicks
  <2>3. ASSUME NEW k \in 1 .. Len(buffer) PROVE Quiet(buffer[k])'
    <3>1. SUFFICES ASSUME buffer[k].ts + TicksPerSecond >= now PROVE buffer[k].count = counter
      BY <2>1 DEF Quiet
    <3>2. Drained(buffer[k]) /\ buffer[k].count <= counter
      BY <1>3, <2>1
    <3>3. buffer[k].ts \in Nat /\ buffer[k].count \in Nat /\ buffer[k].ts >= since
      BY <1>0, <2>2, <3>1
    <3>. QED BY <1>0, <3>2, <3>3 DEF Drained
  <2>. QED BY <1>3, <2>1, <2>3 DEF Traffic
<1>13. CASE NextCell
  <2>1. pc = "cooldown" /\ pc' = "start" /\ UNCHANGED <<now, counter, buffer, sampling>>
    BY <1>13 DEF NextCell, probing
  <2>2. sampling = "on" => \A k \in 1 .. Len(buffer) : Quiet(buffer[k])'
    BY <1>3, <2>1 DEF Quiet
  <2>. QED BY <1>3, <2>1, <2>2 DEF Traffic
<1>14. CASE UNCHANGED vars
  BY <1>14 DEF vars, probing, Traffic, Quiet, Own, Drained
<1>. QED
  BY <1>4, <1>5, <1>6, <1>7, <1>8, <1>9, <1>10, <1>11, <1>12, <1>13, <1>14 DEF Next

\* Every sample of the report carries a counter from the cell's own range.
LEMMA DeltaBelow ==
  ASSUME FlowInv, BufferInv, Traffic, restarts = 0, pc = "tail", sampling = "on", NEW ok \in BOOLEAN
  PROVE  Aggregate(Chosen(ok)).delta <= caused
<1>. DEFINE c == Chosen(ok)
            s == Samples(ok)
<1>0. counter \in Nat /\ caused \in Nat
  BY DEF FlowInv
<1>1. /\ s \in Seq(Sample) /\ Ascending(s)
      /\ \A j \in 1 .. Len(s) : \E b \in 1 .. Len(buffer) :
           s[j].ts = buffer[b].ts /\ s[j].count = buffer[b].count
  BY SamplesAre
<1>2. start \in Nat /\ end \in Nat /\ start + Warmup \in Nat
  BY Params DEF FlowInv
<1>. HIDE DEF s
<1>3. ChosenFrom(c, s, start, end, start + Warmup)
  BY <1>1, <1>2, KeptIs DEF Chosen, s
<1>. HIDE DEF c
<1>4. /\ c \in Seq(Sample)
      /\ \A k \in 1 .. Len(c) : \E j \in 1 .. Len(s) : start <= s[j].ts /\ c[k] = s[j]
  BY <1>3 DEF ChosenFrom
<1>5. \A k \in 1 .. Len(c) : c[k].count \in Nat
  BY <1>4, SampleTypes
<1>6. \A k \in 1 .. Len(c) : c[k].count <= counter /\ counter <= c[k].count + caused
  <2>. TAKE k \in 1 .. Len(c)
  <2>1. PICK j \in 1 .. Len(s) : start <= s[j].ts /\ c[k] = s[j]
    BY <1>4
  <2>2. PICK b \in 1 .. Len(buffer) : s[j].ts = buffer[b].ts /\ s[j].count = buffer[b].count
    BY <1>1
  <2>3. buffer[b].count <= counter /\ Own(buffer[b])
    BY DEF Traffic
  <2>4. buffer[b].ts >= start
    BY <1>2, <2>1, <2>2, Entries DEF BufferInv
  <2>. QED BY <2>1, <2>2, <2>3, <2>4 DEF Own
<1>7. ASSUME NEW i \in 1 .. Len(c), NEW j \in 1 .. Len(c) PROVE c[j].count - c[i].count <= caused
  <2>1. /\ c[i].count \in Nat /\ c[j].count \in Nat
        /\ c[j].count <= counter /\ counter <= c[i].count + caused
    BY <1>5, <1>6
  <2>. QED BY <1>0, <2>1
<1>8. /\ c = <<>> => Aggregate(c).delta = 0
      /\ c # <<>> => \E i, j \in 1 .. Len(c) : Aggregate(c).delta = c[j].count - c[i].count
  BY <1>4, AggregateIs
<1>9. CASE c = <<>>
  BY <1>0, <1>8, <1>9 DEF c
<1>10. CASE c # <<>>
  BY <1>7, <1>8, <1>10 DEF c
<1>. QED BY <1>9, <1>10

\* The first sample behind the warm-up and the last before the end: what they miss of the
\* cell's traffic fell into the warm-up and somewhat less than three seconds.
LEMMA DeltaAbove ==
  ASSUME FlowInv, BufferInv, Coverage, Traffic, restarts = 0, pc = "tail", sampling = "on", BufferCovers
  PROVE  caused + 2 <= (Aggregate(Chosen(TRUE)).delta + Warmup) + 3 * TicksPerSecond
<1>. DEFINE d == TicksPerSecond
            s == Samples(TRUE)
            c == Chosen(TRUE)
            delta == Aggregate(c).delta
            w == start + Warmup
            x == IF w > upAt THEN w ELSE upAt + 1
<1>0. /\ counter \in Nat /\ caused \in Nat /\ now \in Nat /\ since \in Nat /\ start \in Nat /\ end \in Nat
      /\ upAt \in Nat /\ Warmup \in Nat /\ d \in Nat \ {0} /\ w \in Nat
      /\ end <= now /\ since < end + d
  BY Params DEF FlowInv
<1>1. caused <= since - start /\ caused <= since - upAt
  BY DEF Traffic
<1>2. s \in Seq(Sample) /\ Ascending(s)
  BY SamplesAre
<1>. HIDE DEF s
<1>3. ChosenFrom(c, s, start, end, w)
  BY <1>0, <1>2, KeptIs DEF Chosen, s
<1>. HIDE DEF c
<1>4. /\ c \in Seq(Sample)
      /\ \A j \in 1 .. Len(s) : start <= s[j].ts /\ s[j].ts <= end /\ w <= s[j].ts =>
           \E k \in 1 .. Len(c) : c[k] = s[j]
  BY <1>3 DEF ChosenFrom
<1>5. delta \in Nat /\ \A i, j \in 1 .. Len(c) : c[j].count - c[i].count <= delta
  BY <1>4, AggregateIs
<1>. HIDE DEF d, delta
<1>6. x \in Nat /\ x > upAt /\ x >= w /\ x >= upAt /\ (x = start + Warmup \/ x = upAt + 1)
  BY <1>0
<1>. HIDE DEF x
<1>7. PICK t \in Nat : Sampled(t) /\ x <= t /\ t < x + d
  BY <1>0, <1>6, SampledNear DEF d
<1>8. CASE t > end
  <2>1. caused + 2 <= Warmup + 2 * d
    <3>1. end + 1 < x + d
      BY <1>0, <1>6, <1>7, <1>8
    <3>2. CASE x = start + Warmup
      BY <1>0, <1>1, <3>1, <3>2
    <3>3. CASE x = upAt + 1
      BY <1>0, <1>1, <3>1, <3>3
    <3>. QED BY <1>6, <3>2, <3>3
  <2>2. caused + 2 <= (delta + Warmup) + 3 * d
    BY <1>0, <1>5, <2>1
  <2>. QED BY <2>2 DEF d, delta, c
<1>9. CASE t <= end
  <2>1. end >= upAt
    BY <1>0, <1>6, <1>7, <1>9
  <2>2. PICK u \in Nat : Sampled(u) /\ u <= end /\ end < u + d
    BY <1>0, <2>1, SampledNear DEF d
  <2>3. t <= u
    <3>1. CASE u < t
      <4>1. t >= u + d
        BY <1>0, <1>7, <2>2, <3>1, SampledGap DEF d
      <4>. QED BY <1>0, <1>9, <2>2, <4>1
    <3>. QED BY <3>1
  <2>4. /\ upAt < t /\ start <= t /\ w <= t /\ t <= now
        /\ upAt < u /\ start <= u /\ w <= u /\ u <= now
    BY <1>0, <1>6, <1>7, <1>9, <2>2, <2>3
  <2>5. \A v \in Nat : Sampled(v) /\ upAt < v /\ start <= v /\ v <= now =>
          \E k \in 1 .. Len(s), b \in 1 .. Len(buffer) :
            buffer[b].ts = v /\ s[k].ts = v /\ s[k].count = buffer[b].count
    BY SampleThere DEF s
  <2>6. PICK i \in 1 .. Len(s), a \in 1 .. Len(buffer) :
          buffer[a].ts = t /\ s[i].ts = t /\ s[i].count = buffer[a].count
    BY <1>7, <2>4, <2>5
  <2>7. PICK j \in 1 .. Len(s), b \in 1 .. Len(buffer) :
          buffer[b].ts = u /\ s[j].ts = u /\ s[j].count = buffer[b].count
    BY <2>2, <2>4, <2>5
  <2>8. PICK k \in 1 .. Len(c) : c[k] = s[i]
    BY <1>4, <1>9, <2>4, <2>6
  <2>9. PICK l \in 1 .. Len(c) : c[l] = s[j]
    BY <1>4, <2>2, <2>4, <2>7
  <2>10. c[l].count - c[k].count <= delta
    BY <1>5
  <2>. DEFINE first == buffer[a].count
              last == buffer[b].count
  <2>11. /\ first \in Nat /\ last \in Nat /\ last - first <= delta
    BY <2>6, <2>7, <2>8, <2>9, <2>10, Entries DEF BufferInv
  <2>12. (first + caused) - counter <= t - start /\ (first + caused) - counter <= t - upAt
    <3>1. Own(buffer[a])
      BY DEF Traffic
    <3>. QED BY <1>0, <2>4, <2>6, <3>1 DEF Own
  <2>13. last = counter \/ counter - last <= since - u
    <3>1. Drained(buffer[b])
      BY DEF Traffic
    <3>. QED BY <2>7, <3>1 DEF Drained
  <2>. HIDE DEF first, last
  <2>14. (first + caused) - counter <= Warmup + d
    <3>1. CASE x = start + Warmup
      BY <1>0, <1>7, <2>11, <2>12, <3>1
    <3>2. CASE x = upAt + 1
      BY <1>0, <1>7, <2>11, <2>12, <3>2
    <3>. QED BY <1>6, <3>1, <3>2
  <2>15. (counter - last) + 2 <= 2 * d
    BY <1>0, <2>2, <2>11, <2>13
  <2>16. caused + 2 <= (delta + Warmup) + 3 * d
    BY <1>0, <1>5, <2>11, <2>14, <2>15
  <2>. QED BY <2>16 DEF d, delta, c
<1>10. t > end \/ t <= end
  BY <1>0
<1>. QED BY <1>8, <1>9, <1>10, Zenon

LEMMA DeltaStep ==
  ASSUME FlowInv, BufferInv, Coverage, Traffic, DeltaIsTheCells, [Next]_vars
  PROVE  DeltaIsTheCells'
<1>0. now \in Nat /\ restarts \in Nat
  BY DEF FlowInv
<1>1. ASSUME UNCHANGED <<report, restarts, upAt, start, end, caused>>, now' \in {now, now + 1}
      PROVE  DeltaIsTheCells'
  <2>1. BufferCovers' => BufferCovers
    BY <1>1, WindowClosed
  <2>. QED BY <1>1, <2>1 DEF DeltaIsTheCells
<1>2. CASE report' = Nothing
  BY <1>2 DEF DeltaIsTheCells
<1>3. CASE Tick
  <2>1. CASE pc = "k6"
    BY <1>2, <1>3, <2>1 DEF Tick, FlowInv
  <2>2. CASE pc # "k6"
    <3>1. PICK work \in {0} : caused' = caused + work
      BY <1>3, <2>2 DEF Tick
    <3>2. caused' = caused
      BY <3>1 DEF FlowInv
    <3>. QED BY <1>0, <1>1, <1>3, <3>2 DEF Tick
  <2>. QED BY <2>1, <2>2
<1>4. CASE Restart
  <2>1. restarts' # 0
    BY <1>0, <1>4 DEF Restart
  <2>. QED BY <2>1 DEF DeltaIsTheCells
<1>5. CASE Skip \/ Probe \/ Retry
  BY <1>2, <1>5 DEF Skip, Probe, Retry, FlowInv
<1>6. CASE StartCell
  BY <1>2, <1>6 DEF StartCell
<1>7. ASSUME NEW rc \in {0, 1}, K6Ends(rc) PROVE DeltaIsTheCells'
  BY <1>2, <1>7 DEF K6Ends, FlowInv
<1>8. CASE CollectNothing \/ NextCell
  BY <1>1, <1>8 DEF CollectNothing, NextCell
<1>9. ASSUME NEW ok \in BOOLEAN, CollectResources(ok) PROVE DeltaIsTheCells'
  <2>. DEFINE a == Aggregate(Chosen(ok))
  <2>1. /\ report' = [ok |-> ok, aggregate |-> a] /\ UNCHANGED <<now, start, restarts, caused>>
        /\ pc = "tail" /\ sampling = "on"
    BY <1>9, ReportIs DEF CollectResources
  <2>2. restarts = 0 => a.delta <= caused
    BY <2>1, DeltaBelow
  <2>3. restarts = 0 /\ ok /\ BufferCovers => caused + 2 <= (a.delta + Warmup) + 3 * TicksPerSecond
    BY <2>1, DeltaAbove
  <2>. HIDE DEF a
  <2>4. report'.ok = ok /\ report'.aggregate = a /\ (BufferCovers' => BufferCovers)
    BY <2>1 DEF BufferCovers
  <2>. QED BY <2>1, <2>2, <2>3, <2>4 DEF DeltaIsTheCells
<1>10. CASE UNCHANGED vars
  BY <1>1, <1>10 DEF vars
<1>. QED BY <1>3, <1>4, <1>5, <1>6, <1>7, <1>8, <1>9, <1>10 DEF Next

\* As long as the container is not restarted, a cell is not charged for the traffic of another,
\* and of its own it misses less than the warm-up and three seconds: for any number of cells,
\* and whatever the wait between them.
THEOREM DeltaSound == Spec => []DeltaIsTheCells
<1>1. Init => DeltaIsTheCells
  BY DEF Init, DeltaIsTheCells
<1>. QED
    BY Starts, Steps, FlowStarts, FlowSteps, BufferStarts, BufferSteps, CoverageStarts, CoverageSteps,
       TrafficStarts, TrafficSteps, <1>1, DeltaStep, PTL DEF Spec
=============================================================================
