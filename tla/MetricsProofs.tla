---------------------------- MODULE MetricsProofs ----------------------------
(***************************************************************************)
(* Metrics for every number of calls, cores, sessions and batches: the     *)
(* stamps two threads take of one call, what a scrape shows, and how the   *)
(* series of the registry agree with one another.                          *)
(***************************************************************************)
EXTENDS Metrics, DataLemmas

USE DEF metricVars, callVars, sessionVars, vars

(***************************************************************************)
(* The inductive invariant.                                                *)
(***************************************************************************)
Busy == {s \in Sessions : pc[s] \in {"run", "finish1", "finish2", "return"}}

\* Each session holds a batch of its own, one of those that were claimed.
SessionsApart ==
    /\ \A s \in Sessions : /\ batch[s] < claimed
                           /\ pc[s] # "await" => batch[s] # -1
    /\ \A s, t \in Sessions : batch[s] = batch[t] /\ batch[s] # -1 => s = t
    /\ inUse = Cardinality(Busy)

\* The session that holds a batch knows how far its trace and its output are.
SessionTraces ==
    \A s \in Sessions : batch[s] # -1 =>
        LET b == batch[s] IN
        /\ pc[s] \in {"await", "sealed"} <=> trace[b].start = 0
        /\ pc[s] = "return" <=> output[b] # "none"
        /\ pc[s] \in {"finish1", "finish2"} => trace[b].result # "none"
        /\ pc[s] = "finish2" => trace[b].start < trace[b].end

\* A batch that was answered has both of its stamps.
BatchTraces ==
    \A b \in BatchIds :
        /\ b >= claimed => trace[b].start = 0 /\ output[b] = "none"
        /\ output[b] # "none" => trace[b].start # 0 /\ trace[b].start < trace[b].end
        /\ trace[b].start < clock /\ trace[b].end < clock

Accepted(c) == call[c] \notin {"new", "resource_exhausted"}

\* A call has slots of its own below head, and copied those before at[c].
CallsApart ==
    /\ \A c \in Calls :
        /\ call[c] = "new" => stamps[c].queuedAt = -1
        /\ Accepted(c) => /\ stamps[c].first <= at[c] /\ rows[c] > 0
                          /\ at[c] <= LastSlot(c) + 1 /\ LastSlot(c) < head
                          /\ call[c] = "copying" <=> at[c] <= LastSlot(c)
    /\ \A c, d \in Calls : c # d /\ Accepted(c) /\ Accepted(d) =>
          LastSlot(c) < stamps[d].first \/ LastSlot(d) < stamps[c].first

SlotsOf(b) == b * BatchSize .. b * BatchSize + BatchSize - 1

TakenIn(b) ==
    {i \in SlotsOf(b) : \E c \in Calls :
        Accepted(c) /\ stamps[c].first <= i /\ i <= LastSlot(c)}

CopiedIn(b) ==
    {i \in SlotsOf(b) : \E c \in Calls :
        Accepted(c) /\ stamps[c].first <= i /\ i < at[c]}

\* No slot below head is empty in a batch that is not sealed.
Open(b) == b >= claimed \/ \E s \in Sessions : batch[s] = b /\ pc[s] = "await"

\* written_slots is the number of slots that were copied; a sealed batch gets
\* no more rows, and a batch that ran had all of them copied.
BatchesFill ==
    /\ \A b \in BatchIds :
        /\ written[b] = Cardinality(CopiedIn(b))
        /\ Open(b) => \A i \in SlotsOf(b) : i < head => i \in TakenIn(b)
        /\ trace[b].start # 0 => TakenIn(b) = CopiedIn(b)
        /\ ~Open(b) => head >= (b + 1) * BatchSize
    /\ \A s \in Sessions :
        pc[s] = "sealed" => expected[s] = Cardinality(TakenIn(batch[s]))

\* The stamps of a call, and those of the last batch it has rows in.
CallStamps ==
    \A c \in Calls :
        /\ stamps[c].serialized < clock /\ stamps[c].queued < clock
        /\ Accepted(c) =>
            /\ at[c] > stamps[c].first => stamps[c].queuedAt # -1
            /\ stamps[c].queuedAt # -1 => stamps[c].serialized < stamps[c].queued
            /\ LET b == BatchOf(LastSlot(c))
               IN  trace[b].start # 0 => stamps[c].queued < trace[b].start
        /\ call[c] = "ok" => \A b \in BatchesOf(c) :
              output[b] = "ok" /\ trace[b].end < stamps[c].processed

MetricsInvariant ==
    /\ TypeOK /\ SessionsApart /\ SessionTraces /\ BatchTraces /\ CallsApart
    /\ BatchesFill /\ CallStamps

-------------------------------------------------------------------------------
(***************************************************************************)
(* Slots and batches.                                                      *)
(***************************************************************************)
LEMMA Bounds ==
    /\ BatchSize \in Nat /\ BatchSize > 0 /\ MaxBatches \in Nat
    /\ Capacity \in Nat /\ IsFiniteSet(Sessions)
    /\ Cardinality(Sessions) \in Nat /\ WarmupRuns \in Nat
    /\ WarmupRuns * Cardinality(Sessions) \in Nat
<1>1. BatchSize \in Nat /\ BatchSize > 0 /\ MaxBatches \in Nat /\ WarmupRuns \in Nat
  BY MetricsBounds
<1>2. IsFiniteSet(Sessions) /\ Cardinality(Sessions) \in Nat
  BY MetricsBounds, FS_CardinalityType
<1> QED  BY <1>1, <1>2, SMT DEF Capacity

LEMMA ProductGrows ==
    ASSUME NEW a \in Nat, NEW b \in Nat, NEW n \in Nat, a <= b
    PROVE  a * n <= b * n
BY SMT

LEMMA BatchLimits ==
    ASSUME NEW b \in Nat
    PROVE  /\ b * BatchSize \in Nat
           /\ (b + 1) * BatchSize = b * BatchSize + BatchSize
           /\ \A i : i \in SlotsOf(b) <=> /\ i \in Nat /\ b * BatchSize <= i
                                          /\ i < (b + 1) * BatchSize
           /\ b \in BatchIds => (b + 1) * BatchSize <= Capacity
<1>1. b * BatchSize \in Nat /\ (b + 1) * BatchSize = b * BatchSize + BatchSize
  BY Bounds, SMT
<1>2. \A i : i \in SlotsOf(b) <=> /\ i \in Nat /\ b * BatchSize <= i
                                  /\ i < (b + 1) * BatchSize
  BY <1>1, Bounds, SMT DEF SlotsOf
<1>3. ASSUME b \in BatchIds PROVE (b + 1) * BatchSize <= Capacity
  <2>1. b + 1 \in Nat /\ b + 1 <= MaxBatches
    BY <1>3, Bounds, SMT DEF BatchIds
  <2> QED  BY <2>1, Bounds, ProductGrows DEF Capacity
<1> QED  BY <1>1, <1>2, <1>3

LEMMA LaterBatch ==
    ASSUME NEW a \in Nat, NEW b \in Nat, a < b
    PROVE  (a + 1) * BatchSize <= b * BatchSize
BY Bounds, ProductGrows, SMT

LEMMA SlotBatch ==
    ASSUME NEW i \in Nat
    PROVE  /\ BatchOf(i) \in Nat /\ i \in SlotsOf(BatchOf(i))
           /\ \A b \in Nat : i \in SlotsOf(b) => b = BatchOf(i)
           /\ i < Capacity => BatchOf(i) \in BatchIds
<1>1. PICK q : q = BatchOf(i)
  OBVIOUS
<1>2. q \in Nat /\ q * BatchSize <= i /\ i < q * BatchSize + BatchSize
  BY <1>1, Bounds, SMT DEF BatchOf
<1>3. i \in SlotsOf(q)
  BY <1>2, BatchLimits
<1>4. ASSUME NEW b \in Nat, i \in SlotsOf(b) PROVE b = q
  <2>1. /\ b * BatchSize <= i /\ i < (b + 1) * BatchSize /\ b * BatchSize \in Nat
        /\ i < (q + 1) * BatchSize /\ q * BatchSize \in Nat
        /\ (b + 1) * BatchSize \in Nat /\ (q + 1) * BatchSize \in Nat
    BY <1>2, <1>4, BatchLimits, Bounds, SMT
  <2>2. ~(b < q) /\ ~(q < b)
    BY <1>2, <2>1, LaterBatch, SMT
  <2> QED  BY <1>2, <2>2, SMT
<1>5. ASSUME i < Capacity PROVE q \in BatchIds
  <2>1. CASE q < MaxBatches
    BY <1>2, <2>1, Bounds, SMT DEF BatchIds
  <2>2. CASE MaxBatches <= q
    <3>1. MaxBatches * BatchSize <= q * BatchSize
      BY <1>2, <2>2, Bounds, ProductGrows
    <3>2. Capacity <= i
      BY <1>2, <3>1, Bounds, BatchLimits, SMT DEF Capacity
    <3> QED  BY <1>5, <3>2, Bounds, SMT
  <2> QED  BY <1>2, <2>1, <2>2, Bounds, SMT
<1> QED  BY <1>1, <1>2, <1>3, <1>4, <1>5

\* Slots are numbered from batch to batch.
LEMMA BatchOrder ==
    ASSUME NEW i \in Nat, NEW j \in Nat, i <= j
    PROVE  BatchOf(i) <= BatchOf(j)
<1>1. /\ BatchOf(i) \in Nat /\ i \in SlotsOf(BatchOf(i))
      /\ BatchOf(j) \in Nat /\ j \in SlotsOf(BatchOf(j))
  BY SlotBatch
<1>2. ASSUME BatchOf(j) < BatchOf(i) PROVE FALSE
  <2>1. (BatchOf(j) + 1) * BatchSize <= BatchOf(i) * BatchSize
    BY <1>1, <1>2, LaterBatch
  <2>2. /\ BatchOf(i) * BatchSize <= i /\ j < (BatchOf(j) + 1) * BatchSize
        /\ BatchOf(i) * BatchSize \in Nat
    BY <1>1, BatchLimits
  <2>3. (BatchOf(j) + 1) * BatchSize \in Nat
    BY <1>1, Bounds, SMT
  <2> QED  BY <2>1, <2>2, <2>3, SMT
<1> QED  BY <1>1, <1>2, SMT

LEMMA SlotsFinite ==
    ASSUME NEW b \in Nat, NEW S, S \subseteq SlotsOf(b)
    PROVE  /\ IsFiniteSet(S) /\ Cardinality(S) \in Nat
           /\ Cardinality(S) <= BatchSize
<1>1. IsFiniteSet(SlotsOf(b)) /\ Cardinality(SlotsOf(b)) = BatchSize
  <2>1. PICK lo \in Nat, hi \in Int : lo = b * BatchSize /\ hi = lo + BatchSize - 1
    BY BatchLimits, Bounds, SMT
  <2>2. IsFiniteSet(lo .. hi) /\ Cardinality(lo .. hi) = hi - lo + 1
    <3>1. lo \in Int /\ ~(lo > hi)
      BY <2>1, Bounds, SMT
    <3> QED  BY <2>1, <3>1, FS_Interval
  <2>3. hi - lo + 1 = BatchSize
    BY <2>1, Bounds, SMT
  <2> QED  BY <2>1, <2>2, <2>3 DEF SlotsOf
<1>2. IsFiniteSet(S) /\ Cardinality(S) <= Cardinality(SlotsOf(b))
  BY <1>1, FS_Subset
<1> QED  BY <1>1, <1>2, FS_CardinalityType

-------------------------------------------------------------------------------
(***************************************************************************)
(* The start, and the steps that only count.                               *)
(***************************************************************************)
LEMMA CallNumbers ==
    ASSUME TypeOK, NEW c \in Calls
    PROVE  /\ at[c] \in Nat /\ rows[c] \in Nat /\ head \in Nat /\ clock \in Nat
           /\ head <= Capacity
           /\ stamps[c].first \in Nat /\ stamps[c].serialized \in Nat
           /\ stamps[c].queued \in Nat /\ stamps[c].queuedAt \in Int
           /\ LastSlot(c) \in Int /\ LastSlot(c) + 1 = stamps[c].first + rows[c]
<1>1. /\ at[c] \in 0 .. Capacity /\ rows[c] \in CallRows \cup {0}
      /\ head \in 0 .. Capacity /\ clock \in Nat
      /\ stamps[c] \in [first : 0 .. Capacity, serialized : Nat, queued : Nat,
                        queuedAt : -1 .. Capacity, processed : Nat]
  BY DEF TypeOK
<1>2. rows[c] \in Nat
  BY <1>1, MetricsBounds
<1> QED  BY <1>1, <1>2, Bounds, SMT DEF LastSlot

LEMMA ObservedTyped ==
    ASSUME TypeOK, NEW t \in Threads, NEW names, NEW sum, NEW n \in Nat
    PROVE  Observed(t, names, sum, n) \in [Threads -> Counts]
<1>1. \A s \in Series : local[t][s] \in Nat
  BY DEF TypeOK, Counts
<1>2. [s \in Series |-> IF s \in names THEN local[t][s] + 1
                        ELSE IF s = sum THEN local[t][s] + n ELSE local[t][s]]
          \in Counts
  BY <1>1, SMT DEF Counts
<1>3. local \in [Threads -> Counts]
  BY DEF TypeOK
<1> QED  BY <1>2, <1>3 DEF Observed

LEMMA InitInvariant == Init => MetricsInvariant
<1> SUFFICES ASSUME Init PROVE MetricsInvariant
  OBVIOUS
<1>1. TypeOK
  <2>1. NoMetrics \in Counts
    BY DEF NoMetrics, Counts
  <2>2. stamps \in [Calls -> [first : 0 .. Capacity, serialized : Nat,
                              queued : Nat, queuedAt : -1 .. Capacity,
                              processed : Nat]]
    <3>1. 0 \in 0 .. Capacity /\ -1 \in -1 .. Capacity
      BY Bounds, SMT
    <3> QED  BY <3>1 DEF Init
  <2>3. 0 \in 0 .. BatchSize /\ 0 \in 0 .. MaxBatches /\ 0 \in 0 .. Capacity
    BY Bounds, SMT
  <2>4. /\ 0 \in 0 .. Cardinality(Sessions)
        /\ 0 \in 0 .. WarmupRuns * Cardinality(Sessions)
    BY Bounds, SMT
  <2>5. local \in [Threads -> Counts] /\ registry \in Counts /\ gauge \in Nat
    BY <2>1 DEF Init
  <2>6. /\ rows \in [Calls -> CallRows \cup {0}] /\ at \in [Calls -> 0 .. Capacity]
        /\ call \in [Calls -> {"new", "copying", "waiting"} \cup Requests]
    BY <2>3 DEF Init
  <2>7. /\ written \in [BatchIds -> 0 .. BatchSize]
        /\ expected \in [Sessions -> 0 .. BatchSize]
        /\ trace \in [BatchIds -> [start : Nat, end : Nat, items : 0 .. BatchSize,
                                   result : {"none", "ok", "err"}]]
        /\ output \in [BatchIds -> {"none", "ok", "err"}]
    BY <2>3 DEF Init
  <2>8. /\ batch \in [Sessions -> BatchIds \cup {-1}]
        /\ pc \in [Sessions -> {"await", "sealed", "run", "finish1", "finish2",
                                "return"}]
    BY DEF Init
  <2>9. core \in Placements /\ clock \in Nat /\ panicked \in BOOLEAN
    BY DEF Init
  <2> QED  BY <2>2, <2>3, <2>4, <2>5, <2>6, <2>7, <2>8, <2>9 DEF Init, TypeOK
<1>2. SessionsApart
  <2>1. Busy = {}
    BY DEF Init, Busy
  <2> QED  BY <2>1, FS_EmptySet DEF Init, SessionsApart
<1>3. SessionTraces
  BY DEF Init, SessionTraces
<1>4. BatchTraces
  BY DEF Init, BatchTraces
<1>5. CallsApart
  BY DEF Init, CallsApart, Accepted
<1>6. BatchesFill
  <2>1. \A b \in BatchIds : CopiedIn(b) = {} /\ TakenIn(b) = {}
    BY DEF Init, CopiedIn, TakenIn, Accepted
  <2>2. \A b \in BatchIds : Open(b) /\ b \in Nat
    BY Bounds, SMT DEF Init, Open, BatchIds
  <2>3. \A b \in BatchIds : \A i \in SlotsOf(b) : ~(i < head)
    BY <2>2, BatchLimits, SMT DEF Init
  <2> QED  BY <2>1, <2>2, <2>3, FS_EmptySet DEF Init, BatchesFill
<1>7. CallStamps
  BY DEF Init, CallStamps, Accepted
<1> QED  BY <1>1, <1>2, <1>3, <1>4, <1>5, <1>6, <1>7 DEF MetricsInvariant

\* Nothing but series and counts of warmups changed.
LEMMA QuietStep ==
    ASSUME MetricsInvariant, TypeOK',
           UNCHANGED <<callVars, head, written, sessionVars, clock>>
    PROVE  MetricsInvariant'
<1>1. SessionsApart' /\ SessionTraces' /\ BatchTraces'
  BY DEF MetricsInvariant, SessionsApart, SessionTraces, BatchTraces, Busy
<1>2. CallsApart'
  BY DEF MetricsInvariant, CallsApart, Accepted, LastSlot
<1>3. \A b \in BatchIds : /\ TakenIn(b)' = TakenIn(b) /\ CopiedIn(b)' = CopiedIn(b)
                          /\ Open(b)' = Open(b)
  BY DEF TakenIn, CopiedIn, Accepted, LastSlot, Open
<1>4. \A s \in Sessions : TakenIn(batch[s])' = TakenIn(batch[s])
  BY DEF TakenIn, Accepted, LastSlot
<1>5. BatchesFill'
  BY <1>3, <1>4 DEF MetricsInvariant, BatchesFill
<1>6. CallStamps'
  BY DEF MetricsInvariant, CallStamps, Accepted, LastSlot, BatchesOf
<1> QED  BY <1>1, <1>2, <1>5, <1>6 DEF MetricsInvariant

LEMMA FlushStep ==
    ASSUME MetricsInvariant, NEW t \in Threads, Flush(t)
    PROVE  /\ MetricsInvariant'
           /\ \A n \in Series : registry[n] <= registry'[n]
<1>1. TypeOK /\ registry \in Counts /\ local \in [Threads -> Counts]
  BY DEF MetricsInvariant, TypeOK
<1>2. \A n \in Series : registry[n] \in Nat /\ local[t][n] \in Nat
  BY <1>1 DEF Counts
<1>3. /\ registry' = [n \in Series |-> registry[n] + local[t][n]]
      /\ local' = [local EXCEPT ![t] = [n \in Series |-> 0]]
      /\ UNCHANGED <<gauge, warmed, callVars, head, written, sessionVars, clock,
                     panicked>>
  BY DEF Flush, Flushed, Merged
<1>4. registry' \in Counts /\ local' \in [Threads -> Counts]
  <2>1. registry' \in Counts
    BY <1>2, <1>3, SMT DEF Counts
  <2>2. [n \in Series |-> 0] \in Counts
    BY DEF Counts
  <2> QED  BY <1>1, <1>3, <2>1, <2>2
<1>5. \A n \in Series : registry[n] <= registry'[n]
  BY <1>2, <1>3, SMT
<1>6. TypeOK'
  BY <1>1, <1>3, <1>4 DEF TypeOK
<1> QED  BY <1>3, <1>5, <1>6, QuietStep

LEMMA WarmupStep ==
    ASSUME MetricsInvariant, Warmup \/ ReportGauges
    PROVE  MetricsInvariant' /\ registry' = registry
<1>1. TypeOK
  BY DEF MetricsInvariant
<1>2. CASE Warmup
  <2>1. local' \in [Threads -> Counts]
    BY <1>1, <1>2, ObservedTyped DEF Warmup, Threads
  <2>2. warmed' \in 0 .. WarmupRuns * Cardinality(Sessions)
    BY <1>1, <1>2, Bounds, SMT DEF Warmup, Served, TypeOK
  <2>3. TypeOK'
    BY <1>1, <1>2, <2>1, <2>2 DEF Warmup, TypeOK
  <2> QED  BY <1>2, <2>3, QuietStep DEF Warmup
<1>3. CASE ReportGauges
  <2>1. gauge' \in Nat
    BY <1>1, <1>3, Bounds, SMT DEF ReportGauges, TypeOK
  <2>2. TypeOK'
    BY <1>1, <1>3, <2>1 DEF ReportGauges, TypeOK
  <2> QED  BY <1>3, <2>2, QuietStep DEF ReportGauges
<1> QED  BY <1>2, <1>3

-------------------------------------------------------------------------------
(***************************************************************************)
(* The steps of a call.                                                    *)
(***************************************************************************)

\* The slots and batches of a call that was accepted.
LEMMA CallBatches ==
    ASSUME MetricsInvariant, NEW c \in Calls, Accepted(c)
    PROVE  /\ stamps[c].first \in Nat /\ LastSlot(c) \in Nat
           /\ stamps[c].first <= LastSlot(c) /\ LastSlot(c) < Capacity
           /\ LastSlot(c) < head
           /\ BatchOf(stamps[c].first) \in BatchIds
           /\ BatchOf(LastSlot(c)) \in BatchIds
           /\ BatchOf(stamps[c].first) \in BatchesOf(c)
           /\ BatchOf(stamps[c].first) <= BatchOf(LastSlot(c))
           /\ BatchesOf(c) \subseteq BatchIds
<1>1. /\ stamps[c].first \in Nat /\ rows[c] \in Nat /\ rows[c] > 0 /\ head \in Nat
      /\ LastSlot(c) \in Int /\ LastSlot(c) + 1 = stamps[c].first + rows[c]
      /\ LastSlot(c) < head /\ head <= Capacity
  BY CallNumbers DEF MetricsInvariant, CallsApart
<1>2. /\ LastSlot(c) \in Nat /\ stamps[c].first <= LastSlot(c)
      /\ LastSlot(c) < Capacity /\ stamps[c].first < Capacity
  BY <1>1, Bounds, SMT
<1>3. /\ BatchOf(stamps[c].first) \in BatchIds /\ BatchOf(LastSlot(c)) \in BatchIds
      /\ BatchOf(stamps[c].first) <= BatchOf(LastSlot(c))
  BY <1>1, <1>2, SlotBatch, BatchOrder
<1>4. /\ BatchOf(stamps[c].first) \in BatchesOf(c)
      /\ BatchesOf(c) \subseteq BatchIds
  BY <1>3, Bounds, SMT DEF BatchesOf, BatchIds
<1> QED  BY <1>1, <1>2, <1>3, <1>4

LEMMA BatchNumber == \A b \in BatchIds : b \in Nat
BY Bounds, SMT DEF BatchIds

\* Whoever has a slot has it alone.
LEMMA OneOwner ==
    ASSUME MetricsInvariant, NEW c \in Calls, NEW d \in Calls, NEW i \in Nat,
           Accepted(c), Accepted(d), stamps[c].first <= i, i <= LastSlot(c),
           stamps[d].first <= i, i <= LastSlot(d)
    PROVE  c = d
<1>1. /\ stamps[c].first \in Nat /\ LastSlot(c) \in Nat
      /\ stamps[d].first \in Nat /\ LastSlot(d) \in Nat
  BY CallBatches
<1>2. ~(LastSlot(c) < stamps[d].first) /\ ~(LastSlot(d) < stamps[c].first)
  BY <1>1, SMT
<1> QED  BY <1>2 DEF MetricsInvariant, CallsApart

\* What is copied was taken.
LEMMA CopiedIsTaken ==
    ASSUME MetricsInvariant, NEW b \in Nat
    PROVE  CopiedIn(b) \subseteq TakenIn(b)
<1> SUFFICES ASSUME NEW i \in CopiedIn(b) PROVE i \in TakenIn(b)
  OBVIOUS
<1>1. PICK c \in Calls : Accepted(c) /\ stamps[c].first <= i /\ i < at[c]
  BY DEF CopiedIn
<1>2. i \in SlotsOf(b) /\ i \in Nat
  BY BatchLimits DEF CopiedIn
<1>3. /\ at[c] \in Nat /\ LastSlot(c) \in Int /\ at[c] <= LastSlot(c) + 1
  BY <1>1, CallNumbers DEF MetricsInvariant, CallsApart
<1>4. i <= LastSlot(c)
  BY <1>1, <1>2, <1>3, SMT
<1> QED  BY <1>1, <1>2, <1>4 DEF TakenIn

\* A slot that its call still has to copy is in a batch that did not start.
LEMMA NotStarted ==
    ASSUME MetricsInvariant, NEW c \in Calls, Accepted(c), NEW i \in Nat,
           at[c] <= i, i <= LastSlot(c)
    PROVE  /\ BatchOf(i) \in BatchIds /\ i \in SlotsOf(BatchOf(i))
           /\ i \in TakenIn(BatchOf(i)) /\ i \notin CopiedIn(BatchOf(i))
           /\ trace[BatchOf(i)].start = 0
<1>1. /\ stamps[c].first \in Nat /\ LastSlot(c) \in Nat /\ LastSlot(c) < Capacity
      /\ at[c] \in Nat /\ stamps[c].first <= at[c]
  BY CallBatches, CallNumbers DEF MetricsInvariant, CallsApart
<1>2. stamps[c].first <= i /\ i < Capacity
  BY <1>1, Bounds, SMT
<1>3. BatchOf(i) \in BatchIds /\ i \in SlotsOf(BatchOf(i))
  BY <1>2, SlotBatch
<1>4. i \in TakenIn(BatchOf(i))
  BY <1>2, <1>3 DEF TakenIn
<1>5. ASSUME i \in CopiedIn(BatchOf(i)) PROVE FALSE
  <2>1. PICK d \in Calls : Accepted(d) /\ stamps[d].first <= i /\ i < at[d]
    BY <1>5 DEF CopiedIn
  <2>2. at[d] \in Nat /\ LastSlot(d) \in Nat /\ at[d] <= LastSlot(d) + 1
    BY <2>1, CallBatches, CallNumbers DEF MetricsInvariant, CallsApart
  <2>3. i <= LastSlot(d)
    BY <2>1, <2>2, SMT
  <2>4. c = d
    BY <1>2, <2>1, <2>3, OneOwner
  <2> QED  BY <1>1, <2>1, <2>4, SMT
<1> QED  BY <1>3, <1>4, <1>5 DEF MetricsInvariant, BatchesFill

\* A batch that is started or sealed is not open.
LEMMA ClosedBatch ==
    ASSUME MetricsInvariant, NEW b \in BatchIds,
           trace[b].start # 0 \/ \E s \in Sessions : batch[s] = b /\ pc[s] # "await"
    PROVE  /\ b < claimed /\ ~Open(b) /\ head >= (b + 1) * BatchSize
           /\ \A i \in TakenIn(b) : i < head
<1>1. b \in Nat /\ claimed \in Nat
  BY BatchNumber, Bounds, SMT DEF MetricsInvariant, TypeOK
<1>2. b < claimed
  BY <1>1, SMT DEF MetricsInvariant, SessionsApart, BatchTraces
<1>3. ~\E s \in Sessions : batch[s] = b /\ pc[s] = "await"
  <2>1. b # -1
    BY <1>1, SMT
  <2> QED  BY <2>1 DEF MetricsInvariant, SessionsApart, SessionTraces
<1>4. ~Open(b)
  BY <1>1, <1>2, <1>3, SMT DEF Open
<1>5. head >= (b + 1) * BatchSize
  BY <1>4 DEF MetricsInvariant, BatchesFill
<1>6. ASSUME NEW i \in TakenIn(b) PROVE i < head
  <2>1. i \in Nat /\ i < (b + 1) * BatchSize
    BY <1>1, BatchLimits DEF TakenIn
  <2>2. head \in Nat /\ (b + 1) * BatchSize \in Nat
    BY <1>1, Bounds, SMT DEF MetricsInvariant, TypeOK
  <2> QED  BY <1>5, <2>1, <2>2, SMT
<1> QED  BY <1>2, <1>4, <1>5, <1>6

\* Calls do not touch the sessions; a stamp moves the clock.
LEMMA SessionsRest ==
    ASSUME MetricsInvariant, UNCHANGED sessionVars, clock' \in {clock, clock + 1}
    PROVE  /\ SessionsApart' /\ SessionTraces' /\ BatchTraces'
           /\ \A b : Open(b)' = Open(b)
<1>1. SessionsApart' /\ SessionTraces'
  BY DEF MetricsInvariant, SessionsApart, SessionTraces, Busy
<1>2. clock \in Nat /\ \A b \in BatchIds : trace[b].start \in Nat /\ trace[b].end \in Nat
  BY DEF MetricsInvariant, TypeOK
<1>3. \A b \in BatchIds : /\ trace[b].start < clock /\ trace[b].end < clock
  BY DEF MetricsInvariant, BatchTraces
<1>4. \A b \in BatchIds : trace[b].start < clock' /\ trace[b].end < clock'
  BY <1>2, <1>3, SMT
<1>5. BatchTraces'
  BY <1>4 DEF MetricsInvariant, BatchTraces
<1> QED  BY <1>1, <1>5 DEF Open

\* The slots of the calls stay what they are.
LEMMA SameSlots ==
    ASSUME \A d \in Calls :
               /\ Accepted(d)' <=> Accepted(d)
               /\ stamps'[d].first = stamps[d].first /\ rows'[d] = rows[d]
    PROVE  /\ \A d \in Calls : LastSlot(d)' = LastSlot(d)
           /\ \A b : TakenIn(b)' = TakenIn(b)
           /\ at' = at => \A b : CopiedIn(b)' = CopiedIn(b)
<1>1. \A d \in Calls : LastSlot(d)' = LastSlot(d)
  BY DEF LastSlot
<1> QED  BY <1>1 DEF TakenIn, CopiedIn

LEMMA RefuseStep ==
    ASSUME MetricsInvariant, NEW c \in Calls, Refuse(c)
    PROVE  MetricsInvariant'
<1>1. TypeOK /\ core[c] \in Threads
  BY MetricsBounds DEF MetricsInvariant, TypeOK, Threads
<1>2. TypeOK'
  <2>1. local' \in [Threads -> Counts]
    BY <1>1, ObservedTyped DEF Refuse
  <2>2. call' \in [Calls -> {"new", "copying", "waiting"} \cup Requests]
    BY <1>1 DEF Refuse, TypeOK, Requests
  <2> QED  BY <1>1, <2>1, <2>2 DEF Refuse, TypeOK
<1>3. /\ \A d \in Calls : /\ Accepted(d)' <=> Accepted(d)
                          /\ d # c => call'[d] = call[d]
      /\ ~Accepted(c) /\ call'[c] = "resource_exhausted"
  BY <1>1 DEF Refuse, Accepted, TypeOK
<1>4. UNCHANGED <<rows, at, stamps, head, written, sessionVars, clock>>
  BY DEF Refuse
<1>5. /\ SessionsApart' /\ SessionTraces' /\ BatchTraces'
      /\ \A b : Open(b)' = Open(b)
  BY <1>4, SessionsRest
<1>6. /\ \A d \in Calls : LastSlot(d)' = LastSlot(d)
      /\ \A b : TakenIn(b)' = TakenIn(b) /\ CopiedIn(b)' = CopiedIn(b)
  BY <1>3, <1>4, SameSlots
<1>7. CallsApart'
  BY <1>3, <1>4, <1>6 DEF MetricsInvariant, CallsApart, Accepted
<1>8. BatchesFill'
  BY <1>4, <1>5, <1>6 DEF MetricsInvariant, BatchesFill
<1>9. CallStamps'
  BY <1>3, <1>4, <1>6 DEF MetricsInvariant, CallStamps, BatchesOf
<1> QED  BY <1>2, <1>5, <1>7, <1>8, <1>9 DEF MetricsInvariant

\* A response finds the stamps of its first batch.
LEMMA AnswerStep ==
    ASSUME MetricsInvariant, NEW c \in Calls, AnswerOk(c) \/ AnswerError(c)
    PROVE  MetricsInvariant' /\ panicked' = panicked
<1>1. TypeOK /\ core[c] \in Threads /\ call[c] = "waiting" /\ Accepted(c)
  BY MetricsBounds
     DEF MetricsInvariant, TypeOK, Threads, AnswerOk, AnswerError, Accepted
<1>2. /\ call'[c] \in {"ok", "error"} /\ \A d \in Calls \ {c} : call'[d] = call[d]
      /\ call' \in [Calls -> {"new", "copying", "waiting"} \cup Requests]
      /\ UNCHANGED <<registry, gauge, warmed, core, rows, at, head, written,
                     sessionVars, panicked>>
      /\ clock' \in {clock, clock + 1}
      /\ \A d \in Calls : /\ stamps'[d].first = stamps[d].first
                          /\ stamps'[d].serialized = stamps[d].serialized
                          /\ stamps'[d].queued = stamps[d].queued
                          /\ stamps'[d].queuedAt = stamps[d].queuedAt
                          /\ d # c => stamps'[d] = stamps[d]
      /\ stamps' \in [Calls -> [first : 0 .. Capacity, serialized : Nat,
                             queued : Nat, queuedAt : -1 .. Capacity,
                             processed : Nat]]
      /\ local' \in [Threads -> Counts]
      /\ call'[c] = "ok" => /\ \A b \in BatchesOf(c) : output[b] = "ok"
                            /\ stamps'[c].processed = clock
  <2>1. CASE AnswerOk(c)
    <3>1. PICK b : b = BatchOf(stamps[c].first)
      OBVIOUS
    <3>2. b \in BatchIds /\ b \in BatchesOf(c)
      BY <1>1, <3>1, CallBatches
    <3>3. output[b] = "ok"
      BY <2>1, <3>2 DEF AnswerOk
    <3>4. trace[b].start # 0 /\ trace[b].start < trace[b].end
      BY <3>2, <3>3 DEF MetricsInvariant, BatchTraces
    <3>5. trace[b].start \in Nat /\ trace[b].end \in Nat
      BY <1>1, <3>2 DEF TypeOK
    <3>6. trace[b].end # 0
      BY <3>4, <3>5, SMT
    <3>7. /\ call' = [call EXCEPT ![c] = "ok"]
          /\ stamps' = [stamps EXCEPT ![c].processed = clock]
          /\ clock' = clock + 1
          /\ local' = Observed(core[c], {"ok"} \cup Answered, "client_rows", rows[c])
          /\ UNCHANGED <<registry, gauge, warmed, core, rows, at, head, written,
                         sessionVars, panicked>>
      BY <2>1, <3>1, <3>4, <3>6 DEF AnswerOk, TraceOf
    <3>8. local' \in [Threads -> Counts]
      BY <1>1, <3>7, CallNumbers, ObservedTyped
    <3>9. clock \in Nat
      BY <1>1 DEF TypeOK
    <3>10. stamps \in [Calls -> [first : 0 .. Capacity, serialized : Nat,
                             queued : Nat, queuedAt : -1 .. Capacity,
                             processed : Nat]]
      BY <1>1 DEF TypeOK
    <3>11. /\ \A d \in Calls : /\ stamps'[d].first = stamps[d].first
                          /\ stamps'[d].serialized = stamps[d].serialized
                          /\ stamps'[d].queued = stamps[d].queued
                          /\ stamps'[d].queuedAt = stamps[d].queuedAt
                          /\ d # c => stamps'[d] = stamps[d]
           /\ stamps' \in [Calls -> [first : 0 .. Capacity, serialized : Nat,
                             queued : Nat, queuedAt : -1 .. Capacity,
                             processed : Nat]]
           /\ stamps'[c].processed = clock
      <4>1. stamps' = [stamps EXCEPT ![c].processed = clock]
        BY <3>7
      <4>2. stamps'[c] = [stamps[c] EXCEPT !.processed = clock]
        BY <3>10, <4>1
      <4>3. \A d \in Calls : d # c => stamps'[d] = stamps[d]
        BY <3>10, <4>1
      <4>4. stamps[c] \in [first : 0 .. Capacity, serialized : Nat,
                          queued : Nat, queuedAt : -1 .. Capacity,
                          processed : Nat]
        BY <3>10
      <4>5. /\ stamps'[c] \in [first : 0 .. Capacity, serialized : Nat,
                               queued : Nat, queuedAt : -1 .. Capacity,
                               processed : Nat]
            /\ stamps'[c].processed = clock
            /\ stamps'[c].first = stamps[c].first
            /\ stamps'[c].serialized = stamps[c].serialized
            /\ stamps'[c].queued = stamps[c].queued
            /\ stamps'[c].queuedAt = stamps[c].queuedAt
        BY <3>9, <4>2, <4>4
      <4>6. stamps' \in [Calls -> [first : 0 .. Capacity, serialized : Nat,
                             queued : Nat, queuedAt : -1 .. Capacity,
                             processed : Nat]]
        BY <3>10, <4>1, <4>3, <4>5
      <4> QED  BY <4>3, <4>5, <4>6
    <3>12. call' \in [Calls -> {"new", "copying", "waiting"} \cup Requests]
      BY <1>1, <3>7 DEF TypeOK, Requests
    <3>13. \A a \in BatchesOf(c) : output[a] = "ok"
      BY <2>1 DEF AnswerOk
    <3>14. call'[c] = "ok" /\ \A d \in Calls \ {c} : call'[d] = call[d]
      BY <1>1, <3>7 DEF TypeOK
    <3> QED  BY <3>7, <3>8, <3>11, <3>12, <3>13, <3>14, ZenonT(60)
  <2>2. CASE AnswerError(c)
    <3>1. local' \in [Threads -> Counts]
      BY <1>1, <2>2, ObservedTyped DEF AnswerError
    <3>2. /\ call'[c] = "error" /\ \A d \in Calls \ {c} : call'[d] = call[d]
          /\ call' \in [Calls -> {"new", "copying", "waiting"} \cup Requests]
      BY <1>1, <2>2 DEF AnswerError, TypeOK, Requests
    <3> QED  BY <1>1, <2>2, <3>1, <3>2 DEF AnswerError, TypeOK
  <2> QED  BY <2>1, <2>2
<1>3. TypeOK'
  <2>1. clock' \in Nat
    BY <1>1, <1>2, SMT DEF TypeOK
  <2> QED  BY <1>1, <1>2, <2>1 DEF TypeOK
<1>4. \A d \in Calls : Accepted(d)' <=> Accepted(d)
  BY <1>1, <1>2 DEF Accepted
<1>5. /\ SessionsApart' /\ SessionTraces' /\ BatchTraces'
      /\ \A b : Open(b)' = Open(b)
  BY <1>2, SessionsRest
<1>6. /\ \A d \in Calls : LastSlot(d)' = LastSlot(d)
      /\ \A b : TakenIn(b)' = TakenIn(b) /\ CopiedIn(b)' = CopiedIn(b)
  BY <1>2, <1>4, SameSlots
<1>7. CallsApart'
  <2>1. /\ call'[c] # "new" /\ call'[c] # "copying" /\ call[c] # "copying"
    BY <1>1, <1>2
  <2>2. \A d \in Calls : /\ call'[d] = "new" <=> call[d] = "new"
                         /\ call'[d] = "copying" <=> call[d] = "copying"
    BY <1>1, <1>2, <2>1
  <2> QED  BY <1>2, <1>4, <1>6, <2>2 DEF MetricsInvariant, CallsApart
<1>8. BatchesFill'
  BY <1>2, <1>5, <1>6 DEF MetricsInvariant, BatchesFill
<1>9. CallStamps'
  <2>1. ASSUME NEW d \in Calls
        PROVE  /\ stamps'[d].serialized < clock' /\ stamps'[d].queued < clock'
    <3>1. /\ stamps[d].serialized < clock /\ stamps[d].queued < clock
      BY DEF MetricsInvariant, CallStamps
    <3> QED  BY <1>1, <1>2, <3>1, CallNumbers, SMT
  <2>2. ASSUME NEW d \in Calls, Accepted(d)
        PROVE  /\ at[d] > stamps[d].first => stamps[d].queuedAt # -1
               /\ stamps[d].queuedAt # -1
                    => stamps[d].serialized < stamps[d].queued
               /\ trace[BatchOf(LastSlot(d))].start # 0
                    => stamps[d].queued < trace[BatchOf(LastSlot(d))].start
    BY <2>2 DEF MetricsInvariant, CallStamps
  <2>3. BatchesOf(c)' = BatchesOf(c)
    BY <1>2, <1>6 DEF BatchesOf
  <2>4. call'[c] = "ok" => \A b \in BatchesOf(c)' :
              output[b] = "ok" /\ trace[b].end < stamps'[c].processed
    BY <1>1, <1>2, <2>3, CallBatches DEF MetricsInvariant, BatchTraces
  <2>5. ASSUME NEW d \in Calls \ {c}, call'[d] = "ok"
        PROVE  \A b \in BatchesOf(d)' :
              output[b] = "ok" /\ trace[b].end < stamps'[d].processed
    <3>1. call[d] = "ok" /\ BatchesOf(d)' = BatchesOf(d)
      BY <1>2, <1>6, <2>5 DEF BatchesOf
    <3> QED  BY <1>2, <3>1 DEF MetricsInvariant, CallStamps
  <2> QED  BY <1>2, <1>4, <1>6, <2>1, <2>2, <2>4, <2>5 DEF CallStamps
<1> QED  BY <1>2, <1>3, <1>5, <1>7, <1>8, <1>9 DEF MetricsInvariant

\* A call is accepted with slots nobody had.
LEMMA StartStep ==
    ASSUME MetricsInvariant, NEW c \in Calls, Start(c)
    PROVE  MetricsInvariant' /\ \A b \in BatchIds : CopiedIn(b)' = CopiedIn(b)
<1>1. PICK n \in CallRows : /\ head + n <= Capacity /\ head' = head + n
                            /\ rows' = [rows EXCEPT ![c] = n]
  BY DEF Start
<1>2. TypeOK /\ head \in Nat /\ clock \in Nat /\ n \in Nat /\ n > 0
  BY MetricsBounds, CallNumbers DEF MetricsInvariant
<1>3. /\ call' = [call EXCEPT ![c] = "copying"] /\ at' = [at EXCEPT ![c] = head]
      /\ stamps' = [stamps EXCEPT ![c].first = head, ![c].serialized = clock]
      /\ clock' = clock + 1 /\ call[c] = "new"
      /\ UNCHANGED <<metricVars, warmed, core, written, sessionVars, panicked>>
  BY DEF Start
<1>4. /\ call'[c] = "copying" /\ at'[c] = head /\ rows'[c] = n
      /\ stamps'[c].first = head /\ stamps'[c].serialized = clock
      /\ stamps'[c].queued = stamps[c].queued
      /\ stamps'[c].queuedAt = stamps[c].queuedAt
      /\ \A d \in Calls \ {c} : /\ call'[d] = call[d] /\ at'[d] = at[d]
                                /\ rows'[d] = rows[d] /\ stamps'[d] = stamps[d]
      /\ ~Accepted(c) /\ Accepted(c)' /\ stamps[c].queuedAt = -1
  BY <1>1, <1>2, <1>3 DEF TypeOK, Accepted, MetricsInvariant, CallsApart
<1>5. TypeOK'
  <2>1. head \in 0 .. Capacity /\ head' \in 0 .. Capacity
    BY <1>1, <1>2, Bounds, SMT
  <2>2. at' \in [Calls -> 0 .. Capacity]
    BY <1>2, <1>3, <2>1 DEF TypeOK
  <2>3. stamps' \in [Calls -> [first : 0 .. Capacity, serialized : Nat,
                             queued : Nat, queuedAt : -1 .. Capacity,
                             processed : Nat]]
    <3> DEFINE Times == [first : 0 .. Capacity, serialized : Nat, queued : Nat,
                         queuedAt : -1 .. Capacity, processed : Nat]
    <3>1. stamps \in [Calls -> Times] /\ stamps[c] \in Times
      BY <1>2 DEF TypeOK
    <3>2. PICK new : new = [[stamps[c] EXCEPT !.first = head]
                               EXCEPT !.serialized = clock]
      OBVIOUS
    <3>3. new \in Times
      BY <1>2, <2>1, <3>1, <3>2
    <3>4. stamps' = [stamps EXCEPT ![c] = new]
      BY <1>3, <3>1, <3>2
    <3> HIDE DEF Times
    <3>5. stamps' \in [Calls -> Times]
      BY <3>1, <3>3, <3>4
    <3> QED  BY <3>5 DEF Times
  <2>4. rows' \in [Calls -> CallRows \cup {0}]
    BY <1>1, <1>2 DEF TypeOK
  <2>5. call' \in [Calls -> {"new", "copying", "waiting"} \cup Requests]
    BY <1>2, <1>3 DEF TypeOK
  <2>6. clock' \in Nat
    BY <1>2, <1>3, SMT
  <2> QED  BY <1>2, <1>3, <2>1, <2>2, <2>3, <2>4, <2>5, <2>6 DEF TypeOK
<1>6. /\ SessionsApart' /\ SessionTraces' /\ BatchTraces'
      /\ \A b : Open(b)' = Open(b)
  BY <1>3, SessionsRest
<1>7. /\ LastSlot(c)' = head + n - 1
      /\ \A d \in Calls \ {c} : /\ LastSlot(d)' = LastSlot(d)
                                /\ Accepted(d)' <=> Accepted(d)
  BY <1>4 DEF LastSlot, Accepted
<1>8. CallsApart'
  <2>1. ASSUME NEW d \in Calls
        PROVE  /\ call'[d] = "new" => stamps'[d].queuedAt = -1
               /\ Accepted(d)' =>
                    /\ stamps'[d].first <= at'[d] /\ rows'[d] > 0
                    /\ at'[d] <= LastSlot(d)' + 1 /\ LastSlot(d)' < head'
                    /\ call'[d] = "copying" <=> at'[d] <= LastSlot(d)'
    <3>1. CASE d = c
      BY <1>1, <1>2, <1>4, <1>7, <3>1, SMT
    <3>2. CASE d # c
      <4>1. call[d] = "new" => stamps[d].queuedAt = -1
        BY DEF MetricsInvariant, CallsApart
      <4>2. Accepted(d) =>
                    /\ stamps[d].first <= at[d] /\ rows[d] > 0
                    /\ at[d] <= LastSlot(d) + 1 /\ LastSlot(d) < head
                    /\ call[d] = "copying" <=> at[d] <= LastSlot(d)
        BY DEF MetricsInvariant, CallsApart
      <4>3. Accepted(d) => LastSlot(d) < head'
        BY <1>1, <1>2, <4>2, CallNumbers, SMT
      <4> QED  BY <1>4, <1>7, <3>2, <4>1, <4>2, <4>3
    <3> QED  BY <3>1, <3>2
  <2>2. ASSUME NEW d \in Calls \ {c}, Accepted(d)
        PROVE  LastSlot(d)' < stamps'[c].first
    BY <1>4, <1>7, <2>2 DEF MetricsInvariant, CallsApart
  <2>3. \A d, e \in Calls \ {c} : d # e /\ Accepted(d) /\ Accepted(e) =>
          LastSlot(d) < stamps[e].first \/ LastSlot(e) < stamps[d].first
    BY DEF MetricsInvariant, CallsApart
  <2>4. \A d, e \in Calls : d # e /\ Accepted(d)' /\ Accepted(e)' =>
          LastSlot(d)' < stamps'[e].first \/ LastSlot(e)' < stamps'[d].first
    BY <1>4, <1>7, <2>2, <2>3
  <2> QED  BY <2>1, <2>4 DEF CallsApart
<1>9. ASSUME NEW b \in BatchIds
      PROVE  /\ CopiedIn(b)' = CopiedIn(b)
             /\ \A i : i \in TakenIn(b)' <=> \/ i \in TakenIn(b)
                                             \/ /\ i \in SlotsOf(b)
                                                /\ head <= i /\ i < head + n
             /\ ~Open(b) => TakenIn(b)' = TakenIn(b)
  <2>1. \A i : i \in SlotsOf(b) => i \in Nat
    BY BatchNumber, BatchLimits
  <2>2. ASSUME NEW i \in Nat PROVE ~(head <= i /\ i < head)
    BY <1>2, SMT
  <2>3. CopiedIn(b)' = CopiedIn(b)
    BY <1>4, <1>7, <2>1, <2>2 DEF CopiedIn
  <2>4. ASSUME NEW i \in Nat PROVE i <= head + n - 1 <=> i < head + n
    BY <1>2, SMT
  <2>5. \A i : i \in TakenIn(b)' <=> \/ i \in TakenIn(b)
                                     \/ /\ i \in SlotsOf(b)
                                        /\ head <= i /\ i < head + n
    BY <1>4, <1>7, <2>1, <2>4 DEF TakenIn
  <2>6. ASSUME ~Open(b), NEW i \in SlotsOf(b) PROVE ~(head <= i)
    <3>1. head >= (b + 1) * BatchSize
      BY <2>6 DEF MetricsInvariant, BatchesFill
    <3>2. i \in Nat /\ i < (b + 1) * BatchSize
      BY <2>6, BatchNumber, BatchLimits
    <3>3. (b + 1) * BatchSize \in Nat
      BY BatchNumber, Bounds, SMT
    <3> QED  BY <1>2, <3>1, <3>2, <3>3, SMT
  <2>7. ~Open(b) => TakenIn(b)' = TakenIn(b)
    BY <2>5, <2>6
  <2> QED  BY <2>3, <2>5, <2>7
<1>10. BatchesFill'
  <2>1. ASSUME NEW b \in BatchIds
        PROVE  /\ written'[b] = Cardinality(CopiedIn(b)')
               /\ Open(b)' => \A i \in SlotsOf(b) : i < head' => i \in TakenIn(b)'
               /\ trace'[b].start # 0 => TakenIn(b)' = CopiedIn(b)'
               /\ ~Open(b)' => head' >= (b + 1) * BatchSize
    <3>1. /\ written[b] = Cardinality(CopiedIn(b))
          /\ Open(b) => \A i \in SlotsOf(b) : i < head => i \in TakenIn(b)
          /\ trace[b].start # 0 => TakenIn(b) = CopiedIn(b)
          /\ ~Open(b) => head >= (b + 1) * BatchSize
      BY DEF MetricsInvariant, BatchesFill
    <3>2. Open(b) => \A i \in SlotsOf(b) : i < head' => i \in TakenIn(b)'
      <4>1. ASSUME NEW i \in SlotsOf(b), i < head'
            PROVE  i < head \/ (head <= i /\ i < head + n)
        <5>1. i \in Nat
          BY BatchNumber, BatchLimits
        <5> QED  BY <1>1, <1>2, <4>1, <5>1, SMT
      <4> QED  BY <1>9, <3>1, <4>1
    <3>3. trace[b].start # 0 => TakenIn(b)' = CopiedIn(b)'
      BY <1>9, <3>1, ClosedBatch
    <3>4. ~Open(b) => head' >= (b + 1) * BatchSize
      <4>1. (b + 1) * BatchSize \in Nat
        BY BatchNumber, Bounds, SMT
      <4> QED  BY <1>1, <1>2, <3>1, <4>1, SMT
    <3> QED  BY <1>3, <1>6, <1>9, <3>1, <3>2, <3>3, <3>4
  <2>2. ASSUME NEW s \in Sessions, pc[s] = "sealed"
        PROVE  expected[s] = Cardinality(TakenIn(batch[s])')
    <3>1. batch[s] \in BatchIds
      BY <2>2 DEF MetricsInvariant, TypeOK, SessionsApart
    <3>2. ~Open(batch[s])
      BY <2>2, <3>1, ClosedBatch
    <3>3. PICK b \in BatchIds : b = batch[s]
      BY <3>1
    <3>4. TakenIn(b)' = TakenIn(b)
      BY <1>9, <3>2, <3>3
    <3>5. TakenIn(batch[s])' = TakenIn(b)' /\ TakenIn(batch[s]) = TakenIn(b)
      BY <1>3, <3>3 DEF TakenIn
    <3> QED  BY <2>2, <3>4, <3>5 DEF MetricsInvariant, BatchesFill
  <2> QED  BY <1>3, <2>1, <2>2 DEF BatchesFill
<1>11. CallStamps'
  <2>1. ASSUME NEW d \in Calls \ {c}, Accepted(d)
        PROVE  /\ at[d] > stamps[d].first => stamps[d].queuedAt # -1
               /\ stamps[d].queuedAt # -1
                    => stamps[d].serialized < stamps[d].queued
               /\ trace[BatchOf(LastSlot(d))].start # 0
                    => stamps[d].queued < trace[BatchOf(LastSlot(d))].start
    BY <2>1 DEF MetricsInvariant, CallStamps
  <2>2. ASSUME NEW d \in Calls
        PROVE  stamps'[d].serialized < clock' /\ stamps'[d].queued < clock'
    <3>1. stamps[d].serialized < clock /\ stamps[d].queued < clock
      BY DEF MetricsInvariant, CallStamps
    <3>2. /\ stamps'[d].serialized = clock
             \/ stamps'[d].serialized = stamps[d].serialized
          /\ stamps'[d].queued = stamps[d].queued
      BY <1>4
    <3>3. stamps[d].serialized \in Nat /\ stamps[d].queued \in Nat
      BY <1>2, CallNumbers
    <3> QED  BY <1>2, <1>3, <3>1, <3>2, <3>3, SMT
  <2>3. trace[BatchOf(LastSlot(c)')].start = 0
    <3>1. PICK i \in Nat : i = LastSlot(c)'
      BY <1>2, <1>7, SMT
    <3>2. head <= i /\ i < Capacity
      BY <1>1, <1>2, <1>7, <3>1, Bounds, SMT
    <3>3. BatchOf(i) \in BatchIds /\ i \in SlotsOf(BatchOf(i))
      BY <3>2, SlotBatch
    <3>4. /\ i < (BatchOf(i) + 1) * BatchSize
          /\ (BatchOf(i) + 1) * BatchSize \in Nat
      BY <3>3, BatchNumber, BatchLimits, Bounds, SMT
    <3>5. ~(head >= (BatchOf(i) + 1) * BatchSize)
      BY <1>2, <3>2, <3>4, SMT
    <3> QED  BY <3>1, <3>3, <3>5, ClosedBatch
  <2>4. ~(at'[c] > stamps'[c].first)
    BY <1>2, <1>4, SMT
  <2>5. \A d \in Calls \ {c} : BatchesOf(d)' = BatchesOf(d)
    BY <1>4, <1>7 DEF BatchesOf
  <2>6. \A d \in Calls : call'[d] = "ok" => \A b \in BatchesOf(d)' :
              output[b] = "ok" /\ trace[b].end < stamps'[d].processed
    BY <1>4, <2>5 DEF MetricsInvariant, CallStamps
  <2>7. ASSUME NEW d \in Calls, Accepted(d)'
        PROVE  /\ at'[d] > stamps'[d].first => stamps'[d].queuedAt # -1
               /\ stamps'[d].queuedAt # -1
                    => stamps'[d].serialized < stamps'[d].queued
               /\ trace[BatchOf(LastSlot(d)')].start # 0
                    => stamps'[d].queued < trace[BatchOf(LastSlot(d)')].start
    <3>1. CASE d = c
      BY <1>4, <2>3, <2>4, <3>1
    <3>2. CASE d # c
      BY <1>4, <1>7, <2>1, <2>7, <3>2
    <3> QED  BY <3>1, <3>2
  <2> QED  BY <1>3, <2>2, <2>6, <2>7 DEF CallStamps, BatchOf
<1> QED  BY <1>9, <1>5, <1>6, <1>8, <1>10, <1>11 DEF MetricsInvariant

\* Rows are queued before their batch starts.
LEMMA QueueStep ==
    ASSUME MetricsInvariant, NEW c \in Calls, StampInQueue(c)
    PROVE  MetricsInvariant'
<1>1. /\ TypeOK /\ clock \in Nat /\ at[c] \in Nat /\ at[c] \in 0 .. Capacity
      /\ call[c] = "copying" /\ Accepted(c)
  BY CallNumbers DEF MetricsInvariant, StampInQueue, Accepted, TypeOK
<1>2. /\ stamps' = [stamps EXCEPT ![c].queued = clock, ![c].queuedAt = at[c]]
      /\ clock' = clock + 1
      /\ UNCHANGED <<metricVars, warmed, call, core, rows, at, head, written,
                     sessionVars, panicked>>
  BY DEF StampInQueue
<1>3. /\ stamps'[c].queued = clock /\ stamps'[c].queuedAt = at[c]
      /\ \A d \in Calls : /\ stamps'[d].first = stamps[d].first
                          /\ stamps'[d].serialized = stamps[d].serialized
                          /\ d # c => stamps'[d] = stamps[d]
  BY <1>1, <1>2 DEF TypeOK
<1>4. TypeOK'
  <2>1. stamps' \in [Calls -> [first : 0 .. Capacity, serialized : Nat,
                             queued : Nat, queuedAt : -1 .. Capacity,
                             processed : Nat]]
    <3> DEFINE Times == [first : 0 .. Capacity, serialized : Nat, queued : Nat,
                         queuedAt : -1 .. Capacity, processed : Nat]
    <3>1. stamps \in [Calls -> Times] /\ stamps[c] \in Times
      BY <1>1 DEF TypeOK
    <3>2. PICK new : new = [[stamps[c] EXCEPT !.queued = clock]
                               EXCEPT !.queuedAt = at[c]]
      OBVIOUS
    <3>3. at[c] \in -1 .. Capacity
      BY <1>1, Bounds, SMT
    <3>4. new \in Times
      BY <1>1, <3>1, <3>2, <3>3
    <3>5. stamps' = [stamps EXCEPT ![c] = new]
      BY <1>2, <3>1, <3>2
    <3> HIDE DEF Times
    <3>6. stamps' \in [Calls -> Times]
      BY <3>1, <3>4, <3>5
    <3> QED  BY <3>6 DEF Times
  <2>2. clock' \in Nat
    BY <1>1, <1>2, SMT
  <2> QED  BY <1>1, <1>2, <2>1, <2>2 DEF TypeOK
<1>5. /\ SessionsApart' /\ SessionTraces' /\ BatchTraces'
      /\ \A b : Open(b)' = Open(b)
  BY <1>2, SessionsRest
<1>6. \A d \in Calls : Accepted(d)' <=> Accepted(d)
  BY <1>2 DEF Accepted
<1>7. /\ \A d \in Calls : LastSlot(d)' = LastSlot(d)
      /\ \A b : TakenIn(b)' = TakenIn(b) /\ CopiedIn(b)' = CopiedIn(b)
  BY <1>2, <1>3, <1>6, SameSlots
<1>8. CallsApart'
  BY <1>1, <1>2, <1>3, <1>6, <1>7 DEF MetricsInvariant, CallsApart
<1>9. BatchesFill'
  BY <1>2, <1>5, <1>7 DEF MetricsInvariant, BatchesFill
<1>10. CallStamps'
  <2>1. ASSUME NEW d \in Calls
        PROVE  /\ stamps'[d].serialized < clock' /\ stamps'[d].queued < clock'
    <3>1. /\ stamps[d].serialized < clock /\ stamps[d].queued < clock
      BY DEF MetricsInvariant, CallStamps
    <3>2. stamps[d].serialized \in Nat /\ stamps[d].queued \in Nat
      BY <1>1, CallNumbers
    <3>3. /\ stamps'[d].serialized = stamps[d].serialized
          /\ stamps'[d].queued = clock \/ stamps'[d].queued = stamps[d].queued
      BY <1>3
    <3> QED  BY <1>1, <1>2, <3>1, <3>2, <3>3, SMT
  <2>2. trace[BatchOf(LastSlot(c))].start = 0
    <3>1. LastSlot(c) \in Nat /\ at[c] <= LastSlot(c)
      BY <1>1, CallBatches DEF MetricsInvariant, CallsApart
    <3> QED  BY <1>1, <3>1, NotStarted
  <2>3. stamps'[c].serialized < stamps'[c].queued
    BY <1>3 DEF MetricsInvariant, CallStamps
  <2>4. stamps'[c].queuedAt # -1
    BY <1>1, <1>3, SMT
  <2>5. ASSUME NEW d \in Calls, Accepted(d)
        PROVE  /\ at[d] > stamps'[d].first => stamps'[d].queuedAt # -1
               /\ stamps'[d].queuedAt # -1
                    => stamps'[d].serialized < stamps'[d].queued
               /\ trace[BatchOf(LastSlot(d))].start # 0
                    => stamps'[d].queued < trace[BatchOf(LastSlot(d))].start
    <3>1. CASE d = c
      BY <2>2, <2>3, <2>4, <3>1
    <3>2. CASE d # c
      BY <1>3, <2>5, <3>2 DEF MetricsInvariant, CallStamps
    <3> QED  BY <3>1, <3>2
  <2>6. ASSUME NEW d \in Calls, call[d] = "ok"
        PROVE  \A b \in BatchesOf(d)' :
                   output[b] = "ok" /\ trace[b].end < stamps'[d].processed
    <3>1. d # c /\ BatchesOf(d)' = BatchesOf(d)
      BY <1>1, <1>3, <1>7, <2>6 DEF BatchesOf
    <3> QED  BY <1>3, <2>6, <3>1 DEF MetricsInvariant, CallStamps
  <2> QED  BY <1>2, <1>6, <1>7, <2>1, <2>5, <2>6 DEF CallStamps
<1> QED  BY <1>4, <1>5, <1>8, <1>9, <1>10 DEF MetricsInvariant

\* The chunk of a call stays in one batch and within the call.
LEMMA ChunkInBatch ==
    ASSUME MetricsInvariant, NEW c \in Calls, call[c] = "copying"
    PROVE  /\ Accepted(c) /\ at[c] \in Nat /\ LastSlot(c) \in Nat
           /\ ChunkRows(c) \in Nat /\ ChunkRows(c) > 0
           /\ at[c] + ChunkRows(c) <= LastSlot(c) + 1
           /\ at[c] + ChunkRows(c) <= Capacity
           /\ BatchOf(at[c]) \in BatchIds
           /\ \A i : at[c] <= i /\ i < at[c] + ChunkRows(c) /\ i \in Nat
                        => i \in SlotsOf(BatchOf(at[c]))
<1>1. /\ TypeOK /\ Accepted(c) /\ at[c] \in Nat /\ at[c] <= LastSlot(c)
  BY CallNumbers DEF MetricsInvariant, CallsApart, Accepted
<1>2. LastSlot(c) \in Nat /\ LastSlot(c) < Capacity
  BY <1>1, CallBatches
<1>3. PICK b : b = BatchOf(at[c])
  OBVIOUS
<1>4. b \in BatchIds /\ b \in Nat /\ at[c] \in SlotsOf(b)
  BY <1>1, <1>2, <1>3, SlotBatch, Bounds, SMT
<1>5. PICK low, top \in Nat : low = b * BatchSize /\ top = (b + 1) * BatchSize
  BY <1>4, BatchLimits, Bounds, SMT
<1>6. /\ low <= at[c] /\ at[c] < top
      /\ \A i : i \in SlotsOf(b) <=> i \in Nat /\ low <= i /\ i < top
  BY <1>4, <1>5, BatchLimits
<1>7. ChunkRows(c) = IF LastSlot(c) + 1 - at[c] < top - at[c]
                     THEN LastSlot(c) + 1 - at[c] ELSE top - at[c]
  BY <1>3, <1>5 DEF ChunkRows
<1>8. /\ ChunkRows(c) \in Nat /\ ChunkRows(c) > 0
      /\ at[c] + ChunkRows(c) <= LastSlot(c) + 1 /\ at[c] + ChunkRows(c) <= top
      /\ at[c] + ChunkRows(c) <= Capacity
  BY <1>1, <1>2, <1>5, <1>6, <1>7, Bounds, SMT
<1>9. \A i : at[c] <= i /\ i < at[c] + ChunkRows(c) /\ i \in Nat
                => low <= i /\ i < top
  BY <1>1, <1>5, <1>6, <1>8, SMT
<1> QED  BY <1>1, <1>2, <1>3, <1>4, <1>6, <1>8, <1>9

LEMMA CopyStep ==
    ASSUME MetricsInvariant, NEW c \in Calls, CopyChunk(c)
    PROVE  /\ MetricsInvariant'
           /\ \A a \in BatchIds : trace[a].start # 0 =>
                 CopiedIn(a)' = CopiedIn(a) /\ written'[a] = written[a]
<1>1. PICK n, b : n = ChunkRows(c) /\ b = BatchOf(at[c])
  OBVIOUS
<1>2. /\ TypeOK /\ call[c] = "copying" /\ stamps[c].queuedAt = at[c]
      /\ written' = [written EXCEPT ![b] = @ + n]
      /\ at' = [at EXCEPT ![c] = @ + n]
      /\ call' = [call EXCEPT ![c] = IF at'[c] > LastSlot(c) THEN "waiting" ELSE @]
      /\ UNCHANGED <<metricVars, warmed, core, rows, stamps, head, sessionVars,
                     clock, panicked>>
  BY <1>1 DEF CopyChunk, MetricsInvariant
<1>3. /\ Accepted(c) /\ at[c] \in Nat /\ LastSlot(c) \in Nat /\ n \in Nat /\ n > 0
      /\ at[c] + n <= LastSlot(c) + 1 /\ at[c] + n <= Capacity
      /\ b \in BatchIds /\ b \in Nat
      /\ \A i : at[c] <= i /\ i < at[c] + n /\ i \in Nat => i \in SlotsOf(b)
  BY <1>1, <1>2, ChunkInBatch, BatchNumber
<1>4. /\ at'[c] = at[c] + n
      /\ call'[c] = IF at[c] + n > LastSlot(c) THEN "waiting" ELSE "copying"
      /\ \A d \in Calls \ {c} : at'[d] = at[d] /\ call'[d] = call[d]
      /\ written'[b] = written[b] + n
      /\ \A a \in BatchIds \ {b} : written'[a] = written[a]
  BY <1>2, <1>3 DEF TypeOK
<1>5. \A d \in Calls : Accepted(d)' <=> Accepted(d)
  BY <1>3, <1>4 DEF Accepted
<1>6. /\ \A d \in Calls : LastSlot(d)' = LastSlot(d)
      /\ \A a : TakenIn(a)' = TakenIn(a)
  BY <1>2, <1>5, SameSlots
<1>7. /\ SessionsApart' /\ SessionTraces' /\ BatchTraces'
      /\ \A a : Open(a)' = Open(a)
  BY <1>2, SessionsRest
<1>8. PICK New : New = at[c] .. at[c] + n - 1
  OBVIOUS
<1>9. /\ \A i : i \in New <=> i \in Nat /\ at[c] <= i /\ i < at[c] + n
      /\ IsFiniteSet(New) /\ Cardinality(New) = n
  <2>1. PICK lo \in Int, hi \in Int : lo = at[c] /\ hi = at[c] + n - 1
    BY <1>3, SMT
  <2>2. New = lo .. hi /\ ~(lo > hi) /\ hi - lo + 1 = n
    BY <1>3, <1>8, <2>1, SMT
  <2>3. IsFiniteSet(New) /\ Cardinality(New) = n
    BY <2>1, <2>2, FS_Interval
  <2> QED  BY <1>3, <1>8, <2>3, SMT
<1>10. CopiedIn(b)' = CopiedIn(b) \cup New /\ CopiedIn(b) \cap New = {}
  <2>1. ASSUME NEW i PROVE i \in CopiedIn(b)' <=> i \in CopiedIn(b) \/ i \in New
    <3>1. i \in SlotsOf(b) => i \in Nat
      BY <1>3, BatchLimits
    <3>2. i \in New => i \in SlotsOf(b)
      BY <1>3, <1>9
    <3>3. stamps[c].first \in Nat /\ stamps[c].first <= at[c]
      BY <1>2, <1>3, CallNumbers DEF MetricsInvariant, CallsApart
    <3>4. ASSUME i \in Nat
          PROVE  stamps[c].first <= i /\ i < at[c] + n
                   <=> \/ stamps[c].first <= i /\ i < at[c]
                       \/ at[c] <= i /\ i < at[c] + n
      BY <1>3, <3>3, <3>4, SMT
    <3>5. ASSUME i \in SlotsOf(b)
          PROVE  (\E d \in Calls : /\ Accepted(d)' /\ stamps'[d].first <= i
                                   /\ i < at'[d])
                   <=> \/ \E d \in Calls : /\ Accepted(d) /\ stamps[d].first <= i
                                           /\ i < at[d]
                       \/ i \in New
      BY <1>2, <1>3, <1>4, <1>5, <1>9, <3>1, <3>4, <3>5
    <3>6. i \in CopiedIn(b)'
            <=> /\ i \in SlotsOf(b)
                /\ \E d \in Calls : /\ Accepted(d)' /\ stamps'[d].first <= i
                                    /\ i < at'[d]
      BY DEF CopiedIn
    <3>7. i \in CopiedIn(b)
            <=> /\ i \in SlotsOf(b)
                /\ \E d \in Calls : /\ Accepted(d) /\ stamps[d].first <= i
                                    /\ i < at[d]
      BY DEF CopiedIn
    <3> QED  BY <3>2, <3>5, <3>6, <3>7
  <2>2. ASSUME NEW i \in New PROVE i \notin CopiedIn(b)
    <3>1. i \in Nat /\ at[c] <= i /\ i <= LastSlot(c)
      BY <1>3, <1>9, SMT
    <3>2. i \in SlotsOf(b)
      BY <1>3, <1>9
    <3>3. b = BatchOf(i)
      BY <1>3, <3>1, <3>2, SlotBatch
    <3> QED  BY <1>3, <3>1, <3>3, NotStarted
  <2> QED  BY <2>1, <2>2
<1>11. \A a \in BatchIds \ {b} : CopiedIn(a)' = CopiedIn(a)
  <2> SUFFICES ASSUME NEW a \in BatchIds \ {b}, NEW i \in SlotsOf(a)
               PROVE  /\ stamps'[c].first <= i /\ i < at'[c]
                        <=> stamps[c].first <= i /\ i < at[c]
    BY <1>2, <1>4, <1>5 DEF CopiedIn
  <2>1. a \in Nat /\ i \in Nat
    BY BatchNumber, BatchLimits
  <2>2. i \notin SlotsOf(b)
    BY <1>3, <2>1, SlotBatch
  <2>3. ~(at[c] <= i /\ i < at[c] + n)
    BY <1>3, <2>1, <2>2
  <2>4. stamps[c].first \in Nat
    BY <1>2, CallNumbers
  <2> QED  BY <1>2, <1>3, <1>4, <2>1, <2>3, <2>4, SMT
<1>12. trace[b].start = 0
  <2>1. at[c] <= LastSlot(c)
    BY <1>3, SMT
  <2> QED  BY <1>1, <1>3, <2>1, NotStarted
<1>13. written'[b] = Cardinality(CopiedIn(b)') /\ written'[b] \in 0 .. BatchSize
  <2>1. CopiedIn(b) \subseteq SlotsOf(b) /\ CopiedIn(b)' \subseteq SlotsOf(b)
    BY <1>3, <1>9, <1>10 DEF CopiedIn
  <2>2. PICK Old, All : Old = CopiedIn(b) /\ All = CopiedIn(b)'
    OBVIOUS
  <2>3. IsFiniteSet(Old) /\ Cardinality(Old) \in Nat
    BY <1>3, <2>1, <2>2, SlotsFinite
  <2>4. Cardinality(All) \in Nat /\ Cardinality(All) <= BatchSize
    BY <1>3, <2>1, <2>2, SlotsFinite
  <2>5. Cardinality(Old \cap New) = 0
    BY <1>10, <2>2, FS_EmptySet
  <2>6. Cardinality(Old \cup New) = Cardinality(Old) + Cardinality(New)
                                        - Cardinality(Old \cap New)
    BY <1>9, <2>3, FS_Union
  <2>7. written[b] = Cardinality(Old)
    BY <1>3, <2>2 DEF MetricsInvariant, BatchesFill
  <2>8. Cardinality(All) = Cardinality(Old) + n
    BY <1>3, <1>9, <1>10, <2>2, <2>3, <2>5, <2>6, SMT
  <2> QED  BY <1>4, <2>2, <2>4, <2>7, <2>8, Bounds, SMT
<1>14. TypeOK'
  <2>1. at' \in [Calls -> 0 .. Capacity]
    <3>1. at[c] + n \in 0 .. Capacity
      BY <1>3, Bounds, SMT
    <3> QED  BY <1>2, <3>1 DEF TypeOK
  <2>2. written' \in [BatchIds -> 0 .. BatchSize]
    BY <1>2, <1>3, <1>4, <1>13 DEF TypeOK
  <2>3. call' \in [Calls -> {"new", "copying", "waiting"} \cup Requests]
    BY <1>2 DEF TypeOK
  <2> QED  BY <1>2, <2>1, <2>2, <2>3 DEF TypeOK
<1>15. CallsApart'
  <2>1. ASSUME NEW d \in Calls
        PROVE  /\ call'[d] = "new" => stamps[d].queuedAt = -1
               /\ Accepted(d) => /\ stamps[d].first <= at'[d] /\ rows[d] > 0
                                 /\ at'[d] <= LastSlot(d) + 1 /\ LastSlot(d) < head
                                 /\ call'[d] = "copying" <=> at'[d] <= LastSlot(d)
    <3>1. /\ call[d] = "new" => stamps[d].queuedAt = -1
          /\ Accepted(d) => /\ stamps[d].first <= at[d] /\ rows[d] > 0
                            /\ at[d] <= LastSlot(d) + 1 /\ LastSlot(d) < head
                            /\ call[d] = "copying" <=> at[d] <= LastSlot(d)
      BY DEF MetricsInvariant, CallsApart
    <3>2. CASE d # c
      BY <1>4, <3>1, <3>2
    <3>3. CASE d = c
      <4>1. stamps[c].first \in Nat /\ stamps[c].first <= at[c]
        BY <1>2, <1>3, <3>1, <3>3, CallNumbers
      <4>2. stamps[c].first <= at[c] + n
        BY <1>3, <4>1, SMT
      <4>3. at[c] + n > LastSlot(c) <=> ~(at[c] + n <= LastSlot(c))
        BY <1>3, SMT
      <4> QED  BY <1>3, <1>4, <3>1, <3>3, <4>2, <4>3
    <3> QED  BY <3>2, <3>3
  <2>2. \A d, e \in Calls : d # e /\ Accepted(d) /\ Accepted(e) =>
          LastSlot(d) < stamps[e].first \/ LastSlot(e) < stamps[d].first
    BY DEF MetricsInvariant, CallsApart
  <2> QED  BY <1>2, <1>5, <1>6, <2>1, <2>2 DEF CallsApart
<1>16. BatchesFill'
  <2>1. ASSUME NEW a \in BatchIds
        PROVE  /\ written'[a] = Cardinality(CopiedIn(a)')
               /\ Open(a) => \A i \in SlotsOf(a) : i < head => i \in TakenIn(a)
               /\ trace[a].start # 0 => TakenIn(a) = CopiedIn(a)'
               /\ ~Open(a) => head >= (a + 1) * BatchSize
    <3>1. /\ written[a] = Cardinality(CopiedIn(a))
          /\ Open(a) => \A i \in SlotsOf(a) : i < head => i \in TakenIn(a)
          /\ trace[a].start # 0 => TakenIn(a) = CopiedIn(a)
          /\ ~Open(a) => head >= (a + 1) * BatchSize
      BY DEF MetricsInvariant, BatchesFill
    <3>2. CASE a = b
      BY <1>12, <1>13, <3>1, <3>2
    <3>3. CASE a # b
      BY <1>4, <1>11, <3>1, <3>3
    <3> QED  BY <3>2, <3>3
  <2>2. \A s \in Sessions : TakenIn(batch[s])' = TakenIn(batch[s])
    BY <1>2, <1>5, <1>6 DEF TakenIn
  <2>3. \A s \in Sessions :
            pc[s] = "sealed" => expected[s] = Cardinality(TakenIn(batch[s]))
    BY DEF MetricsInvariant, BatchesFill
  <2> QED  BY <1>2, <1>6, <1>7, <2>1, <2>2, <2>3 DEF BatchesFill
<1>17. CallStamps'
  <2>1. stamps[c].queuedAt # -1
    BY <1>2, <1>3, SMT
  <2>2. \A d \in Calls : /\ BatchesOf(d)' = BatchesOf(d)
                         /\ call'[d] = "ok" => call[d] = "ok"
    BY <1>2, <1>4, <1>6 DEF BatchesOf
  <2>3. \A d \in Calls : Accepted(d) /\ at'[d] > stamps[d].first
                            => stamps[d].queuedAt # -1
    BY <1>4, <2>1 DEF MetricsInvariant, CallStamps
  <2> QED  BY <1>2, <1>5, <1>6, <2>2, <2>3 DEF MetricsInvariant, CallStamps
<1>18. \A a \in BatchIds : trace[a].start # 0 =>
           CopiedIn(a)' = CopiedIn(a) /\ written'[a] = written[a]
  BY <1>4, <1>11, <1>12
<1> QED  BY <1>7, <1>14, <1>15, <1>16, <1>17, <1>18 DEF MetricsInvariant

-------------------------------------------------------------------------------
(***************************************************************************)
(* The steps of a session thread.                                          *)
(***************************************************************************)
LEMMA SessionTypes ==
    ASSUME MetricsInvariant, NEW s \in Sessions
    PROVE  /\ TypeOK /\ s \in Threads /\ clock \in Nat /\ head \in Nat
           /\ claimed \in Nat /\ claimed <= MaxBatches
           /\ batch[s] \in BatchIds \cup {-1}
           /\ pc[s] # "await" => batch[s] # -1
           /\ batch[s] # -1 =>
                /\ batch[s] \in BatchIds /\ batch[s] \in Nat /\ batch[s] < claimed
                /\ written[batch[s]] \in 0 .. BatchSize
                /\ trace[batch[s]].start \in Nat /\ trace[batch[s]].end \in Nat
                /\ trace[batch[s]].start < clock /\ trace[batch[s]].end < clock
                /\ \A t \in Sessions \ {s} : batch[t] # batch[s]
<1>1. TypeOK /\ s \in Threads /\ clock \in Nat /\ head \in Nat
  BY Bounds, SMT DEF MetricsInvariant, TypeOK, Threads
<1>2. /\ claimed \in Nat /\ claimed <= MaxBatches /\ batch[s] \in BatchIds \cup {-1}
      /\ pc[s] # "await" => batch[s] # -1
  BY <1>1, Bounds, SMT DEF MetricsInvariant, SessionsApart, TypeOK
<1>3. ASSUME batch[s] # -1
      PROVE  /\ batch[s] \in BatchIds /\ batch[s] \in Nat /\ batch[s] < claimed
             /\ written[batch[s]] \in 0 .. BatchSize
             /\ trace[batch[s]].start \in Nat /\ trace[batch[s]].end \in Nat
             /\ trace[batch[s]].start < clock /\ trace[batch[s]].end < clock
             /\ \A t \in Sessions \ {s} : batch[t] # batch[s]
  <2>1. batch[s] \in BatchIds /\ batch[s] \in Nat
    BY <1>2, <1>3, BatchNumber
  <2> QED  BY <1>1, <1>3, <2>1
           DEF MetricsInvariant, SessionsApart, BatchTraces, TypeOK
<1> QED  BY <1>1, <1>2, <1>3

LEMMA CallsRest ==
    ASSUME MetricsInvariant, UNCHANGED callVars, head' \in Nat, head <= head'
    PROVE  /\ CallsApart'
           /\ \A c \in Calls : /\ Accepted(c)' <=> Accepted(c)
                               /\ LastSlot(c)' = LastSlot(c)
                               /\ BatchesOf(c)' = BatchesOf(c)
           /\ \A b : TakenIn(b)' = TakenIn(b) /\ CopiedIn(b)' = CopiedIn(b)
<1>1. \A c \in Calls : Accepted(c)' <=> Accepted(c)
  BY DEF Accepted
<1>2. /\ \A c \in Calls : LastSlot(c)' = LastSlot(c)
      /\ \A b : TakenIn(b)' = TakenIn(b) /\ CopiedIn(b)' = CopiedIn(b)
  BY <1>1, SameSlots
<1>3. ASSUME NEW c \in Calls, Accepted(c) PROVE LastSlot(c) < head'
  <2>1. LastSlot(c) \in Nat /\ LastSlot(c) < head /\ head \in Nat
    BY <1>3, CallBatches, CallNumbers DEF MetricsInvariant
  <2> QED  BY <2>1, SMT
<1>4. CallsApart'
  BY <1>1, <1>2, <1>3 DEF MetricsInvariant, CallsApart
<1> QED  BY <1>1, <1>2, <1>4 DEF BatchesOf

\* A batch starts after the stamps of its calls and keeps what it answered.
LEMMA StampsRest ==
    ASSUME MetricsInvariant, UNCHANGED callVars, head' \in Nat, head <= head',
           clock' \in {clock, clock + 1},
           \A b \in BatchIds :
               /\ trace'[b].start = trace[b].start \/ trace'[b].start = clock
               /\ output[b] = "ok" => /\ output'[b] = "ok"
                                      /\ trace'[b].end = trace[b].end
    PROVE  CallStamps'
<1>1. \A c \in Calls : /\ Accepted(c)' <=> Accepted(c)
                       /\ LastSlot(c)' = LastSlot(c)
                       /\ BatchesOf(c)' = BatchesOf(c)
  BY CallsRest
<1>2. ASSUME NEW c \in Calls
      PROVE  /\ stamps[c].serialized < clock' /\ stamps[c].queued < clock'
  <2>1. /\ stamps[c].serialized < clock /\ stamps[c].queued < clock
        /\ stamps[c].serialized \in Nat /\ stamps[c].queued \in Nat /\ clock \in Nat
    BY CallNumbers DEF MetricsInvariant, CallStamps
  <2> QED  BY <2>1, SMT
<1>3. ASSUME NEW c \in Calls, Accepted(c),
             trace'[BatchOf(LastSlot(c))].start # 0
      PROVE  stamps[c].queued < trace'[BatchOf(LastSlot(c))].start
  <2>1. BatchOf(LastSlot(c)) \in BatchIds
    BY <1>3, CallBatches
  <2>2. stamps[c].queued < clock
    BY DEF MetricsInvariant, CallStamps
  <2>3. CASE trace'[BatchOf(LastSlot(c))].start = clock
    BY <2>2, <2>3
  <2>4. CASE trace'[BatchOf(LastSlot(c))].start = trace[BatchOf(LastSlot(c))].start
    BY <1>3, <2>4 DEF MetricsInvariant, CallStamps
  <2> QED  BY <2>1, <2>3, <2>4
<1>4. ASSUME NEW c \in Calls, call[c] = "ok", NEW b \in BatchesOf(c)
      PROVE  output'[b] = "ok" /\ trace'[b].end < stamps[c].processed
  <2>1. Accepted(c)
    BY <1>4 DEF Accepted
  <2>2. b \in BatchIds
    BY <2>1, CallBatches
  <2>3. output[b] = "ok" /\ trace[b].end < stamps[c].processed
    BY <1>4 DEF MetricsInvariant, CallStamps
  <2> QED  BY <2>2, <2>3
<1>5. \A c \in Calls : Accepted(c) =>
          /\ at[c] > stamps[c].first => stamps[c].queuedAt # -1
          /\ stamps[c].queuedAt # -1 => stamps[c].serialized < stamps[c].queued
  BY DEF MetricsInvariant, CallStamps
<1>6. \A c \in Calls : BatchOf(LastSlot(c))' = BatchOf(LastSlot(c))
  BY <1>1 DEF BatchOf
<1> QED  BY <1>1, <1>2, <1>3, <1>4, <1>5, <1>6 DEF CallStamps

LEMMA ClaimStep ==
    ASSUME MetricsInvariant, NEW s \in Sessions, Claim(s)
    PROVE  MetricsInvariant'
<1>1. /\ pc[s] = "await" /\ claimed \in BatchIds /\ batch[s] = -1
      /\ batch' = [batch EXCEPT ![s] = claimed] /\ claimed' = claimed + 1
      /\ UNCHANGED <<metricVars, warmed, callVars, head, written, pc,
                     expected, trace, output, inUse, clock, panicked>>
  BY DEF Claim
<1>2. /\ TypeOK /\ claimed \in Nat /\ head \in Nat /\ claimed # -1
      /\ batch'[s] = claimed /\ \A t \in Sessions \ {s} : batch'[t] = batch[t]
  BY <1>1, SessionTypes DEF TypeOK
<1>3. \A t \in Sessions : batch[t] < claimed /\ batch[t] \in Int
  BY <1>2, SessionTypes, BatchNumber DEF MetricsInvariant, SessionsApart
<1>4. TypeOK'
  <2>1. claimed' \in 0 .. MaxBatches
    BY <1>1, Bounds, SMT DEF BatchIds
  <2>2. batch' \in [Sessions -> BatchIds \cup {-1}]
    BY <1>1, <1>2 DEF TypeOK
  <2> QED  BY <1>1, <1>2, <2>1, <2>2 DEF TypeOK
<1>5. SessionsApart'
  <2>1. \A t \in Sessions : batch'[t] < claimed'
    BY <1>1, <1>2, <1>3, SMT
  <2>2. \A t \in Sessions : pc'[t] # "await" => batch'[t] # -1
    BY <1>1, <1>2 DEF MetricsInvariant, SessionsApart
  <2>3. \A t \in Sessions : batch[t] # claimed
    BY <1>2, <1>3, SMT
  <2>4. \A t, u \in Sessions : batch'[t] = batch'[u] /\ batch'[t] # -1 => t = u
    BY <1>2, <2>3 DEF MetricsInvariant, SessionsApart
  <2>5. Busy' = Busy
    BY <1>1 DEF Busy
  <2> QED  BY <1>1, <2>1, <2>2, <2>4, <2>5 DEF MetricsInvariant, SessionsApart
<1>6. trace[claimed].start = 0 /\ output[claimed] = "none"
  BY <1>1, <1>2, SMT DEF MetricsInvariant, BatchTraces
<1>7. SessionTraces'
  BY <1>1, <1>2, <1>6 DEF MetricsInvariant, SessionTraces
<1>8. BatchTraces'
  <2>1. \A b \in BatchIds : b >= claimed' => b >= claimed
    BY <1>1, <1>2, BatchNumber, SMT
  <2> QED  BY <1>1, <2>1 DEF MetricsInvariant, BatchTraces
<1>9. \A b \in BatchIds : Open(b)' <=> Open(b)
  <2> SUFFICES ASSUME NEW b \in BatchIds PROVE Open(b)' <=> Open(b)
    OBVIOUS
  <2>1. b \in Nat /\ b # -1 /\ (b >= claimed <=> b >= claimed' \/ b = claimed)
    BY <1>1, <1>2, BatchNumber, SMT
  <2>2. (\E t \in Sessions : batch'[t] = b /\ pc'[t] = "await")
          <=> b = claimed \/ \E t \in Sessions : batch[t] = b /\ pc[t] = "await"
    BY <1>1, <1>2, <2>1
  <2> QED  BY <2>1, <2>2 DEF Open
<1>10. /\ CallsApart'
       /\ \A b : TakenIn(b)' = TakenIn(b) /\ CopiedIn(b)' = CopiedIn(b)
  BY <1>1, <1>2, CallsRest
<1>11. BatchesFill'
  <2>1. ASSUME NEW t \in Sessions, pc[t] = "sealed"
        PROVE  expected[t] = Cardinality(TakenIn(batch[t])')
    <3>1. t # s /\ batch'[t] = batch[t]
      BY <1>1, <1>2, <2>1
    <3>2. TakenIn(batch[t])' = TakenIn(batch[t])
      BY <1>1, <1>2, <3>1, CallsRest DEF TakenIn
    <3> QED  BY <2>1, <3>2 DEF MetricsInvariant, BatchesFill
  <2> QED  BY <1>1, <1>9, <1>10, <2>1 DEF MetricsInvariant, BatchesFill
<1>12. CallStamps'
  BY <1>1, <1>2, StampsRest
<1> QED  BY <1>4, <1>5, <1>7, <1>8, <1>10, <1>11, <1>12 DEF MetricsInvariant

\* What the seal expects is what the calls took.
LEMMA ReservedIsTaken ==
    ASSUME MetricsInvariant, NEW b \in BatchIds, Open(b), written[b] > 0
    PROVE  /\ Reserved(b) = Cardinality(TakenIn(b)) /\ Reserved(b) \in 0 .. BatchSize
           /\ b * BatchSize < head
<1>1. b \in Nat /\ head \in Nat /\ TypeOK
  BY BatchNumber, Bounds, SMT DEF MetricsInvariant, TypeOK
<1>2. PICK low, top \in Nat : /\ low = b * BatchSize /\ top = (b + 1) * BatchSize
                              /\ top = low + BatchSize
  BY <1>1, BatchLimits, Bounds, SMT
<1>3. \A i : i \in SlotsOf(b) <=> i \in Nat /\ low <= i /\ i < top
  BY <1>1, <1>2, BatchLimits
<1>4. \A i : i \in TakenIn(b) <=> i \in Nat /\ low <= i /\ i < top /\ i < head
  <2>1. ASSUME NEW i \in TakenIn(b) PROVE i < head
    <3>1. PICK c \in Calls : /\ Accepted(c) /\ i <= LastSlot(c) /\ i \in SlotsOf(b)
      BY DEF TakenIn
    <3>2. LastSlot(c) \in Nat /\ LastSlot(c) < head
      BY <3>1, CallBatches
    <3> QED  BY <1>1, <1>3, <3>1, <3>2, SMT
  <2>2. \A i \in SlotsOf(b) : i < head => i \in TakenIn(b)
    BY DEF MetricsInvariant, BatchesFill
  <2>3. TakenIn(b) \subseteq SlotsOf(b)
    BY DEF TakenIn
  <2> QED  BY <1>3, <2>1, <2>2, <2>3
<1>5. low < head
  <2>1. CopiedIn(b) # {}
    <3>1. written[b] = Cardinality(CopiedIn(b)) /\ written[b] # 0
      BY Bounds, SMT DEF MetricsInvariant, BatchesFill
    <3> QED  BY <3>1, FS_EmptySet
  <2>2. PICK i : i \in TakenIn(b)
    BY <1>1, <2>1, CopiedIsTaken
  <2> QED  BY <1>1, <1>2, <1>4, <2>2, SMT
<1>6. PICK end \in Nat : end = IF head < top THEN head ELSE top
  BY <1>1, <1>2
<1>7. Reserved(b) = end - low /\ low < end /\ end - low <= BatchSize
  BY <1>1, <1>2, <1>5, <1>6, Bounds, SMT DEF Reserved
<1>8. TakenIn(b) = low .. end - 1
  <2>1. \A i : i \in low .. end - 1 <=> i \in Nat /\ low <= i /\ i < top /\ i < head
    BY <1>1, <1>2, <1>6, SMT
  <2> QED  BY <1>4, <2>1
<1>9. Cardinality(low .. end - 1) = end - low
  <2>1. PICK lo \in Int, hi \in Int : lo = low /\ hi = end - 1
    BY <1>2, <1>6, SMT
  <2>2. ~(lo > hi) /\ hi - lo + 1 = end - low
    BY <1>2, <1>6, <1>7, <2>1, SMT
  <2> QED  BY <2>1, <2>2, FS_Interval
<1>10. Reserved(b) = Cardinality(TakenIn(b))
  BY <1>7, <1>8, <1>9
<1>11. Reserved(b) \in 0 .. BatchSize
  BY <1>2, <1>6, <1>7, Bounds, SMT
<1> QED  BY <1>2, <1>5, <1>10, <1>11

LEMMA SealStep ==
    ASSUME MetricsInvariant, NEW s \in Sessions, Seal(s)
    PROVE  MetricsInvariant'
<1>1. PICK b : b = batch[s]
  OBVIOUS
<1>2. /\ pc[s] = "await" /\ b # -1 /\ written[b] > 0
      /\ expected' = [expected EXCEPT ![s] = Reserved(b)]
      /\ head' = IF head < (b + 1) * BatchSize THEN (b + 1) * BatchSize ELSE head
      /\ pc' = [pc EXCEPT ![s] = "sealed"]
      /\ UNCHANGED <<metricVars, warmed, callVars, written, batch, trace,
                     output, inUse, claimed, clock, panicked>>
  BY <1>1 DEF Seal
<1>3. /\ TypeOK /\ b \in BatchIds /\ b \in Nat /\ b < claimed /\ head \in Nat
      /\ claimed \in Nat /\ \A t \in Sessions \ {s} : batch[t] # b
  BY <1>1, <1>2, SessionTypes
<1>4. Open(b)
  BY <1>1, <1>2 DEF Open
<1>5. /\ Reserved(b) = Cardinality(TakenIn(b)) /\ Reserved(b) \in 0 .. BatchSize
      /\ b * BatchSize < head
  BY <1>2, <1>3, <1>4, ReservedIsTaken
<1>6. PICK top \in Nat : top = (b + 1) * BatchSize
  BY <1>3, Bounds, SMT
<1>7. head' \in Nat /\ head <= head' /\ top <= head' /\ head' <= Capacity
  <2>1. top <= Capacity /\ head <= Capacity
    BY <1>3, <1>6, BatchLimits, Bounds, SMT DEF TypeOK
  <2> QED  BY <1>2, <1>3, <1>6, <2>1, SMT
<1>8. /\ pc'[s] = "sealed" /\ expected'[s] = Reserved(b)
      /\ \A t \in Sessions \ {s} : pc'[t] = pc[t] /\ expected'[t] = expected[t]
  BY <1>2, <1>3 DEF TypeOK
<1>9. TypeOK'
  <2>1. expected' \in [Sessions -> 0 .. BatchSize] /\ head' \in 0 .. Capacity
    BY <1>2, <1>3, <1>5, <1>7, Bounds, SMT DEF TypeOK
  <2>2. pc' \in [Sessions -> {"await", "sealed", "run", "finish1", "finish2",
                              "return"}]
    BY <1>2, <1>3 DEF TypeOK
  <2> QED  BY <1>2, <1>3, <2>1, <2>2 DEF TypeOK
<1>10. SessionsApart'
  <2>1. Busy' = Busy
    BY <1>2, <1>8 DEF Busy
  <2> QED  BY <1>1, <1>2, <1>8, <2>1 DEF MetricsInvariant, SessionsApart
<1>11. SessionTraces'
  BY <1>2, <1>8 DEF MetricsInvariant, SessionTraces
<1>12. BatchTraces'
  BY <1>2 DEF MetricsInvariant, BatchTraces
<1>13. /\ CallsApart'
       /\ \A a : TakenIn(a)' = TakenIn(a) /\ CopiedIn(a)' = CopiedIn(a)
  BY <1>2, <1>7, CallsRest
<1>14. /\ ~Open(b)'
       /\ \A a \in BatchIds \ {b} : Open(a)' <=> Open(a)
  <2>1. ~(b >= claimed)
    BY <1>3, SMT
  <2> QED  BY <1>1, <1>2, <1>3, <1>8, <2>1 DEF Open
<1>15. BatchesFill'
  <2>1. ASSUME NEW a \in BatchIds, Open(a)', NEW i \in SlotsOf(a), i < head'
        PROVE  i \in TakenIn(a)
    <3>1. a # b /\ a \in Nat /\ Open(a) /\ i \in Nat
      BY <1>14, <2>1, BatchNumber, BatchLimits
    <3>2. i < head
      <4>1. CASE a < b
        <5>1. i < (a + 1) * BatchSize /\ (a + 1) * BatchSize <= b * BatchSize
          BY <1>3, <2>1, <3>1, <4>1, BatchLimits, LaterBatch
        <5>2. (a + 1) * BatchSize \in Nat /\ b * BatchSize \in Nat
          BY <1>3, <3>1, Bounds, SMT
        <5> QED  BY <1>3, <1>5, <3>1, <5>1, <5>2, SMT
      <4>2. CASE b < a
        <5>1. top <= a * BatchSize /\ a * BatchSize <= i /\ a * BatchSize \in Nat
          BY <1>3, <1>6, <2>1, <3>1, <4>2, BatchLimits, LaterBatch
        <5> QED  BY <1>2, <1>3, <1>6, <2>1, <3>1, <5>1, SMT
      <4> QED  BY <1>3, <3>1, <4>1, <4>2, SMT
    <3> QED  BY <2>1, <3>1, <3>2 DEF MetricsInvariant, BatchesFill
  <2>2. ASSUME NEW a \in BatchIds, ~Open(a)'
        PROVE  head' >= (a + 1) * BatchSize
    <3>1. CASE a = b
      BY <1>6, <1>7, <3>1, SMT
    <3>2. CASE a # b
      <4>1. head >= (a + 1) * BatchSize
        BY <1>14, <2>2, <3>2 DEF MetricsInvariant, BatchesFill
      <4>2. (a + 1) * BatchSize \in Nat
        BY BatchNumber, Bounds, SMT
      <4> QED  BY <1>3, <1>7, <4>1, <4>2, SMT
    <3> QED  BY <3>1, <3>2
  <2>3. ASSUME NEW t \in Sessions, pc'[t] = "sealed"
        PROVE  expected'[t] = Cardinality(TakenIn(batch[t]))
    BY <1>1, <1>5, <1>8, <2>3 DEF MetricsInvariant, BatchesFill
  <2>4. \A t \in Sessions : TakenIn(batch[t])' = TakenIn(batch[t])
    BY <1>2, <1>7, CallsRest DEF TakenIn
  <2> QED  BY <1>2, <1>13, <2>1, <2>2, <2>3, <2>4 DEF MetricsInvariant, BatchesFill
<1>16. CallStamps'
  BY <1>2, <1>7, StampsRest
<1> QED  BY <1>9, <1>10, <1>11, <1>12, <1>13, <1>15, <1>16 DEF MetricsInvariant

LEMMA SomeSessions ==
    ASSUME NEW S, S \subseteq Sessions
    PROVE  IsFiniteSet(S) /\ Cardinality(S) \in 0 .. Cardinality(Sessions)
<1>1. IsFiniteSet(S) /\ Cardinality(S) <= Cardinality(Sessions)
  BY Bounds, FS_Subset
<1>2. Cardinality(S) \in Nat
  BY <1>1, FS_CardinalityType
<1> QED  BY <1>1, <1>2, Bounds, SMT

\* A batch starts when all the rows its calls took are copied.
LEMMA StartRunStep ==
    ASSUME MetricsInvariant, NEW s \in Sessions, StartRun(s)
    PROVE  MetricsInvariant'
<1>1. PICK b : b = batch[s]
  OBVIOUS
<1>2. /\ pc[s] = "sealed" /\ written[b] = expected[s]
      /\ trace' = [trace EXCEPT ![b].start = clock, ![b].items = written[b]]
      /\ clock' = clock + 1 /\ inUse' = inUse + 1
      /\ pc' = [pc EXCEPT ![s] = "run"]
      /\ UNCHANGED <<metricVars, warmed, callVars, head, written, batch,
                     expected, output, claimed, panicked>>
  BY <1>1 DEF StartRun, AllWritten
<1>3. /\ TypeOK /\ b \in BatchIds /\ b \in Nat /\ b < claimed /\ head \in Nat
      /\ claimed \in Nat /\ clock \in Nat /\ b # -1
      /\ written[b] \in 0 .. BatchSize
      /\ \A t \in Sessions \ {s} : batch[t] # b
      /\ trace[b].start < clock /\ trace[b].start \in Nat
  BY <1>1, <1>2, SessionTypes
<1>4. /\ trace'[b].start = clock /\ trace'[b].end = trace[b].end
      /\ trace'[b].result = trace[b].result
      /\ \A a \in BatchIds \ {b} : trace'[a] = trace[a]
      /\ trace' \in [BatchIds -> [start : Nat, end : Nat, items : 0 .. BatchSize,
                                  result : {"none", "ok", "err"}]]
  <2> DEFINE Traces == [start : Nat, end : Nat, items : 0 .. BatchSize,
                        result : {"none", "ok", "err"}]
  <2>1. trace \in [BatchIds -> Traces] /\ trace[b] \in Traces
    BY <1>3 DEF TypeOK
  <2>2. PICK new : new = [[trace[b] EXCEPT !.start = clock]
                              EXCEPT !.items = written[b]]
    OBVIOUS
  <2>3. /\ new \in Traces /\ new.start = clock /\ new.end = trace[b].end
        /\ new.result = trace[b].result
    BY <1>3, <2>1, <2>2
  <2>4. trace' = [trace EXCEPT ![b] = new]
    BY <1>2, <2>1, <2>2
  <2> HIDE DEF Traces
  <2>5. trace' \in [BatchIds -> Traces]
    BY <2>1, <2>3, <2>4
  <2>6. trace'[b] = new /\ \A a \in BatchIds \ {b} : trace'[a] = trace[a]
    BY <1>3, <2>1, <2>4
  <2> QED  BY <2>3, <2>5, <2>6 DEF Traces
<1>5. /\ pc'[s] = "run" /\ \A t \in Sessions \ {s} : pc'[t] = pc[t]
  BY <1>2, <1>3 DEF TypeOK
<1>6. Busy' = Busy \cup {s} /\ s \notin Busy
  BY <1>2, <1>5 DEF Busy
<1>7. inUse' = Cardinality(Busy') /\ inUse' \in 0 .. Cardinality(Sessions)
  <2>1. PICK Old, New : Old = Busy /\ New = Busy'
    OBVIOUS
  <2>2. Old \subseteq Sessions /\ New \subseteq Sessions
    BY <2>1 DEF Busy
  <2>3. IsFiniteSet(Old) /\ Cardinality(New) \in 0 .. Cardinality(Sessions)
    BY <2>2, SomeSessions
  <2>4. Cardinality(New) = Cardinality(Old) + 1
    BY <1>6, <2>1, <2>3, FS_AddElement
  <2>5. inUse = Cardinality(Old)
    BY <2>1 DEF MetricsInvariant, SessionsApart
  <2> QED  BY <1>2, <2>1, <2>3, <2>4, <2>5
<1>8. TypeOK'
  <2>1. clock' \in Nat
    BY <1>2, <1>3, SMT
  <2>2. pc' \in [Sessions -> {"await", "sealed", "run", "finish1", "finish2",
                              "return"}]
    BY <1>2, <1>3 DEF TypeOK
  <2> QED  BY <1>2, <1>3, <1>4, <1>7, <2>1, <2>2 DEF TypeOK
<1>9. clock # 0
  BY <1>3, SMT
<1>10. SessionsApart'
  BY <1>1, <1>2, <1>3, <1>5, <1>7 DEF MetricsInvariant, SessionsApart
<1>11. SessionTraces'
  <2>1. ASSUME NEW t \in Sessions, batch[t] # -1
        PROVE  /\ pc'[t] \in {"await", "sealed"} <=> trace'[batch[t]].start = 0
               /\ pc'[t] = "return" <=> output[batch[t]] # "none"
               /\ pc'[t] \in {"finish1", "finish2"}
                    => trace'[batch[t]].result # "none"
               /\ pc'[t] = "finish2"
                    => trace'[batch[t]].start < trace'[batch[t]].end
    <3>1. CASE t = s
      BY <1>1, <1>2, <1>4, <1>5, <1>9, <2>1, <3>1
         DEF MetricsInvariant, SessionTraces
    <3>2. CASE t # s
      <4>1. batch[t] \in BatchIds \ {b}
        BY <1>3, <2>1, <3>2, SessionTypes
      <4> QED  BY <1>4, <1>5, <2>1, <3>2, <4>1 DEF MetricsInvariant, SessionTraces
    <3> QED  BY <3>1, <3>2
  <2> QED  BY <1>2, <2>1 DEF SessionTraces
<1>12. output[b] = "none" /\ trace[b].start = 0
  BY <1>1, <1>2, <1>3 DEF MetricsInvariant, SessionTraces
<1>13. BatchTraces'
  <2>1. ASSUME NEW a \in BatchIds
        PROVE  /\ a >= claimed => trace'[a].start = 0 /\ output[a] = "none"
               /\ output[a] # "none" => /\ trace'[a].start # 0
                                        /\ trace'[a].start < trace'[a].end
               /\ trace'[a].start < clock' /\ trace'[a].end < clock'
    <3>1. /\ a >= claimed => trace[a].start = 0 /\ output[a] = "none"
          /\ output[a] # "none" => /\ trace[a].start # 0
                                   /\ trace[a].start < trace[a].end
          /\ trace[a].start < clock /\ trace[a].end < clock
          /\ trace[a].start \in Nat /\ trace[a].end \in Nat
      BY <1>3 DEF MetricsInvariant, BatchTraces, TypeOK
    <3>2. trace[a].start < clock + 1 /\ trace[a].end < clock + 1 /\ clock < clock + 1
      BY <1>3, <3>1, SMT
    <3>3. ~(b >= claimed)
      BY <1>3, SMT
    <3>4. CASE a = b
      BY <1>2, <1>4, <1>12, <3>2, <3>3, <3>4
    <3>5. CASE a # b
      BY <1>2, <1>4, <3>1, <3>2, <3>5
    <3> QED  BY <3>4, <3>5
  <2> QED  BY <1>2, <2>1 DEF BatchTraces
<1>14. /\ CallsApart'
       /\ \A a : TakenIn(a)' = TakenIn(a) /\ CopiedIn(a)' = CopiedIn(a)
  BY <1>2, <1>3, CallsRest
<1>15. \A a : Open(a)' <=> Open(a)
  BY <1>2, <1>5 DEF Open
<1>16. TakenIn(b) = CopiedIn(b)
  <2>1. PICK T, C : T = TakenIn(b) /\ C = CopiedIn(b)
    OBVIOUS
  <2>2. C \subseteq T
    BY <1>3, <2>1, CopiedIsTaken
  <2>3. IsFiniteSet(T)
    BY <1>3, <2>1, SlotsFinite DEF TakenIn
  <2>4. Cardinality(C) = Cardinality(T)
    BY <1>1, <1>2, <1>3, <2>1 DEF MetricsInvariant, BatchesFill
  <2>5. C = T
    BY <2>2, <2>3, <2>4, FS_Subset
  <2> QED  BY <2>1, <2>5
<1>17. BatchesFill'
  <2>1. \A a \in BatchIds : trace'[a].start # 0 => TakenIn(a) = CopiedIn(a)
    BY <1>4, <1>16 DEF MetricsInvariant, BatchesFill
  <2>2. \A t \in Sessions : /\ TakenIn(batch[t])' = TakenIn(batch[t])
                            /\ pc'[t] = "sealed" => pc[t] = "sealed"
    BY <1>2, <1>3, <1>5, CallsRest DEF TakenIn
  <2> QED  BY <1>2, <1>14, <1>15, <2>1, <2>2 DEF MetricsInvariant, BatchesFill
<1>18. CallStamps'
  BY <1>2, <1>3, <1>4, StampsRest
<1> QED  BY <1>8, <1>10, <1>11, <1>13, <1>14, <1>17, <1>18 DEF MetricsInvariant

\* A trace gets one new field, by the session that holds its batch.
LEMMA OneTrace ==
    ASSUME TypeOK, NEW b \in BatchIds, NEW new,
           new \in [start : Nat, end : Nat, items : 0 .. BatchSize,
                    result : {"none", "ok", "err"}],
           trace' = [trace EXCEPT ![b] = new]
    PROVE  /\ trace' \in [BatchIds -> [start : Nat, end : Nat,
                                       items : 0 .. BatchSize,
                                       result : {"none", "ok", "err"}]]
           /\ trace'[b] = new /\ \A a \in BatchIds \ {b} : trace'[a] = trace[a]
<1> DEFINE Traces == [start : Nat, end : Nat, items : 0 .. BatchSize,
                      result : {"none", "ok", "err"}]
<1>1. trace \in [BatchIds -> Traces] /\ new \in Traces
  BY DEF TypeOK
<1> HIDE DEF Traces
<1>2. /\ trace' \in [BatchIds -> Traces]
      /\ trace'[b] = new /\ \A a \in BatchIds \ {b} : trace'[a] = trace[a]
  BY <1>1
<1> QED  BY <1>2 DEF Traces

LEMMA RunStep ==
    ASSUME MetricsInvariant, NEW s \in Sessions, Run(s)
    PROVE  MetricsInvariant'
<1>1. PICK b : b = batch[s]
  OBVIOUS
<1>2. PICK ok \in BOOLEAN :
        /\ local' = Observed(s, ObservedOf(ok), "none", 0)
        /\ trace' = [trace EXCEPT ![b].result = IF ok THEN "ok" ELSE "err"]
  BY <1>1 DEF Run
<1>3. /\ pc[s] = "run" /\ pc' = [pc EXCEPT ![s] = "finish1"]
      /\ UNCHANGED <<registry, gauge, warmed, callVars, head, written, batch,
                     expected, output, inUse, claimed, clock, panicked>>
  BY DEF Run
<1>4. /\ TypeOK /\ s \in Threads /\ b \in BatchIds /\ b \in Nat /\ head \in Nat
      /\ clock \in Nat /\ b # -1
      /\ \A t \in Sessions \ {s} : batch[t] # b
  BY <1>1, <1>3, SessionTypes
<1>5. /\ trace'[b].start = trace[b].start /\ trace'[b].end = trace[b].end
      /\ trace'[b].result # "none"
      /\ \A a \in BatchIds \ {b} : trace'[a] = trace[a]
      /\ trace' \in [BatchIds -> [start : Nat, end : Nat, items : 0 .. BatchSize,
                                  result : {"none", "ok", "err"}]]
  <2>1. PICK new : new = [trace[b] EXCEPT !.result = IF ok THEN "ok" ELSE "err"]
    OBVIOUS
  <2>2. trace[b] \in [start : Nat, end : Nat, items : 0 .. BatchSize,
                      result : {"none", "ok", "err"}]
    BY <1>4 DEF TypeOK
  <2>3. /\ new \in [start : Nat, end : Nat, items : 0 .. BatchSize,
                    result : {"none", "ok", "err"}]
        /\ new.start = trace[b].start /\ new.end = trace[b].end
        /\ new.result # "none"
    BY <2>1, <2>2
  <2>4. trace' = [trace EXCEPT ![b] = new]
    BY <1>2, <2>1
  <2> QED  BY <1>4, <2>3, <2>4, OneTrace
<1>6. pc'[s] = "finish1" /\ \A t \in Sessions \ {s} : pc'[t] = pc[t]
  BY <1>3, <1>4 DEF TypeOK
<1>7. TypeOK'
  <2>1. local' \in [Threads -> Counts]
    BY <1>2, <1>4, ObservedTyped
  <2>2. pc' \in [Sessions -> {"await", "sealed", "run", "finish1", "finish2",
                              "return"}]
    BY <1>3, <1>4 DEF TypeOK
  <2> QED  BY <1>3, <1>4, <1>5, <2>1, <2>2 DEF TypeOK
<1>8. SessionsApart'
  <2>1. Busy' = Busy
    BY <1>3, <1>6 DEF Busy
  <2> QED  BY <1>1, <1>3, <1>4, <1>6, <2>1 DEF MetricsInvariant, SessionsApart
<1>9. SessionTraces'
  <2>1. ASSUME NEW t \in Sessions, batch[t] # -1
        PROVE  /\ pc'[t] \in {"await", "sealed"} <=> trace'[batch[t]].start = 0
               /\ pc'[t] = "return" <=> output[batch[t]] # "none"
               /\ pc'[t] \in {"finish1", "finish2"}
                    => trace'[batch[t]].result # "none"
               /\ pc'[t] = "finish2"
                    => trace'[batch[t]].start < trace'[batch[t]].end
    <3>1. CASE t = s
      BY <1>1, <1>3, <1>5, <1>6, <2>1, <3>1 DEF MetricsInvariant, SessionTraces
    <3>2. CASE t # s
      <4>1. batch[t] \in BatchIds \ {b}
        BY <1>4, <2>1, <3>2, SessionTypes
      <4> QED  BY <1>5, <1>6, <2>1, <3>2, <4>1 DEF MetricsInvariant, SessionTraces
    <3> QED  BY <3>1, <3>2
  <2> QED  BY <1>3, <2>1 DEF SessionTraces
<1>10. \A a \in BatchIds : /\ trace'[a].start = trace[a].start
                           /\ trace'[a].end = trace[a].end
  BY <1>5
<1>11. BatchTraces'
  BY <1>3, <1>10 DEF MetricsInvariant, BatchTraces
<1>12. /\ CallsApart'
       /\ \A a : TakenIn(a)' = TakenIn(a) /\ CopiedIn(a)' = CopiedIn(a)
  BY <1>3, <1>4, CallsRest
<1>13. \A a : Open(a)' <=> Open(a)
  BY <1>3, <1>6 DEF Open
<1>14. BatchesFill'
  <2>1. \A t \in Sessions : /\ TakenIn(batch[t])' = TakenIn(batch[t])
                            /\ pc'[t] = "sealed" => pc[t] = "sealed"
    BY <1>3, <1>4, <1>6, CallsRest DEF TakenIn
  <2> QED  BY <1>3, <1>10, <1>12, <1>13, <2>1 DEF MetricsInvariant, BatchesFill
<1>15. CallStamps'
  BY <1>3, <1>4, <1>10, StampsRest
<1> QED  BY <1>7, <1>8, <1>9, <1>11, <1>12, <1>14, <1>15 DEF MetricsInvariant

\* exec_end, the first of the two steps after the run.
LEMMA StampEndStep ==
    ASSUME MetricsInvariant, NEW s \in Sessions, FinishStep(s), pc[s] = "finish1"
    PROVE  MetricsInvariant'
<1>1. PICK b : b = batch[s]
  OBVIOUS
<1>2. /\ trace' = [trace EXCEPT ![b].end = clock] /\ clock' = clock + 1
      /\ pc' = [pc EXCEPT ![s] = "finish2"]
      /\ UNCHANGED <<metricVars, warmed, callVars, head, written, batch,
                     expected, output, inUse, claimed, panicked>>
  BY <1>1 DEF FinishStep, FinishOrder
<1>3. /\ TypeOK /\ b \in BatchIds /\ b \in Nat /\ b < claimed /\ head \in Nat
      /\ claimed \in Nat /\ clock \in Nat /\ b # -1
      /\ \A t \in Sessions \ {s} : batch[t] # b
      /\ trace[b].start < clock
  BY <1>1, SessionTypes
<1>4. /\ trace'[b].start = trace[b].start /\ trace'[b].end = clock
      /\ trace'[b].result = trace[b].result
      /\ \A a \in BatchIds \ {b} : trace'[a] = trace[a]
      /\ trace' \in [BatchIds -> [start : Nat, end : Nat, items : 0 .. BatchSize,
                                  result : {"none", "ok", "err"}]]
  <2>1. PICK new : new = [trace[b] EXCEPT !.end = clock]
    OBVIOUS
  <2>2. trace[b] \in [start : Nat, end : Nat, items : 0 .. BatchSize,
                      result : {"none", "ok", "err"}]
    BY <1>3 DEF TypeOK
  <2>3. /\ new \in [start : Nat, end : Nat, items : 0 .. BatchSize,
                    result : {"none", "ok", "err"}]
        /\ new.start = trace[b].start /\ new.end = clock
        /\ new.result = trace[b].result
    BY <1>3, <2>1, <2>2
  <2>4. trace' = [trace EXCEPT ![b] = new]
    BY <1>2, <2>1
  <2> QED  BY <1>3, <2>3, <2>4, OneTrace
<1>5. pc'[s] = "finish2" /\ \A t \in Sessions \ {s} : pc'[t] = pc[t]
  BY <1>2, <1>3 DEF TypeOK
<1>6. TypeOK'
  <2>1. clock' \in Nat
    BY <1>2, <1>3, SMT
  <2>2. pc' \in [Sessions -> {"await", "sealed", "run", "finish1", "finish2",
                              "return"}]
    BY <1>2, <1>3 DEF TypeOK
  <2> QED  BY <1>2, <1>3, <1>4, <2>1, <2>2 DEF TypeOK
<1>7. SessionsApart'
  <2>1. Busy' = Busy
    BY <1>5 DEF Busy
  <2> QED  BY <1>1, <1>2, <1>3, <1>5, <2>1 DEF MetricsInvariant, SessionsApart
<1>8. SessionTraces'
  <2>1. ASSUME NEW t \in Sessions, batch[t] # -1
        PROVE  /\ pc'[t] \in {"await", "sealed"} <=> trace'[batch[t]].start = 0
               /\ pc'[t] = "return" <=> output[batch[t]] # "none"
               /\ pc'[t] \in {"finish1", "finish2"}
                    => trace'[batch[t]].result # "none"
               /\ pc'[t] = "finish2"
                    => trace'[batch[t]].start < trace'[batch[t]].end
    <3>1. CASE t = s
      BY <1>1, <1>3, <1>4, <1>5, <2>1, <3>1 DEF MetricsInvariant, SessionTraces
    <3>2. CASE t # s
      <4>1. batch[t] \in BatchIds \ {b}
        BY <1>3, <2>1, <3>2, SessionTypes
      <4> QED  BY <1>4, <1>5, <2>1, <3>2, <4>1 DEF MetricsInvariant, SessionTraces
    <3> QED  BY <3>1, <3>2
  <2> QED  BY <1>2, <2>1 DEF SessionTraces
<1>9. output[b] = "none"
  BY <1>1, <1>3 DEF MetricsInvariant, SessionTraces, TypeOK
<1>10. \A a \in BatchIds : trace'[a].start = trace[a].start
  BY <1>4
<1>11. BatchTraces'
  <2>1. ASSUME NEW a \in BatchIds
        PROVE  /\ a >= claimed => trace'[a].start = 0 /\ output[a] = "none"
               /\ output[a] # "none" => /\ trace'[a].start # 0
                                        /\ trace'[a].start < trace'[a].end
               /\ trace'[a].start < clock' /\ trace'[a].end < clock'
    <3>1. /\ a >= claimed => trace[a].start = 0 /\ output[a] = "none"
          /\ output[a] # "none" => /\ trace[a].start # 0
                                   /\ trace[a].start < trace[a].end
          /\ trace[a].start < clock /\ trace[a].end < clock
          /\ trace[a].start \in Nat /\ trace[a].end \in Nat
      BY <1>3 DEF MetricsInvariant, BatchTraces, TypeOK
    <3>2. trace[a].start < clock + 1 /\ trace[a].end < clock + 1 /\ clock < clock + 1
      BY <1>3, <3>1, SMT
    <3>3. CASE a = b
      BY <1>2, <1>4, <1>9, <3>1, <3>2, <3>3
    <3>4. CASE a # b
      BY <1>2, <1>4, <3>1, <3>2, <3>4
    <3> QED  BY <3>3, <3>4
  <2> QED  BY <1>2, <2>1 DEF BatchTraces
<1>12. /\ CallsApart'
       /\ \A a : TakenIn(a)' = TakenIn(a) /\ CopiedIn(a)' = CopiedIn(a)
  BY <1>2, <1>3, CallsRest
<1>13. \A a : Open(a)' <=> Open(a)
  BY <1>2, <1>5 DEF Open
<1>14. BatchesFill'
  <2>1. \A t \in Sessions : /\ TakenIn(batch[t])' = TakenIn(batch[t])
                            /\ pc'[t] = "sealed" => pc[t] = "sealed"
    BY <1>2, <1>3, <1>5, CallsRest DEF TakenIn
  <2> QED  BY <1>2, <1>10, <1>12, <1>13, <2>1 DEF MetricsInvariant, BatchesFill
<1>15. CallStamps'
  <2>1. \A a \in BatchIds : output[a] = "ok" => trace'[a].end = trace[a].end
    BY <1>4, <1>9
  <2> QED  BY <1>2, <1>3, <1>10, <2>1, StampsRest
<1> QED  BY <1>6, <1>7, <1>8, <1>11, <1>12, <1>14, <1>15 DEF MetricsInvariant

\* The output cell, the second of the two steps after the run.
LEMMA HandOutStep ==
    ASSUME MetricsInvariant, NEW s \in Sessions, FinishStep(s), pc[s] = "finish2"
    PROVE  MetricsInvariant'
<1>1. PICK b : b = batch[s]
  OBVIOUS
<1>2. /\ output' = [output EXCEPT ![b] = trace[b].result]
      /\ pc' = [pc EXCEPT ![s] = "return"]
      /\ UNCHANGED <<metricVars, warmed, callVars, head, written, batch, trace,
                     expected, clock, inUse, claimed, panicked>>
  BY <1>1 DEF FinishStep, FinishOrder
<1>3. /\ TypeOK /\ b \in BatchIds /\ b \in Nat /\ b < claimed /\ head \in Nat
      /\ claimed \in Nat /\ clock \in Nat /\ b # -1
      /\ \A t \in Sessions \ {s} : batch[t] # b
  BY <1>1, SessionTypes
<1>4. /\ trace[b].start # 0 /\ trace[b].start < trace[b].end
      /\ trace[b].result # "none" /\ output[b] = "none"
  BY <1>1, <1>3 DEF MetricsInvariant, SessionTraces
<1>5. /\ pc'[s] = "return" /\ \A t \in Sessions \ {s} : pc'[t] = pc[t]
      /\ output'[b] # "none" /\ \A a \in BatchIds \ {b} : output'[a] = output[a]
  BY <1>2, <1>3, <1>4 DEF TypeOK
<1>6. TypeOK'
  <2>1. pc' \in [Sessions -> {"await", "sealed", "run", "finish1", "finish2",
                              "return"}]
    BY <1>2, <1>3 DEF TypeOK
  <2>2. trace[b].result \in {"none", "ok", "err"}
    BY <1>3 DEF TypeOK
  <2>3. output' \in [BatchIds -> {"none", "ok", "err"}]
    BY <1>2, <1>3, <2>2 DEF TypeOK
  <2> QED  BY <1>2, <1>3, <2>1, <2>3 DEF TypeOK
<1>7. SessionsApart'
  <2>1. Busy' = Busy
    BY <1>5 DEF Busy
  <2> QED  BY <1>1, <1>2, <1>3, <1>5, <2>1 DEF MetricsInvariant, SessionsApart
<1>8. SessionTraces'
  <2>1. ASSUME NEW t \in Sessions, batch[t] # -1
        PROVE  /\ pc'[t] \in {"await", "sealed"} <=> trace[batch[t]].start = 0
               /\ pc'[t] = "return" <=> output'[batch[t]] # "none"
               /\ pc'[t] \in {"finish1", "finish2"}
                    => trace[batch[t]].result # "none"
               /\ pc'[t] = "finish2" => trace[batch[t]].start < trace[batch[t]].end
    <3>1. CASE t = s
      BY <1>1, <1>4, <1>5, <3>1
    <3>2. CASE t # s
      <4>1. batch[t] \in BatchIds \ {b}
        BY <1>3, <2>1, <3>2, SessionTypes
      <4> QED  BY <1>5, <2>1, <3>2, <4>1 DEF MetricsInvariant, SessionTraces
    <3> QED  BY <3>1, <3>2
  <2> QED  BY <1>2, <2>1 DEF SessionTraces
<1>9. BatchTraces'
  <2>1. ~(b >= claimed)
    BY <1>3, SMT
  <2>2. ASSUME NEW a \in BatchIds
        PROVE  /\ a >= claimed => trace[a].start = 0 /\ output'[a] = "none"
               /\ output'[a] # "none" => /\ trace[a].start # 0
                                         /\ trace[a].start < trace[a].end
               /\ trace[a].start < clock /\ trace[a].end < clock
    <3>1. CASE a = b
      BY <1>3, <1>4, <2>1, <3>1 DEF MetricsInvariant, BatchTraces
    <3>2. CASE a # b
      BY <1>5, <3>2 DEF MetricsInvariant, BatchTraces
    <3> QED  BY <3>1, <3>2
  <2> QED  BY <1>2, <2>2 DEF BatchTraces
<1>10. /\ CallsApart'
       /\ \A a : TakenIn(a)' = TakenIn(a) /\ CopiedIn(a)' = CopiedIn(a)
  BY <1>2, <1>3, CallsRest
<1>11. \A a : Open(a)' <=> Open(a)
  BY <1>2, <1>5 DEF Open
<1>12. BatchesFill'
  <2>1. \A t \in Sessions : /\ TakenIn(batch[t])' = TakenIn(batch[t])
                            /\ pc'[t] = "sealed" => pc[t] = "sealed"
    BY <1>2, <1>3, <1>5, CallsRest DEF TakenIn
  <2> QED  BY <1>2, <1>10, <1>11, <2>1 DEF MetricsInvariant, BatchesFill
<1>13. CallStamps'
  <2>1. \A a \in BatchIds : output[a] = "ok" => output'[a] = "ok"
    BY <1>4, <1>5
  <2> QED  BY <1>2, <1>3, <2>1, StampsRest
<1> QED  BY <1>6, <1>7, <1>8, <1>9, <1>10, <1>12, <1>13 DEF MetricsInvariant

LEMMA ReturnStep ==
    ASSUME MetricsInvariant, NEW s \in Sessions, Return(s)
    PROVE  MetricsInvariant'
<1>1. PICK b : b = batch[s]
  OBVIOUS
<1>2. /\ pc[s] = "return" /\ inUse' = inUse - 1
      /\ local' = Observed(s, {"batch_items"}, "item_rows", Items(b))
      /\ batch' = [batch EXCEPT ![s] = -1] /\ pc' = [pc EXCEPT ![s] = "await"]
      /\ UNCHANGED <<registry, gauge, warmed, callVars, head, written, expected,
                     trace, output, claimed, clock, panicked>>
  BY <1>1 DEF Return
<1>3. /\ TypeOK /\ s \in Threads /\ b \in BatchIds /\ head \in Nat
      /\ claimed \in Nat /\ clock \in Nat /\ b # -1
  BY <1>1, <1>2, SessionTypes
<1>4. /\ pc'[s] = "await" /\ batch'[s] = -1
      /\ \A t \in Sessions \ {s} : pc'[t] = pc[t] /\ batch'[t] = batch[t]
  BY <1>2, <1>3 DEF TypeOK
<1>5. Busy' = Busy \ {s} /\ s \in Busy
  BY <1>2, <1>4 DEF Busy
<1>6. inUse' = Cardinality(Busy') /\ inUse' \in 0 .. Cardinality(Sessions)
  <2>1. PICK Old, New : Old = Busy /\ New = Busy'
    OBVIOUS
  <2>2. Old \subseteq Sessions /\ New \subseteq Sessions
    BY <2>1 DEF Busy
  <2>3. IsFiniteSet(Old) /\ Cardinality(New) \in 0 .. Cardinality(Sessions)
    BY <2>2, SomeSessions
  <2>4. Cardinality(New) = Cardinality(Old) - 1
    BY <1>5, <2>1, <2>3, FS_RemoveElement
  <2>5. inUse = Cardinality(Old)
    BY <2>1 DEF MetricsInvariant, SessionsApart
  <2> QED  BY <1>2, <2>1, <2>3, <2>4, <2>5
<1>7. TypeOK'
  <2>1. Items(b) \in Nat
    <3>1. trace[b].items \in 0 .. BatchSize
      BY <1>3 DEF TypeOK
    <3> QED  BY <3>1, Bounds, SMT DEF Items
  <2>2. local' \in [Threads -> Counts]
    BY <1>2, <1>3, <2>1, ObservedTyped
  <2>3. /\ pc' \in [Sessions -> {"await", "sealed", "run", "finish1", "finish2",
                                 "return"}]
        /\ batch' \in [Sessions -> BatchIds \cup {-1}]
    BY <1>2, <1>3 DEF TypeOK
  <2> QED  BY <1>2, <1>3, <1>6, <2>2, <2>3 DEF TypeOK
<1>8. SessionsApart'
  <2>1. ASSUME NEW t \in Sessions
        PROVE  batch'[t] < claimed /\ (pc'[t] # "await" => batch'[t] # -1)
    <3>1. CASE t = s
      BY <1>3, <1>4, <3>1, SMT
    <3>2. CASE t # s
      BY <1>4, <3>2 DEF MetricsInvariant, SessionsApart
    <3> QED  BY <3>1, <3>2
  <2>2. \A t, u \in Sessions : batch'[t] = batch'[u] /\ batch'[t] # -1 => t = u
    BY <1>4 DEF MetricsInvariant, SessionsApart
  <2> QED  BY <1>2, <1>6, <2>1, <2>2 DEF SessionsApart
<1>9. SessionTraces'
  BY <1>2, <1>4 DEF MetricsInvariant, SessionTraces
<1>10. BatchTraces'
  BY <1>2 DEF MetricsInvariant, BatchTraces
<1>11. /\ CallsApart'
       /\ \A a : TakenIn(a)' = TakenIn(a) /\ CopiedIn(a)' = CopiedIn(a)
  BY <1>2, <1>3, CallsRest
<1>12. \A a \in BatchIds : Open(a)' <=> Open(a)
  <2> SUFFICES ASSUME NEW a \in BatchIds PROVE Open(a)' <=> Open(a)
    OBVIOUS
  <2>1. a # -1
    BY BatchNumber, SMT
  <2>2. (\E t \in Sessions : batch'[t] = a /\ pc'[t] = "await")
          <=> \E t \in Sessions : batch[t] = a /\ pc[t] = "await"
    BY <1>2, <1>4, <2>1
  <2> QED  BY <1>2, <2>2 DEF Open
<1>13. BatchesFill'
  <2>1. ASSUME NEW t \in Sessions, pc'[t] = "sealed"
        PROVE  expected[t] = Cardinality(TakenIn(batch[t])')
    <3>1. t # s /\ pc[t] = "sealed"
      BY <1>4, <2>1
    <3>2. TakenIn(batch[t])' = TakenIn(batch[t])
      BY <1>2, <1>3, <1>4, <3>1, CallsRest DEF TakenIn
    <3> QED  BY <3>1, <3>2 DEF MetricsInvariant, BatchesFill
  <2> QED  BY <1>2, <1>11, <1>12, <2>1 DEF MetricsInvariant, BatchesFill
<1>14. CallStamps'
  BY <1>2, <1>3, StampsRest
<1> QED  BY <1>7, <1>8, <1>9, <1>10, <1>11, <1>13, <1>14 DEF MetricsInvariant

-------------------------------------------------------------------------------
(***************************************************************************)
(* What every step keeps.                                                  *)
(***************************************************************************)
LEMMA StepFacts ==
    ASSUME MetricsInvariant, [Next]_vars
    PROVE  /\ MetricsInvariant'
           /\ panicked' = panicked
           /\ \A n \in Series : registry[n] <= registry'[n]
<1>1. TypeOK /\ \A n \in Series : registry[n] \in Nat
  BY DEF MetricsInvariant, TypeOK, Counts
<1>2. \A n \in Series : registry[n] <= registry[n]
  BY <1>1, SMT
<1>3. CASE UNCHANGED vars
  <2>1. TypeOK'
    BY <1>1, <1>3 DEF TypeOK
  <2> QED  BY <1>2, <1>3, <2>1, QuietStep
<1>4. CASE Warmup \/ ReportGauges
  BY <1>2, <1>4, WarmupStep DEF Warmup, ReportGauges
<1>5. ASSUME NEW t \in Threads, Flush(t)
      PROVE  /\ MetricsInvariant' /\ panicked' = panicked
             /\ \A n \in Series : registry[n] <= registry'[n]
  BY <1>5, FlushStep DEF Flush
<1>6. ASSUME NEW c \in Calls, Start(c) \/ Refuse(c) \/ CallStep(c)
      PROVE  /\ MetricsInvariant' /\ panicked' = panicked
             /\ registry' = registry
  <2>1. CASE Start(c)
    BY <2>1, StartStep DEF Start
  <2>2. CASE Refuse(c)
    BY <2>2, RefuseStep DEF Refuse
  <2>3. CASE StampInQueue(c)
    BY <2>3, QueueStep DEF StampInQueue
  <2>4. CASE CopyChunk(c)
    BY <2>4, CopyStep DEF CopyChunk
  <2>5. CASE AnswerOk(c) \/ AnswerError(c)
    BY <2>5, AnswerStep DEF AnswerOk, AnswerError
  <2> QED  BY <1>6, <2>1, <2>2, <2>3, <2>4, <2>5 DEF CallStep
<1>7. ASSUME NEW s \in Sessions, SessionStep(s)
      PROVE  /\ MetricsInvariant' /\ panicked' = panicked
             /\ registry' = registry
  <2>1. CASE Claim(s)
    BY <2>1, ClaimStep DEF Claim
  <2>2. CASE Seal(s)
    BY <2>2, SealStep DEF Seal
  <2>3. CASE StartRun(s)
    BY <2>3, StartRunStep DEF StartRun
  <2>4. CASE Run(s)
    BY <2>4, RunStep DEF Run
  <2>5. CASE FinishStep(s)
    <3>1. pc[s] \in {"finish1", "finish2"}
      BY <2>5 DEF FinishStep
    <3>2. MetricsInvariant'
      BY <2>5, <3>1, StampEndStep, HandOutStep
    <3> QED  BY <2>5, <3>2 DEF FinishStep
  <2>6. CASE Return(s)
    BY <2>6, ReturnStep DEF Return
  <2> QED  BY <1>7, <2>1, <2>2, <2>3, <2>4, <2>5, <2>6 DEF SessionStep
<1>8. CASE Next
  BY <1>2, <1>4, <1>5, <1>6, <1>7, <1>8 DEF Next
<1> QED  BY <1>3, <1>8

LEMMA Invariance == Spec => []MetricsInvariant
<1>1. MetricsInvariant /\ [Next]_vars => MetricsInvariant'
  BY StepFacts
<1> QED  BY InitInvariant, <1>1, PTL DEF Spec

(***************************************************************************)
(* Counts stay counts, no batch gets more rows than it has slots, and as   *)
(* many executors are in use as sessions run, however many calls, cores    *)
(* and sessions there are.                                                 *)
(***************************************************************************)
THEOREM MetricsTypeCorrect == Spec => []TypeOK
<1>1. MetricsInvariant => TypeOK
  BY DEF MetricsInvariant
<1> QED  BY Invariance, <1>1, PTL

(***************************************************************************)
(* record_execution_trace never unwraps a stamp that is not there: the     *)
(* session stamps exec_end before it fills the output cell, and exec_start *)
(* before it runs.                                                         *)
(***************************************************************************)
THEOREM AnswersAlwaysTraced == Spec => []AnswersFindTheirTrace
<1>1. Init => AnswersFindTheirTrace
  BY DEF Init, AnswersFindTheirTrace
<1>2. MetricsInvariant /\ AnswersFindTheirTrace /\ [Next]_vars
        => AnswersFindTheirTrace'
  BY StepFacts DEF AnswersFindTheirTrace
<1> QED  BY Invariance, <1>1, <1>2, PTL DEF Spec

LEMMA OneBatch ==
    ASSUME NEW i \in Nat, NEW j \in Nat, i <= j, Cardinality(i .. j) = 1
    PROVE  i = j
<1>1. PICK lo \in Int, hi \in Int : lo = i /\ hi = j
  BY SMT
<1>2. ~(lo > hi)
  BY <1>1, SMT
<1>3. Cardinality(lo .. hi) = hi - lo + 1
  BY <1>2, FS_Interval
<1> QED  BY <1>1, <1>3, SMT

(***************************************************************************)
(* The six steps of a call in one batch are measured in their order: its   *)
(* last chunk was queued before the session that ran its batch saw all of  *)
(* the reserved rows written, and its answer waits for the output.         *)
(***************************************************************************)
THEOREM StepsInOrder == Spec => []StepsNeverRunBackwards
<1>1. MetricsInvariant => StepsNeverRunBackwards
  <2> SUFFICES ASSUME MetricsInvariant, NEW c \in Calls, call[c] = "ok",
                      Cardinality(BatchesOf(c)) = 1
               PROVE  /\ stamps[c].serialized < stamps[c].queued
                      /\ stamps[c].queued < TraceOf(c).start
                      /\ TraceOf(c).start < TraceOf(c).end
                      /\ TraceOf(c).end < stamps[c].processed
    BY DEF StepsNeverRunBackwards
  <2>1. Accepted(c) /\ TypeOK
    BY DEF Accepted, MetricsInvariant
  <2>2. PICK b : b = BatchOf(stamps[c].first)
    OBVIOUS
  <2>3. BatchOf(LastSlot(c)) = b /\ b \in BatchIds /\ b \in BatchesOf(c)
    <3>1. /\ b \in BatchIds /\ b \in BatchesOf(c) /\ BatchOf(LastSlot(c)) \in BatchIds
          /\ b <= BatchOf(LastSlot(c))
      BY <2>1, <2>2, CallBatches
    <3>2. b \in Nat /\ BatchOf(LastSlot(c)) \in Nat
      BY <3>1, BatchNumber
    <3>3. Cardinality(b .. BatchOf(LastSlot(c))) = 1
      BY <2>2 DEF BatchesOf
    <3> QED  BY <3>1, <3>2, <3>3, OneBatch
  <2>4. output[b] = "ok" /\ trace[b].end < stamps[c].processed
    BY <2>3 DEF MetricsInvariant, CallStamps
  <2>5. trace[b].start # 0 /\ trace[b].start < trace[b].end
    BY <2>3, <2>4 DEF MetricsInvariant, BatchTraces
  <2>6. stamps[c].queuedAt # -1
    <3>1. /\ call[c] # "copying" /\ at[c] \in Nat /\ stamps[c].first \in Nat
          /\ LastSlot(c) \in Nat /\ stamps[c].first <= LastSlot(c)
      BY <2>1, CallNumbers, CallBatches
    <3>2. ~(at[c] <= LastSlot(c))
      BY <2>1, <3>1 DEF MetricsInvariant, CallsApart
    <3>3. at[c] > stamps[c].first
      BY <3>1, <3>2, SMT
    <3> QED  BY <2>1, <3>3 DEF MetricsInvariant, CallStamps
  <2>7. /\ stamps[c].serialized < stamps[c].queued
        /\ stamps[c].queued < trace[b].start
    BY <2>1, <2>3, <2>5, <2>6 DEF MetricsInvariant, CallStamps
  <2> QED  BY <2>2, <2>4, <2>5, <2>7 DEF TraceOf
<1> QED  BY Invariance, <1>1, PTL

(***************************************************************************)
(* A scrape shows no counter or histogram lower than an earlier one did:   *)
(* flush adds to the shared series and takes nothing away.                 *)
(***************************************************************************)
THEOREM ScrapesNeverDecrease == Spec => ScrapesGrow
<1>1. MetricsInvariant /\ [Next]_vars
        => [\A n \in Series : Encoded[n] <= Encoded'[n]]_vars
  BY StepFacts DEF Encoded
<1> QED  BY Invariance, <1>1, PTL DEF Spec, ScrapesGrow

-------------------------------------------------------------------------------
(***************************************************************************)
(* The accounts: what the series add up to, whatever was flushed when.     *)
(***************************************************************************)
Ran(s) == pc[s] \in {"finish1", "finish2", "return"}

\* A run is observed before the batch it ran, by the same session.
SeriesAgree ==
    /\ \A n \in Answered : Total(n) = Total("ok")
    /\ Total("model_session_run") = warmed + Total("model_execution")
    /\ Total("model_execution") <= Total("batch_items")
                + Cardinality({s \in Sessions : Ran(s)})
    /\ Total("model_copies") = IF OnGpu THEN Total("model_session_run") ELSE 0

Returned(b) == b < claimed /\ \A s \in Sessions : batch[s] # b

ItemSlots ==
    {i \in 0 .. Capacity - 1 : Returned(BatchOf(i)) /\ i \in CopiedIn(BatchOf(i))}

\* The items are the slots that were copied in the batches given back.
RowsAgree ==
    /\ \A c \in Calls : ~Accepted(c) => rows[c] = 0
    /\ \A b \in BatchIds : /\ Returned(b) => trace[b].start # 0
                           /\ trace[b].start # 0 => trace[b].items = written[b]
    /\ Total("item_rows") = Cardinality(ItemSlots)
    /\ Total("client_rows") = Cardinality(RowsOf({c \in Calls : call[c] = "ok"}))

LEMMA ThreadsFinite == IsFiniteSet(Threads)
<1>1. IsFiniteSet(Cores) /\ IsFiniteSet(Sessions) /\ IsFiniteSet({Manager})
  BY FiniteLoad, MetricsBounds, FS_Singleton
<1>2. IsFiniteSet(Cores \cup Sessions)
  BY <1>1, FS_Union
<1>3. IsFiniteSet((Cores \cup Sessions) \cup {Manager})
  BY <1>1, <1>2, FS_Union
<1> QED  BY <1>3 DEF Threads

LEMMA TotalUnits ==
    ASSUME TypeOK, NEW n \in Series
    PROVE  /\ [t \in Threads |-> local[t][n]] \in [Threads -> Nat]
           /\ Unflushed(n) = Units(Threads, [t \in Threads |-> local[t][n]])
           /\ Cardinality(Unflushed(n)) \in Nat
           /\ registry[n] \in Nat /\ Total(n) \in Nat
<1> DEFINE f == [t \in Threads |-> local[t][n]]
<1>1. f \in [Threads -> Nat] /\ registry[n] \in Nat
  BY DEF TypeOK, Counts
<1>2. Unflushed(n) = Units(Threads, f)
  BY DEF Unflushed, Units
<1>3. Cardinality(Unflushed(n)) \in Nat
  BY <1>1, <1>2, ThreadsFinite, UnitsFinite
<1>4. Total(n) \in Nat
  BY <1>1, <1>3, SMT DEF Total
<1> QED  BY <1>1, <1>2, <1>3, <1>4

\* A total moves with the registry and with the one thread that counted.
LEMMA TotalMoves ==
    ASSUME TypeOK, TypeOK', NEW n \in Series, NEW t \in Threads,
           \A u \in Threads \ {t} : local'[u][n] = local[u][n]
    PROVE  /\ Total(n) \in Nat /\ Total(n)' \in Nat
           /\ Total(n)' = Total(n) + (registry'[n] - registry[n])
                                   + (local'[t][n] - local[t][n])
<1>1. PICK f : f = [u \in Threads |-> local[u][n]]
  OBVIOUS
<1>2. PICK g : g = [u \in Threads |-> local'[u][n]]
  OBVIOUS
<1>3. /\ f \in [Threads -> Nat] /\ Unflushed(n) = Units(Threads, f)
      /\ registry[n] \in Nat /\ Total(n) \in Nat
  BY <1>1, TotalUnits
<1>4. /\ g \in [Threads -> Nat] /\ Unflushed(n)' = Units(Threads, g)
      /\ registry'[n] \in Nat
  BY <1>2 DEF TypeOK, Counts, Unflushed, Units
<1>5. \A u \in Threads \ {t} : g[u] = f[u]
  BY <1>1, <1>2
<1>6. Cardinality(Units(Threads, g)) = Cardinality(Units(Threads, f)) - f[t] + g[t]
  BY <1>3, <1>4, <1>5, ThreadsFinite, UnitsChange
<1>7. /\ Cardinality(Units(Threads, f)) \in Nat
      /\ Cardinality(Units(Threads, g)) \in Nat
  BY <1>3, <1>4, ThreadsFinite, UnitsFinite
<1>8. /\ Total(n) = registry[n] + Cardinality(Units(Threads, f))
      /\ Total(n)' = registry'[n] + Cardinality(Units(Threads, g))
  BY <1>3, <1>4 DEF Total
<1>9. f[t] = local[t][n] /\ g[t] = local'[t][n] /\ f[t] \in Nat /\ g[t] \in Nat
  BY <1>1, <1>2, <1>3, <1>4
<1> QED  BY <1>3, <1>4, <1>6, <1>7, <1>8, <1>9, SMT

LEMMA TotalRests ==
    ASSUME UNCHANGED <<local, registry>>, NEW n
    PROVE  Total(n)' = Total(n)
BY DEF Total, Unflushed

LEMMA FlushMoves ==
    ASSUME TypeOK, TypeOK', NEW t \in Threads, Flush(t), NEW n \in Series
    PROVE  Total(n)' = Total(n)
<1>1. /\ registry' = [s \in Series |-> registry[s] + local[t][s]]
      /\ local' = [local EXCEPT ![t] = [s \in Series |-> 0]]
  BY DEF Flush, Flushed, Merged
<1>2. local \in [Threads -> Counts]
  BY DEF TypeOK
<1>3. \A u \in Threads \ {t} : local'[u][n] = local[u][n]
  BY <1>1, <1>2
<1>4. /\ local'[t][n] = 0 /\ registry'[n] = registry[n] + local[t][n]
      /\ local[t][n] \in Nat /\ registry[n] \in Nat
  BY <1>1, <1>2 DEF Counts, TypeOK
<1>5. /\ Total(n) \in Nat
      /\ Total(n)' = Total(n) + (registry'[n] - registry[n])
                              + (local'[t][n] - local[t][n])
  BY <1>3, TotalMoves
<1> QED  BY <1>4, <1>5, SMT

\* What one observation adds to the totals.
LEMMA ObservedMoves ==
    ASSUME TypeOK, TypeOK', NEW t \in Threads, NEW names, NEW sum, NEW k \in Nat,
           local' = Observed(t, names, sum, k), registry' = registry
    PROVE  \A n \in Series :
              /\ Total(n) \in Nat
              /\ n \in names => Total(n)' = Total(n) + 1
              /\ n \notin names /\ n = sum => Total(n)' = Total(n) + k
              /\ n \notin names /\ n # sum => Total(n)' = Total(n)
<1> SUFFICES ASSUME NEW n \in Series
             PROVE  /\ Total(n) \in Nat
                    /\ n \in names => Total(n)' = Total(n) + 1
                    /\ n \notin names /\ n = sum => Total(n)' = Total(n) + k
                    /\ n \notin names /\ n # sum => Total(n)' = Total(n)
  OBVIOUS
<1>1. local \in [Threads -> Counts]
  BY DEF TypeOK
<1>2. PICK mine : mine = [s \in Series |->
                             IF s \in names THEN local[t][s] + 1
                             ELSE IF s = sum THEN local[t][s] + k ELSE local[t][s]]
  OBVIOUS
<1>3. local' = [local EXCEPT ![t] = mine]
  BY <1>1, <1>2 DEF Observed
<1>4. /\ local'[t] = mine /\ \A u \in Threads \ {t} : local'[u][n] = local[u][n]
  BY <1>1, <1>3
<1>5. mine[n] = IF n \in names THEN local[t][n] + 1
                ELSE IF n = sum THEN local[t][n] + k ELSE local[t][n]
  BY <1>2
<1>6. local[t][n] \in Nat /\ registry[n] \in Nat
  BY <1>1 DEF TypeOK, Counts
<1>7. /\ Total(n) \in Nat
      /\ Total(n)' = Total(n) + (registry'[n] - registry[n])
                              + (local'[t][n] - local[t][n])
  BY <1>4, TotalMoves
<1>8. local'[t][n] = mine[n] /\ registry'[n] = registry[n]
  BY <1>4
<1>9. Total(n)' = Total(n) + (mine[n] - local[t][n])
  BY <1>6, <1>7, <1>8, <1>5, SMT
<1> QED  BY <1>5, <1>6, <1>7, <1>9, SMT

\* Steps that count nothing, and take no session from between its two
\* observations.
LEMMA SeriesRest ==
    ASSUME SeriesAgree, UNCHANGED <<local, registry, warmed>>,
           \A s \in Sessions : Ran(s)' <=> Ran(s)
    PROVE  SeriesAgree'
<1>1. \A n : Total(n)' = Total(n)
  BY TotalRests
<1>2. {s \in Sessions : Ran(s)'} = {s \in Sessions : Ran(s)}
  OBVIOUS
<1> QED  BY <1>1, <1>2 DEF SeriesAgree

LEMMA RanCount ==
    /\ IsFiniteSet({s \in Sessions : Ran(s)})
    /\ Cardinality({s \in Sessions : Ran(s)}) \in Nat
<1>1. PICK S : S = {s \in Sessions : Ran(s)}
  OBVIOUS
<1>2. IsFiniteSet(S) /\ Cardinality(S) \in Nat
  BY <1>1, SomeSessions, Bounds, SMT
<1> QED  BY <1>1, <1>2

LEMMA FlushSeries ==
    ASSUME TypeOK, TypeOK', SeriesAgree, NEW t \in Threads, Flush(t)
    PROVE  SeriesAgree'
<1>1. \A n \in Series : Total(n)' = Total(n)
  BY FlushMoves
<1>2. {s \in Sessions : Ran(s)'} = {s \in Sessions : Ran(s)}
  BY DEF Flush, Ran
<1>3. warmed' = warmed
  BY DEF Flush
<1> QED  BY <1>1, <1>2, <1>3
         DEF SeriesAgree, Series, Answered, RunTimes, Requests

LEMMA WarmupSeries ==
    ASSUME TypeOK, TypeOK', SeriesAgree, Warmup
    PROVE  SeriesAgree'
<1>1. /\ warmed' = warmed + 1 /\ registry' = registry
      /\ local' = Observed(Manager, RunMetrics, "none", 0)
  BY DEF Warmup
<1>2. Manager \in Threads /\ warmed \in Nat
  BY Bounds, SMT DEF Threads, TypeOK
<1>3. \A n \in Series : /\ Total(n) \in Nat
                        /\ n \in RunMetrics => Total(n)' = Total(n) + 1
                        /\ n \notin RunMetrics => Total(n)' = Total(n)
  BY <1>1, <1>2, ObservedMoves DEF Series, RowSums, Answered, RunTimes, Requests
<1>4. {s \in Sessions : Ran(s)'} = {s \in Sessions : Ran(s)}
  BY DEF Warmup, Ran
<1>5. /\ \A n \in Answered \cup {"ok", "model_execution", "batch_items"} :
            Total(n)' = Total(n) /\ Total(n) \in Nat
      /\ Total("model_session_run") \in Nat
      /\ Total("model_session_run")' = Total("model_session_run") + 1
      /\ Total("model_copies") \in Nat
      /\ Total("model_copies")' = Total("model_copies") + IF OnGpu THEN 1 ELSE 0
  <2>1. /\ Answered \cup {"ok", "model_execution", "batch_items",
                          "model_session_run", "model_copies"} \subseteq Series
        /\ \A n \in Answered \cup {"ok", "model_execution", "batch_items"} :
              n \notin RunMetrics
        /\ "model_session_run" \in RunMetrics
        /\ "model_copies" \in RunMetrics <=> OnGpu
    BY DEF Series, Answered, RunTimes, Requests, RunMetrics
  <2>2. Total("model_copies") \in Nat
    BY <1>3, <2>1
  <2>3. Total("model_copies") + 0 = Total("model_copies")
    BY <2>2, SMT
  <2> QED  BY <1>3, <2>1, <2>2, <2>3
<1>6. /\ \A n \in Answered : Total(n) = Total("ok")
      /\ Total("model_session_run") = warmed + Total("model_execution")
      /\ Total("model_execution") <= Total("batch_items")
                + Cardinality({s \in Sessions : Ran(s)})
      /\ Total("model_copies") = IF OnGpu THEN Total("model_session_run") ELSE 0
  BY DEF SeriesAgree
<1>7. Total("model_session_run")' = warmed' + Total("model_execution")'
  BY <1>1, <1>2, <1>5, <1>6, SMT
<1>8. Total("model_copies")' = IF OnGpu THEN Total("model_session_run")' ELSE 0
  BY <1>5, <1>6, SMT
<1> QED  BY <1>4, <1>5, <1>6, <1>7, <1>8 DEF SeriesAgree

\* A call that is not answered ok is in one counter of its own.
LEMMA RefusedSeries ==
    ASSUME TypeOK, TypeOK', SeriesAgree, NEW c \in Calls,
           Refuse(c) \/ AnswerError(c)
    PROVE  SeriesAgree' /\ Total("item_rows")' = Total("item_rows")
                        /\ Total("client_rows")' = Total("client_rows")
<1>1. PICK answer \in {"resource_exhausted", "error"} :
          local' = Observed(core[c], {answer}, "none", 0)
  BY DEF Refuse, AnswerError
<1>2. registry' = registry /\ warmed' = warmed /\ core[c] \in Threads
  BY MetricsBounds DEF Refuse, AnswerError, TypeOK, Threads
<1>3. \A n \in Series : n # answer => Total(n)' = Total(n)
  BY <1>1, <1>2, ObservedMoves DEF Series, RowSums, Answered, RunTimes, Requests
<1>4. {s \in Sessions : Ran(s)'} = {s \in Sessions : Ran(s)}
  BY DEF Refuse, AnswerError, Ran
<1>5. \A n \in Series \ {"resource_exhausted", "error"} : Total(n)' = Total(n)
  BY <1>1, <1>3
<1>6. Answered \cup {"ok", "model_execution", "batch_items", "model_session_run",
                     "model_copies", "item_rows", "client_rows"}
         \subseteq Series \ {"resource_exhausted", "error"}
  BY DEF Series, Answered, RunTimes, Requests, RowSums
<1> QED  BY <1>2, <1>4, <1>5, <1>6 DEF SeriesAgree

\* A successful answer is in all histograms of answers, with its rows.
LEMMA AnsweredSeries ==
    ASSUME MetricsInvariant, TypeOK', SeriesAgree, NEW c \in Calls, AnswerOk(c),
           panicked' = panicked, ~panicked
    PROVE  /\ SeriesAgree' /\ Total("item_rows")' = Total("item_rows")
           /\ Total("client_rows") \in Nat
           /\ Total("client_rows")' = Total("client_rows") + rows[c]
<1>1. /\ local' = Observed(core[c], {"ok"} \cup Answered, "client_rows", rows[c])
      /\ registry' = registry /\ warmed' = warmed
  BY DEF AnswerOk
<1>2. TypeOK /\ core[c] \in Threads /\ rows[c] \in Nat
  BY MetricsBounds, CallNumbers DEF MetricsInvariant, TypeOK, Threads
<1>3. /\ Answered \cup {"ok", "model_execution", "batch_items",
                        "model_session_run", "model_copies", "item_rows",
                        "client_rows"} \subseteq Series
      /\ \A n \in {"model_execution", "batch_items", "model_session_run",
                   "model_copies", "item_rows"} :
            n \notin {"ok"} \cup Answered /\ n # "client_rows"
      /\ "client_rows" \notin {"ok"} \cup Answered
  BY DEF Series, Answered, RunTimes, Requests, RowSums
<1>4. /\ \A n \in {"ok"} \cup Answered : Total(n)' = Total(n) + 1
      /\ \A n \in {"model_execution", "batch_items", "model_session_run",
                   "model_copies", "item_rows"} : Total(n)' = Total(n)
      /\ Total("client_rows") \in Nat
      /\ Total("client_rows")' = Total("client_rows") + rows[c]
  BY <1>1, <1>2, <1>3, ObservedMoves
<1>5. {s \in Sessions : Ran(s)'} = {s \in Sessions : Ran(s)}
  BY DEF AnswerOk, Ran
<1> QED  BY <1>1, <1>4, <1>5 DEF SeriesAgree

\* A run that succeeded is observed with its parts, and its session is between
\* its two observations from now on.
LEMMA RunSeries ==
    ASSUME MetricsInvariant, TypeOK', SeriesAgree, NEW s \in Sessions, Run(s)
    PROVE  /\ SeriesAgree' /\ Total("item_rows")' = Total("item_rows")
           /\ Total("client_rows")' = Total("client_rows")
<1>1. PICK ok \in BOOLEAN : local' = Observed(s, ObservedOf(ok), "none", 0)
  BY DEF Run
<1>2. /\ registry' = registry /\ warmed' = warmed /\ pc[s] = "run"
      /\ pc' = [pc EXCEPT ![s] = "finish1"]
  BY DEF Run
<1>3. TypeOK /\ s \in Threads /\ warmed \in Nat
  BY SessionTypes, Bounds, SMT DEF TypeOK
<1>4. \A n \in Series : /\ Total(n) \in Nat
                        /\ n \in ObservedOf(ok) => Total(n)' = Total(n) + 1
                        /\ n \notin ObservedOf(ok) => Total(n)' = Total(n)
  BY <1>1, <1>2, <1>3, ObservedMoves
     DEF Series, RowSums, Answered, RunTimes, Requests
<1>5. PICK Old, New : /\ Old = {t \in Sessions : Ran(t)}
                      /\ New = {t \in Sessions : Ran(t)'}
  OBVIOUS
<1>6. New = Old \cup {s} /\ s \notin Old
  BY <1>2, <1>3, <1>5 DEF Ran, TypeOK
<1>7. /\ Cardinality(Old) \in Nat /\ Cardinality(New) = Cardinality(Old) + 1
  <2>1. IsFiniteSet(Old) /\ Cardinality(Old) \in Nat
    BY <1>5, RanCount
  <2> QED  BY <1>6, <2>1, FS_AddElement
<1>8. /\ \A n \in Answered : Total(n) = Total("ok")
      /\ Total("model_session_run") = warmed + Total("model_execution")
      /\ Total("model_execution") <= Total("batch_items") + Cardinality(Old)
      /\ Total("model_copies") = IF OnGpu THEN Total("model_session_run") ELSE 0
  BY <1>5 DEF SeriesAgree
<1>9. /\ Answered \cup {"ok", "model_execution", "batch_items",
                        "model_session_run", "model_copies", "item_rows",
                        "client_rows"} \subseteq Series
      /\ \A n \in Answered \cup {"ok", "batch_items", "item_rows", "client_rows"} :
            n \notin ObservedOf(ok)
      /\ "model_session_run" \in ObservedOf(ok) <=> ok
      /\ "model_execution" \in ObservedOf(ok) <=> ok
      /\ "model_copies" \in ObservedOf(ok) <=> ok /\ OnGpu
  BY DEF Series, Answered, RunTimes, Requests, RowSums, ObservedOf, RunMetrics
<1>10. /\ \A n \in Answered \cup {"ok", "batch_items", "item_rows", "client_rows"} :
             Total(n)' = Total(n)
       /\ Total("batch_items") \in Nat
  BY <1>4, <1>9
<1>11. CASE ok
  <2>1. /\ Total("model_session_run") \in Nat /\ Total("model_execution") \in Nat
        /\ Total("model_session_run")' = Total("model_session_run") + 1
        /\ Total("model_execution")' = Total("model_execution") + 1
    BY <1>4, <1>9, <1>11
  <2>2. Total("model_copies")' = IF OnGpu THEN Total("model_session_run")' ELSE 0
    BY <1>4, <1>8, <1>9, <1>11, <2>1
  <2>3. Total("model_session_run")' = warmed' + Total("model_execution")'
    BY <1>2, <1>3, <1>8, <2>1, SMT
  <2>4. Total("model_execution")' <= Total("batch_items")' + Cardinality(New)
    BY <1>7, <1>8, <1>10, <2>1, SMT
  <2> QED  BY <1>5, <1>8, <1>10, <2>2, <2>3, <2>4 DEF SeriesAgree
<1>12. CASE ~ok
  <2>1. /\ Total("model_session_run")' = Total("model_session_run")
        /\ Total("model_execution")' = Total("model_execution")
        /\ Total("model_copies")' = Total("model_copies")
        /\ Total("model_execution") \in Nat
    BY <1>4, <1>9, <1>12
  <2>2. Total("model_execution")' <= Total("batch_items")' + Cardinality(New)
    BY <1>7, <1>8, <1>10, <2>1, SMT
  <2> QED  BY <1>2, <1>5, <1>8, <1>10, <2>1, <2>2 DEF SeriesAgree
<1> QED  BY <1>11, <1>12

LEMMA ReturnSeries ==
    ASSUME MetricsInvariant, TypeOK', SeriesAgree, NEW s \in Sessions, Return(s)
    PROVE  /\ SeriesAgree' /\ Total("item_rows") \in Nat
           /\ Total("item_rows")' = Total("item_rows") + Items(batch[s])
           /\ Total("client_rows")' = Total("client_rows")
<1>1. /\ local' = Observed(s, {"batch_items"}, "item_rows", Items(batch[s]))
      /\ registry' = registry /\ warmed' = warmed /\ pc[s] = "return"
      /\ pc' = [pc EXCEPT ![s] = "await"]
  BY DEF Return
<1>2. TypeOK /\ s \in Threads /\ batch[s] \in BatchIds
  BY <1>1, SessionTypes
<1>3. PICK k \in Nat : k = Items(batch[s])
  <2>1. trace[batch[s]].items \in 0 .. BatchSize
    BY <1>2 DEF TypeOK
  <2> QED  BY <2>1, Bounds, SMT DEF Items
<1>4. /\ "batch_items" \in Series /\ "item_rows" \in Series
      /\ "model_execution" \in Series /\ "item_rows" \notin {"batch_items"}
      /\ \A n \in Answered \cup {"ok", "model_execution", "model_session_run",
                                 "model_copies", "client_rows"} :
            n \in Series /\ n \notin {"batch_items"} /\ n # "item_rows"
  BY DEF Series, Answered, RunTimes, Requests, RowSums
<1>5. \A n \in Series :
          /\ Total(n) \in Nat
          /\ n \in {"batch_items"} => Total(n)' = Total(n) + 1
          /\ n \notin {"batch_items"} /\ n = "item_rows"
                => Total(n)' = Total(n) + k
          /\ n \notin {"batch_items"} /\ n # "item_rows" => Total(n)' = Total(n)
  BY <1>1, <1>2, <1>3, ObservedMoves
<1>6. \A n \in Answered \cup {"ok", "model_execution", "model_session_run",
                                "model_copies", "client_rows"} :
          Total(n)' = Total(n)
  <2> SUFFICES ASSUME NEW n \in Answered \cup {"ok", "model_execution",
                        "model_session_run", "model_copies", "client_rows"}
               PROVE  Total(n)' = Total(n)
    OBVIOUS
  <2>1. n \in Series /\ n \notin {"batch_items"} /\ n # "item_rows"
    BY <1>4
  <2> QED  BY <1>5, <2>1
<1>7. /\ Total("batch_items") \in Nat /\ Total("model_execution") \in Nat
       /\ Total("batch_items")' = Total("batch_items") + 1
       /\ Total("item_rows") \in Nat
       /\ Total("item_rows")' = Total("item_rows") + k
  BY <1>4, <1>5
<1>8. PICK Old, New : /\ Old = {t \in Sessions : Ran(t)}
                      /\ New = {t \in Sessions : Ran(t)'}
  OBVIOUS
<1>9. New = Old \ {s} /\ s \in Old
  BY <1>1, <1>2, <1>8 DEF Ran, TypeOK
<1>10. /\ Cardinality(Old) \in Nat /\ Cardinality(New) = Cardinality(Old) - 1
  <2>1. IsFiniteSet(Old) /\ Cardinality(Old) \in Nat
    BY <1>8, RanCount
  <2> QED  BY <1>9, <2>1, FS_RemoveElement
<1>11. Total("model_execution")' <= Total("batch_items")' + Cardinality(New)
  <2>1. Total("model_execution") <= Total("batch_items") + Cardinality(Old)
    BY <1>8 DEF SeriesAgree
  <2> QED  BY <1>6, <1>7, <1>10, <2>1, SMT
<1> QED  BY <1>1, <1>3, <1>6, <1>7, <1>8, <1>11 DEF SeriesAgree

\* Batches that ran hold the rows they had.
LEMMA ItemsRest ==
    ASSUME RowsAgree,
           \A b \in BatchIds : Returned(b)' <=> Returned(b),
           \A b \in BatchIds : trace[b].start # 0 =>
               /\ CopiedIn(b)' = CopiedIn(b) /\ written'[b] = written[b]
               /\ trace'[b].start # 0 /\ trace'[b].items = trace[b].items,
           \A b \in BatchIds : trace[b].start = 0 /\ trace'[b].start # 0 =>
               trace'[b].items = written'[b]
    PROVE  /\ ItemSlots' = ItemSlots
           /\ \A b \in BatchIds :
                 /\ Returned(b)' => trace'[b].start # 0
                 /\ trace'[b].start # 0 => trace'[b].items = written'[b]
<1>1. ASSUME NEW b \in BatchIds
      PROVE  /\ Returned(b)' => trace'[b].start # 0
             /\ trace'[b].start # 0 => trace'[b].items = written'[b]
  BY DEF RowsAgree
<1>2. ASSUME NEW i \in 0 .. Capacity - 1
      PROVE  /\ Returned(BatchOf(i))' /\ i \in CopiedIn(BatchOf(i))'
                  <=> Returned(BatchOf(i)) /\ i \in CopiedIn(BatchOf(i))
  <2>1. i \in Nat /\ i < Capacity
    BY Bounds, SMT
  <2>2. PICK b \in BatchIds : b = BatchOf(i)
    BY <2>1, SlotBatch
  <2>3. Returned(b) => CopiedIn(b)' = CopiedIn(b)
    BY DEF RowsAgree
  <2>4. Returned(b)' /\ i \in CopiedIn(b)' <=> Returned(b) /\ i \in CopiedIn(b)
    BY <2>3
  <2>5. BatchOf(i)' = b
    BY <2>2 DEF BatchOf
  <2> QED  BY <2>2, <2>4, <2>5
<1>3. ItemSlots' = ItemSlots
  BY <1>2 DEF ItemSlots, BatchOf
<1> QED  BY <1>1, <1>3

\* A step that counts no rows and answers no call ok.
LEMMA RowsRest ==
    ASSUME RowsAgree, Total("item_rows")' = Total("item_rows"),
           Total("client_rows")' = Total("client_rows"),
           \A c \in Calls : /\ call'[c] = "ok" <=> call[c] = "ok"
                            /\ call[c] = "ok" => rows'[c] = rows[c]
                            /\ ~Accepted(c)' => rows'[c] = 0,
           ItemSlots' = ItemSlots,
           \A b \in BatchIds :
               /\ Returned(b)' => trace'[b].start # 0
               /\ trace'[b].start # 0 => trace'[b].items = written'[b]
    PROVE  RowsAgree'
<1>1. PICK Old, New : /\ Old = {c \in Calls : call[c] = "ok"}
                      /\ New = {c \in Calls : call'[c] = "ok"}
  OBVIOUS
<1>2. New = Old
  BY <1>1
<1>3. RowsOf(New)' = RowsOf(Old)
  BY <1>1, <1>2 DEF RowsOf
<1>4. RowsOf({c \in Calls : call[c] = "ok"})' = RowsOf({c \in Calls : call[c] = "ok"})
  BY <1>1, <1>3
<1> QED  BY <1>4 DEF RowsAgree

\* Steps of series and warmups, and of sessions up to the handing out.
LEMMA SessionRows ==
    ASSUME RowsAgree, UNCHANGED <<callVars, written>>,
           Total("item_rows")' = Total("item_rows"),
           Total("client_rows")' = Total("client_rows"),
           \A b \in BatchIds :
               /\ Returned(b)' <=> Returned(b)
               /\ trace[b].start # 0 => /\ trace'[b].start # 0
                                        /\ trace'[b].items = trace[b].items
               /\ trace[b].start = 0 /\ trace'[b].start # 0 =>
                     trace'[b].items = written'[b]
    PROVE  RowsAgree'
<1>1. \A b : CopiedIn(b)' = CopiedIn(b)
  BY DEF CopiedIn, Accepted
<1>2. \A c \in Calls : Accepted(c)' <=> Accepted(c)
  BY DEF Accepted
<1>3. /\ ItemSlots' = ItemSlots
      /\ \A b \in BatchIds :
            /\ Returned(b)' => trace'[b].start # 0
            /\ trace'[b].start # 0 => trace'[b].items = written'[b]
  BY <1>1, ItemsRest
<1>4. \A c \in Calls : ~Accepted(c)' => rows'[c] = 0
  BY <1>2 DEF RowsAgree
<1> QED  BY <1>3, <1>4, RowsRest

\* Steps of calls leave what ran alone.
LEMMA CallItems ==
    ASSUME RowsAgree, UNCHANGED sessionVars,
           \A b \in BatchIds : trace[b].start # 0 =>
               CopiedIn(b)' = CopiedIn(b) /\ written'[b] = written[b]
    PROVE  /\ ItemSlots' = ItemSlots
           /\ \A b \in BatchIds :
                 /\ Returned(b)' => trace'[b].start # 0
                 /\ trace'[b].start # 0 => trace'[b].items = written'[b]
<1>1. \A b \in BatchIds : Returned(b)' <=> Returned(b)
  BY DEF Returned
<1> QED  BY <1>1, ItemsRest

LEMMA RowsUnits ==
    ASSUME TypeOK, NEW C, C \subseteq Calls
    PROVE  /\ IsFiniteSet(C) /\ [c \in C |-> rows[c]] \in [C -> Nat]
           /\ RowsOf(C) = Units(C, [c \in C |-> rows[c]])
           /\ IsFiniteSet(RowsOf(C)) /\ Cardinality(RowsOf(C)) \in Nat
<1>1. IsFiniteSet(C)
  BY FiniteLoad, FS_Subset
<1>2. PICK f : f = [c \in C |-> rows[c]]
  OBVIOUS
<1>3. f \in [C -> Nat] /\ RowsOf(C) = Units(C, f)
  BY <1>2, CallNumbers DEF RowsOf, Units
<1>4. IsFiniteSet(Units(C, f)) /\ Cardinality(Units(C, f)) \in Nat
  BY <1>1, <1>3, UnitsFinite
<1> QED  BY <1>1, <1>2, <1>3, <1>4

LEMMA SlotRangeFinite ==
    ASSUME NEW S, S \subseteq 0 .. Capacity - 1
    PROVE  IsFiniteSet(S)
<1>1. PICK lo \in Int, hi \in Int : lo = 0 /\ hi = Capacity - 1
  BY Bounds, SMT
<1>2. IsFiniteSet(lo .. hi)
  BY FS_Interval
<1> QED  BY <1>1, <1>2, FS_Subset

\* A call that is refused, stamped, copied or failed.
LEMMA CallStepRows ==
    ASSUME MetricsInvariant, MetricsInvariant', SeriesAgree, RowsAgree,
           NEW c \in Calls, ~panicked,
           Start(c) \/ Refuse(c) \/ StampInQueue(c) \/ CopyChunk(c)
              \/ AnswerError(c)
    PROVE  RowsAgree'
<1>1. TypeOK /\ TypeOK' /\ UNCHANGED sessionVars
  BY DEF MetricsInvariant, Start, Refuse, StampInQueue, CopyChunk, AnswerError
<1>2. /\ Total("item_rows")' = Total("item_rows")
      /\ Total("client_rows")' = Total("client_rows")
  <2>1. CASE Refuse(c) \/ AnswerError(c)
    BY <1>1, <2>1, RefusedSeries
  <2>2. CASE ~(Refuse(c) \/ AnswerError(c))
    <3>1. UNCHANGED <<local, registry>>
      BY <2>2 DEF Start, StampInQueue, CopyChunk
    <3> QED  BY <3>1, TotalRests
  <2> QED  BY <2>1, <2>2
<1>3. /\ \A b \in BatchIds : trace[b].start # 0 =>
            CopiedIn(b)' = CopiedIn(b) /\ written'[b] = written[b]
      /\ \A d \in Calls : /\ call'[d] = "ok" <=> call[d] = "ok"
                          /\ call[d] = "ok" => rows'[d] = rows[d]
                          /\ ~Accepted(d)' => rows'[d] = 0
  <2>1. \A d \in Calls : ~Accepted(d) => rows[d] = 0
    BY DEF RowsAgree
  <2>2. CASE Start(c)
    <3>1. \A b \in BatchIds : CopiedIn(b)' = CopiedIn(b)
      BY <2>2, StartStep
    <3>2. /\ written' = written /\ call[c] = "new" /\ call'[c] = "copying"
          /\ \A d \in Calls \ {c} : call'[d] = call[d] /\ rows'[d] = rows[d]
      BY <1>1, <2>2 DEF Start, TypeOK
    <3>3. Accepted(c)' /\ \A d \in Calls \ {c} : Accepted(d)' <=> Accepted(d)
      BY <3>2 DEF Accepted
    <3> QED  BY <2>1, <3>1, <3>2, <3>3
  <2>3. CASE CopyChunk(c)
    <3>1. \A b \in BatchIds : trace[b].start # 0 =>
            CopiedIn(b)' = CopiedIn(b) /\ written'[b] = written[b]
      BY <2>3, CopyStep
    <3>2. /\ rows' = rows /\ call[c] = "copying" /\ call'[c] \in {"copying", "waiting"}
          /\ \A d \in Calls \ {c} : call'[d] = call[d]
      BY <1>1, <2>3 DEF CopyChunk, TypeOK
    <3>3. \A d \in Calls : Accepted(d)' <=> Accepted(d)
      BY <3>2 DEF Accepted
    <3> QED  BY <2>1, <3>1, <3>2, <3>3
  <2>4. CASE Refuse(c) \/ AnswerError(c)
    <3>1. /\ UNCHANGED <<rows, at, stamps, written>>
          /\ \/ call[c] = "new" /\ call'[c] = "resource_exhausted"
             \/ call[c] = "waiting" /\ call'[c] = "error"
          /\ \A d \in Calls \ {c} : call'[d] = call[d]
      BY <1>1, <2>4 DEF Refuse, AnswerError, TypeOK
    <3>2. \A d \in Calls : Accepted(d)' <=> Accepted(d)
      BY <3>1 DEF Accepted
    <3>3. \A b : CopiedIn(b)' = CopiedIn(b)
      BY <3>1, <3>2, SameSlots
    <3> QED  BY <2>1, <3>1, <3>2, <3>3
  <2>5. CASE StampInQueue(c)
    <3>1. /\ UNCHANGED <<call, rows, at, written>>
          /\ \A d \in Calls : stamps'[d].first = stamps[d].first
      BY <1>1, <2>5 DEF StampInQueue, TypeOK
    <3>2. \A d \in Calls : Accepted(d)' <=> Accepted(d)
      BY <3>1 DEF Accepted
    <3>3. \A b : CopiedIn(b)' = CopiedIn(b)
      BY <3>1, <3>2, SameSlots
    <3> QED  BY <2>1, <3>1, <3>2, <3>3
  <2> QED  BY <2>2, <2>3, <2>4, <2>5
<1>4. /\ ItemSlots' = ItemSlots
      /\ \A b \in BatchIds :
            /\ Returned(b)' => trace'[b].start # 0
            /\ trace'[b].start # 0 => trace'[b].items = written'[b]
  BY <1>1, <1>3, CallItems
<1> QED  BY <1>2, <1>3, <1>4, RowsRest

\* An answer accounts for the rows of its call.
LEMMA AnsweredRowsAgree ==
    ASSUME MetricsInvariant, MetricsInvariant', SeriesAgree, RowsAgree,
           NEW c \in Calls, ~panicked, panicked' = panicked, AnswerOk(c)
    PROVE  RowsAgree'
<1>1. /\ TypeOK /\ TypeOK' /\ UNCHANGED sessionVars
      /\ UNCHANGED <<rows, at, written>> /\ call[c] = "waiting"
      /\ call' = [call EXCEPT ![c] = "ok"]
      /\ stamps' = [stamps EXCEPT ![c].processed = clock]
  BY DEF MetricsInvariant, AnswerOk
<1>2. /\ Total("item_rows")' = Total("item_rows")
      /\ Total("client_rows") \in Nat
      /\ Total("client_rows")' = Total("client_rows") + rows[c]
  BY <1>1, AnsweredSeries
<1>3. /\ call'[c] = "ok" /\ \A d \in Calls \ {c} : call'[d] = call[d]
      /\ \A d \in Calls : stamps'[d].first = stamps[d].first
  BY <1>1 DEF TypeOK
<1>4. \A d \in Calls : Accepted(d)' <=> Accepted(d)
  BY <1>1, <1>3 DEF Accepted
<1>5. \A b : CopiedIn(b)' = CopiedIn(b)
  BY <1>1, <1>3, <1>4, SameSlots
<1>6. /\ ItemSlots' = ItemSlots
      /\ \A b \in BatchIds :
            /\ Returned(b)' => trace'[b].start # 0
            /\ trace'[b].start # 0 => trace'[b].items = written'[b]
  BY <1>1, <1>5, CallItems
<1>7. PICK Old, New : /\ Old = {d \in Calls : call[d] = "ok"}
                      /\ New = {d \in Calls : call'[d] = "ok"}
  OBVIOUS
<1>8. c \in New /\ Old = New \ {c} /\ New \subseteq Calls
  BY <1>1, <1>3, <1>7
<1>9. Cardinality(RowsOf(New)) = Cardinality(RowsOf(Old)) + rows[c]
  <2>1. PICK f : f = [d \in New |-> rows[d]]
    OBVIOUS
  <2>2. IsFiniteSet(New) /\ f \in [New -> Nat] /\ RowsOf(New) = Units(New, f)
    BY <1>1, <1>8, <2>1, RowsUnits
  <2>3. Cardinality(Units(New, f)) = Cardinality(Units(New \ {c}, f)) + f[c]
    BY <1>8, <2>2, UnitsSplit
  <2>4. Units(New \ {c}, f) = RowsOf(Old) /\ f[c] = rows[c]
    BY <1>8, <2>1 DEF Units, RowsOf
  <2> QED  BY <2>2, <2>3, <2>4
<1>10. RowsOf(New)' = RowsOf(New)
  BY <1>1 DEF RowsOf
<1>11. Total("client_rows")' = Cardinality(RowsOf({d \in Calls : call[d] = "ok"})')
  <2>1. Total("client_rows") = Cardinality(RowsOf(Old))
    BY <1>7 DEF RowsAgree
  <2>2. RowsOf({d \in Calls : call[d] = "ok"})' = RowsOf(New)
    BY <1>7, <1>10
  <2> QED  BY <1>2, <1>9, <2>1, <2>2
<1>12. \A d \in Calls : ~Accepted(d)' => rows'[d] = 0
  BY <1>1, <1>4 DEF RowsAgree
<1>13. Total("item_rows")' = Cardinality(ItemSlots')
  BY <1>2, <1>6 DEF RowsAgree
<1> QED  BY <1>6, <1>11, <1>12, <1>13 DEF RowsAgree

\* A batch that is given back accounts for the rows it had.
LEMMA ReturnRows ==
    ASSUME MetricsInvariant, MetricsInvariant', SeriesAgree, RowsAgree,
           NEW s \in Sessions, Return(s)
    PROVE  RowsAgree'
<1>1. PICK b : b = batch[s]
  OBVIOUS
<1>2. /\ TypeOK /\ TypeOK' /\ pc[s] = "return" /\ b \in BatchIds /\ b \in Nat
      /\ b < claimed /\ b # -1 /\ \A t \in Sessions \ {s} : batch[t] # b
  <2>1. pc[s] = "return"
    BY DEF Return
  <2> QED  BY <1>1, <2>1, SessionTypes DEF MetricsInvariant
<1>3. /\ batch' = [batch EXCEPT ![s] = -1]
      /\ UNCHANGED <<callVars, written, trace, claimed>>
  BY DEF Return
<1>4. /\ Total("item_rows") \in Nat
      /\ Total("item_rows")' = Total("item_rows") + Items(b)
      /\ Total("client_rows")' = Total("client_rows")
  BY <1>1, <1>2, ReturnSeries
<1>5. trace[b].start # 0 /\ Items(b) = Cardinality(CopiedIn(b))
  <2>1. trace[b].start # 0
    BY <1>1, <1>2 DEF MetricsInvariant, SessionTraces
  <2>2. trace[b].items = written[b]
    BY <1>2, <2>1 DEF RowsAgree
  <2>3. written[b] = Cardinality(CopiedIn(b))
    BY <1>2 DEF MetricsInvariant, BatchesFill
  <2> QED  BY <2>1, <2>2, <2>3 DEF Items
<1>6. \A a \in BatchIds : Returned(a)' <=> Returned(a) \/ a = b
  <2> SUFFICES ASSUME NEW a \in BatchIds
               PROVE  Returned(a)' <=> Returned(a) \/ a = b
    OBVIOUS
  <2>1. a # -1
    BY BatchNumber, SMT
  <2>2. batch'[s] = -1 /\ \A t \in Sessions \ {s} : batch'[t] = batch[t]
    BY <1>2, <1>3 DEF TypeOK
  <2> QED  BY <1>1, <1>2, <1>3, <2>1, <2>2 DEF Returned
<1>7. ~Returned(b)
  BY <1>1 DEF Returned
<1>8. \A a : CopiedIn(a)' = CopiedIn(a)
  BY <1>3 DEF CopiedIn, Accepted
<1>9. ItemSlots' = ItemSlots \cup CopiedIn(b) /\ ItemSlots \cap CopiedIn(b) = {}
  <2>1. ASSUME NEW i \in CopiedIn(b)
        PROVE  i \in 0 .. Capacity - 1 /\ BatchOf(i) = b
    <3>1. i \in SlotsOf(b)
      BY <2>1 DEF CopiedIn
    <3>2. /\ i \in Nat /\ i < (b + 1) * BatchSize /\ (b + 1) * BatchSize <= Capacity
          /\ (b + 1) * BatchSize \in Nat
      BY <1>2, <3>1, BatchLimits, Bounds, SMT
    <3>3. i \in 0 .. Capacity - 1
      BY <3>2, Bounds, SMT
    <3> QED  BY <1>2, <3>1, <3>2, <3>3, SlotBatch
  <2>2. ASSUME NEW i \in 0 .. Capacity - 1
        PROVE  i \in ItemSlots' <=> i \in ItemSlots \/ i \in CopiedIn(b)
    <3>1. i \in Nat /\ i < Capacity
      BY Bounds, SMT
    <3>2. PICK a \in BatchIds : a = BatchOf(i)
      BY <3>1, SlotBatch
    <3>3. i \in ItemSlots' <=> Returned(a)' /\ i \in CopiedIn(a)'
      BY <3>2 DEF ItemSlots, BatchOf
    <3>4. i \in ItemSlots <=> Returned(a) /\ i \in CopiedIn(a)
      BY <3>2 DEF ItemSlots
    <3>5. i \in CopiedIn(b) => a = b
      BY <2>1, <3>2
    <3> QED  BY <1>6, <1>8, <3>3, <3>4, <3>5
  <2>3. ItemSlots \subseteq 0 .. Capacity - 1 /\ ItemSlots' \subseteq 0 .. Capacity - 1
    BY DEF ItemSlots
  <2>4. \A i \in ItemSlots : Returned(BatchOf(i))
    BY DEF ItemSlots
  <2> QED  BY <1>7, <2>1, <2>2, <2>3, <2>4
<1>10. Cardinality(ItemSlots') = Cardinality(ItemSlots) + Cardinality(CopiedIn(b))
  <2>1. PICK Old, New, Mine : /\ Old = ItemSlots /\ New = ItemSlots'
                              /\ Mine = CopiedIn(b)
    OBVIOUS
  <2>2. IsFiniteSet(Old)
    BY <2>1, SlotRangeFinite DEF ItemSlots
  <2>3. IsFiniteSet(Mine) /\ Cardinality(Mine) \in Nat
    BY <1>2, <2>1, SlotsFinite DEF CopiedIn
  <2>4. Cardinality(Old \cup Mine) = Cardinality(Old) + Cardinality(Mine)
                                        - Cardinality(Old \cap Mine)
    BY <2>2, <2>3, FS_Union
  <2>5. New = Old \cup Mine /\ Cardinality(Old \cap Mine) = 0
    BY <1>9, <2>1, FS_EmptySet
  <2>6. Cardinality(Old) \in Nat
    BY <2>2, FS_CardinalityType
  <2> QED  BY <2>1, <2>3, <2>4, <2>5, <2>6, SMT
<1>11. Total("item_rows")' = Cardinality(ItemSlots')
  BY <1>4, <1>5, <1>10 DEF RowsAgree
<1>12. \A a \in BatchIds :
          /\ Returned(a)' => trace'[a].start # 0
          /\ trace'[a].start # 0 => trace'[a].items = written'[a]
  BY <1>3, <1>5, <1>6 DEF RowsAgree
<1>13. \A c \in Calls : ~Accepted(c)' => rows'[c] = 0
  BY <1>3 DEF RowsAgree, Accepted
<1>14. Total("client_rows")'
         = Cardinality(RowsOf({c \in Calls : call[c] = "ok"})')
  BY <1>3, <1>4 DEF RowsAgree, RowsOf
<1> QED  BY <1>11, <1>12, <1>13, <1>14 DEF RowsAgree

LEMMA AccountsStep ==
    ASSUME MetricsInvariant, MetricsInvariant', [Next]_vars,
           SeriesAgree, RowsAgree
    PROVE  SeriesAgree' /\ RowsAgree'
<1>1. TypeOK /\ TypeOK'
  BY DEF MetricsInvariant
<1>2. ASSUME UNCHANGED <<callVars, written, trace, batch, claimed>>,
             Total("item_rows")' = Total("item_rows"),
             Total("client_rows")' = Total("client_rows")
      PROVE  RowsAgree'
  BY <1>2, SessionRows DEF Returned
<1>3. CASE UNCHANGED vars
  <2>1. /\ Total("item_rows")' = Total("item_rows")
        /\ Total("client_rows")' = Total("client_rows")
    BY <1>3, TotalRests
  <2>2. SeriesAgree'
    BY <1>3, SeriesRest DEF Ran
  <2> QED  BY <1>2, <1>3, <2>1, <2>2
<1>4. CASE Warmup
  <2>1. Manager \in Threads /\ {"item_rows", "client_rows"} \subseteq Series
    BY DEF Threads, Series, RowSums
  <2>2. "item_rows" \notin RunMetrics /\ "client_rows" \notin RunMetrics
    BY DEF RunMetrics
  <2>3. /\ Total("item_rows")' = Total("item_rows")
        /\ Total("client_rows")' = Total("client_rows")
    BY <1>1, <1>4, <2>1, <2>2, ObservedMoves DEF Warmup
  <2>4. RowsAgree'
    BY <1>2, <1>4, <2>3 DEF Warmup
  <2> QED  BY <1>1, <1>4, <2>4, WarmupSeries
<1>5. CASE ReportGauges
  <2>1. UNCHANGED <<local, registry, warmed, callVars, written, trace, batch,
                    claimed, pc>>
    BY <1>5 DEF ReportGauges
  <2>2. SeriesAgree'
    BY <2>1, SeriesRest DEF Ran
  <2> QED  BY <1>2, <2>1, <2>2, TotalRests
<1>6. ASSUME NEW t \in Threads, Flush(t)
      PROVE  SeriesAgree' /\ RowsAgree'
  <2>1. "item_rows" \in Series /\ "client_rows" \in Series
    BY DEF Series, RowSums
  <2>2. /\ Total("item_rows")' = Total("item_rows")
        /\ Total("client_rows")' = Total("client_rows")
    BY <1>1, <1>6, <2>1, FlushMoves
  <2>3. RowsAgree'
    BY <1>2, <1>6, <2>2 DEF Flush
  <2> QED  BY <1>1, <1>6, <2>3, FlushSeries
<1>7. ASSUME NEW c \in Calls, Start(c) \/ Refuse(c) \/ CallStep(c), ~panicked
      PROVE  SeriesAgree' /\ RowsAgree'
  <2>1. CASE Start(c) \/ StampInQueue(c) \/ CopyChunk(c)
    <3>1. UNCHANGED <<local, registry, warmed, pc>>
      BY <2>1 DEF Start, StampInQueue, CopyChunk
    <3>2. SeriesAgree'
      BY <3>1, SeriesRest DEF Ran
    <3> QED  BY <1>7, <2>1, <3>2, CallStepRows
  <2>2. CASE Refuse(c) \/ AnswerError(c)
    BY <1>1, <1>7, <2>2, RefusedSeries, CallStepRows
  <2>3. CASE AnswerOk(c)
    <3>1. panicked' = panicked
      BY <2>3, AnswerStep
    <3> QED  BY <1>1, <1>7, <2>3, <3>1, AnsweredSeries, AnsweredRowsAgree
  <2> QED  BY <1>7, <2>1, <2>2, <2>3 DEF CallStep
<1>8. ASSUME NEW s \in Sessions, SessionStep(s)
      PROVE  SeriesAgree' /\ RowsAgree'
  <2>1. CASE Claim(s)
    <3>1. /\ UNCHANGED <<local, registry, warmed, callVars, written, trace, pc>>
          /\ claimed \in BatchIds /\ batch[s] = -1
          /\ batch' = [batch EXCEPT ![s] = claimed] /\ claimed' = claimed + 1
      BY <2>1 DEF Claim
    <3>2. SeriesAgree'
      BY <3>1, SeriesRest DEF Ran
    <3>3. \A b \in BatchIds : Returned(b)' <=> Returned(b)
      <4> SUFFICES ASSUME NEW b \in BatchIds PROVE Returned(b)' <=> Returned(b)
        OBVIOUS
      <4>1. b # -1 /\ (b < claimed' <=> b < claimed \/ b = claimed)
            /\ ~(claimed < claimed)
        BY <3>1, BatchNumber, SMT
      <4>2. batch'[s] = claimed /\ \A t \in Sessions \ {s} : batch'[t] = batch[t]
        BY <1>1, <3>1 DEF TypeOK
      <4> QED  BY <3>1, <4>1, <4>2 DEF Returned
    <3>4. RowsAgree'
      BY <3>1, <3>3, TotalRests, SessionRows
    <3> QED  BY <3>2, <3>4
  <2>2. CASE Seal(s)
    <3>1. /\ UNCHANGED <<local, registry, warmed, callVars, written, trace, batch,
                         claimed>>
          /\ pc[s] = "await" /\ pc' = [pc EXCEPT ![s] = "sealed"]
      BY <2>2 DEF Seal
    <3>2. \A t \in Sessions : Ran(t)' <=> Ran(t)
      BY <1>1, <3>1 DEF Ran, TypeOK
    <3>3. SeriesAgree'
      BY <3>1, <3>2, SeriesRest
    <3> QED  BY <1>2, <3>1, <3>3, TotalRests
  <2>3. CASE StartRun(s)
    <3>1. PICK b : b = batch[s]
      OBVIOUS
    <3>2. /\ UNCHANGED <<local, registry, warmed, callVars, written, batch,
                         claimed>>
          /\ pc[s] = "sealed" /\ pc' = [pc EXCEPT ![s] = "run"]
          /\ trace' = [trace EXCEPT ![b].start = clock, ![b].items = written[b]]
      BY <2>3, <3>1 DEF StartRun
    <3>3. b \in BatchIds /\ trace[b].start = 0
      BY <3>1, <3>2, SessionTypes DEF MetricsInvariant, SessionTraces
    <3>4. \A t \in Sessions : Ran(t)' <=> Ran(t)
      BY <1>1, <3>2 DEF Ran, TypeOK
    <3>5. SeriesAgree'
      BY <3>2, <3>4, SeriesRest
    <3>6. /\ trace'[b].items = written[b]
          /\ \A a \in BatchIds \ {b} : trace'[a] = trace[a]
      BY <1>1, <3>2, <3>3 DEF TypeOK
    <3>7. \A a \in BatchIds : Returned(a)' <=> Returned(a)
      BY <3>2 DEF Returned
    <3>8. RowsAgree'
      BY <3>2, <3>3, <3>6, <3>7, TotalRests, SessionRows
    <3> QED  BY <3>5, <3>8
  <2>4. CASE Run(s)
    <3>1. PICK b : b = batch[s]
      OBVIOUS
    <3>2. PICK ok \in BOOLEAN :
              trace' = [trace EXCEPT ![b].result = IF ok THEN "ok" ELSE "err"]
      BY <2>4, <3>1 DEF Run
    <3>3. UNCHANGED <<callVars, written, batch, claimed>> /\ pc[s] = "run"
      BY <2>4 DEF Run
    <3>4. b \in BatchIds
      BY <3>1, <3>3, SessionTypes
    <3>5. \A a \in BatchIds : /\ trace'[a].start = trace[a].start
                              /\ trace'[a].items = trace[a].items
      BY <1>1, <3>2, <3>4 DEF TypeOK
    <3>6. \A a \in BatchIds : Returned(a)' <=> Returned(a)
      BY <3>3 DEF Returned
    <3>7. /\ SeriesAgree' /\ Total("item_rows")' = Total("item_rows")
          /\ Total("client_rows")' = Total("client_rows")
      BY <1>1, <2>4, RunSeries
    <3>8. RowsAgree'
      BY <3>3, <3>5, <3>6, <3>7, SessionRows
    <3> QED  BY <3>7, <3>8
  <2>5. CASE FinishStep(s)
    <3>1. PICK b : b = batch[s]
      OBVIOUS
    <3>2. /\ UNCHANGED <<local, registry, warmed, callVars, written, batch, claimed>>
          /\ pc[s] \in {"finish1", "finish2"}
          /\ pc' = [pc EXCEPT ![s] = IF pc[s] = "finish1" THEN "finish2"
                                     ELSE "return"]
          /\ trace' = [trace EXCEPT ![b].end = clock] \/ trace' = trace
      <4>1. CASE pc[s] = "finish1"
        <5>1. (IF pc[s] = "finish1" THEN 1 ELSE 2) = 1
          BY <4>1
        <5> QED  BY <2>5, <3>1, <4>1, <5>1 DEF FinishStep, FinishOrder, metricVars
      <4>2. CASE pc[s] = "finish2"
        <5>1. (IF pc[s] = "finish1" THEN 1 ELSE 2) = 2
          BY <4>2
        <5> QED  BY <2>5, <3>1, <4>2, <5>1 DEF FinishStep, FinishOrder, metricVars
      <4> QED  BY <2>5, <4>1, <4>2 DEF FinishStep
    <3>3. b \in BatchIds
      BY <3>1, <3>2, SessionTypes
    <3>4. \A a \in BatchIds : /\ trace'[a].start = trace[a].start
                              /\ trace'[a].items = trace[a].items
      BY <1>1, <3>2, <3>3 DEF TypeOK
    <3>5. \A t \in Sessions : Ran(t)' <=> Ran(t)
      BY <1>1, <3>2 DEF Ran, TypeOK
    <3>6. SeriesAgree'
      BY <3>2, <3>5, SeriesRest
    <3>7. \A a \in BatchIds : Returned(a)' <=> Returned(a)
      BY <3>2 DEF Returned
    <3>8. RowsAgree'
      BY <3>2, <3>4, <3>7, TotalRests, SessionRows
    <3> QED  BY <3>6, <3>8
  <2>6. CASE Return(s)
    BY <1>1, <2>6, ReturnSeries, ReturnRows
  <2> QED  BY <1>8, <2>1, <2>2, <2>3, <2>4, <2>5, <2>6 DEF SessionStep
<1>9. CASE Next
  BY <1>4, <1>5, <1>6, <1>7, <1>8, <1>9 DEF Next
<1> QED  BY <1>3, <1>9

LEMMA AccountsInit == Init => SeriesAgree /\ RowsAgree
<1> SUFFICES ASSUME Init PROVE SeriesAgree /\ RowsAgree
  OBVIOUS
<1>1. ASSUME NEW n \in Series PROVE Total(n) = 0
  <2>1. registry[n] = 0 /\ \A t \in Threads : local[t][n] = 0
    BY DEF Init, NoMetrics
  <2>2. 1 .. 0 = {}
    BY SMT
  <2>3. Unflushed(n) = {}
    BY <2>1, <2>2 DEF Unflushed
  <2> QED  BY <2>1, <2>3, FS_EmptySet DEF Total
<1>2. SeriesAgree
  <2>1. {s \in Sessions : Ran(s)} = {}
    BY DEF Init, Ran
  <2>2. Cardinality({s \in Sessions : Ran(s)}) = 0
    BY <2>1, FS_EmptySet
  <2>3. /\ \A n \in Answered : Total(n) = 0
        /\ Total("ok") = 0 /\ Total("model_session_run") = 0
        /\ Total("model_execution") = 0 /\ Total("batch_items") = 0
        /\ Total("model_copies") = 0
    BY <1>1 DEF Series, Answered, RunTimes, Requests
  <2>4. warmed = 0
    BY DEF Init
  <2> QED  BY <2>2, <2>3, <2>4, SMT DEF SeriesAgree
<1>3. RowsAgree
  <2>1. \A b \in BatchIds : ~Returned(b) /\ trace[b].start = 0
    BY BatchNumber, SMT DEF Init, Returned
  <2>2. ItemSlots = {}
    <3>1. \A i \in 0 .. Capacity - 1 : BatchOf(i) \in BatchIds
      BY Bounds, SlotBatch, SMT
    <3> QED  BY <2>1, <3>1 DEF ItemSlots
  <2>3. RowsOf({c \in Calls : call[c] = "ok"}) = {}
    BY DEF Init, RowsOf
  <2>4. Total("item_rows") = 0 /\ Total("client_rows") = 0
    BY <1>1 DEF Series, RowSums
  <2> QED  BY <2>1, <2>2, <2>3, <2>4, FS_EmptySet DEF Init, RowsAgree
<1> QED  BY <1>2, <1>3

LEMMA AccountsKept == Spec => [](SeriesAgree /\ RowsAgree)
<1>1. MetricsInvariant /\ MetricsInvariant' /\ SeriesAgree /\ RowsAgree /\ [Next]_vars
        => SeriesAgree' /\ RowsAgree'
  BY AccountsStep
<1> QED  BY Invariance, AccountsInit, <1>1, PTL DEF Spec

(***************************************************************************)
(* The series agree whatever was flushed when: what one thread observes    *)
(* together stays together in the totals, and a run is observed by the     *)
(* session that observes the batch after it.                               *)
(***************************************************************************)
THEOREM SeriesBalance == Spec => []AccountsBalance
<1>1. MetricsInvariant /\ SeriesAgree => AccountsBalance
  <2> SUFFICES ASSUME MetricsInvariant, SeriesAgree
               PROVE  Total("model_execution") <= Total("batch_items")
                          + Cardinality({s \in Sessions : pc[s] # "await"})
    BY DEF SeriesAgree, AccountsBalance
  <2>1. PICK R, B : /\ R = {s \in Sessions : Ran(s)}
                    /\ B = {s \in Sessions : pc[s] # "await"}
    OBVIOUS
  <2>2. R \subseteq B
    BY <2>1 DEF Ran
  <2>3. IsFiniteSet(B) /\ Cardinality(B) \in Nat
    BY <2>1, SomeSessions, Bounds, SMT
  <2>4. Cardinality(R) <= Cardinality(B)
    BY <2>2, <2>3, FS_Subset
  <2>5. Cardinality(R) \in Nat
    BY <2>1, RanCount
  <2>6. Total("model_execution") \in Nat /\ Total("batch_items") \in Nat
    BY TotalUnits DEF MetricsInvariant, Series, RunTimes
  <2>7. Total("model_execution") <= Total("batch_items") + Cardinality(R)
    BY <2>1 DEF SeriesAgree
  <2> QED  BY <2>1, <2>3, <2>4, <2>5, <2>6, <2>7, SMT
<1> QED  BY Invariance, AccountsKept, <1>1, PTL

\* In a quiet state the slots that were run are those of the calls.
LEMMA QuietSlots ==
    ASSUME MetricsInvariant, RowsAgree, Quiet
    PROVE  Cardinality(ItemSlots) = Cardinality(RowsOf(Calls))
<1>1. TypeOK
  BY DEF MetricsInvariant
<1>2. \A u : u \in RowsOf(Calls) <=>
          \E c \in Calls, k \in Nat : u = <<c, k>> /\ 1 <= k /\ k <= rows[c]
  <2>1. \A c \in Calls : rows[c] \in Nat
    BY <1>1, CallNumbers
  <2>2. \A c \in Calls : \A k : k \in 1 .. rows[c] <=> k \in Nat /\ 1 <= k /\ k <= rows[c]
    BY <2>1, SMT
  <2> QED  BY <2>2 DEF RowsOf
<1>3. ASSUME NEW c \in Calls, NEW k \in Nat, 1 <= k, k <= rows[c]
      PROVE  /\ Accepted(c) /\ stamps[c].first + k - 1 \in ItemSlots
             /\ stamps[c].first <= stamps[c].first + k - 1
             /\ stamps[c].first + k - 1 <= LastSlot(c)
  <2>1. Accepted(c)
    <3>1. rows[c] # 0
      BY <1>1, <1>3, CallNumbers, SMT
    <3> QED  BY <3>1 DEF RowsAgree
  <2>2. PICK i : i = stamps[c].first + k - 1
    OBVIOUS
  <2>3. /\ stamps[c].first \in Nat /\ rows[c] \in Nat /\ LastSlot(c) \in Nat
        /\ LastSlot(c) + 1 = stamps[c].first + rows[c] /\ LastSlot(c) < Capacity
        /\ at[c] \in Nat
    BY <1>1, <2>1, CallNumbers, CallBatches
  <2>4. i \in Nat /\ stamps[c].first <= i /\ i <= LastSlot(c) /\ i < Capacity
    BY <1>3, <2>2, <2>3, Bounds, SMT
  <2>5. call[c] \notin {"copying", "waiting"} /\ call[c] \in {"ok", "error"}
    BY <1>1, <2>1 DEF Quiet, Accepted, TypeOK, Requests
  <2>6. i < at[c]
    <3>1. ~(at[c] <= LastSlot(c))
      BY <2>1, <2>5 DEF MetricsInvariant, CallsApart
    <3> QED  BY <2>3, <2>4, <3>1, SMT
  <2>7. PICK b \in BatchIds : b = BatchOf(i) /\ i \in SlotsOf(b)
    BY <2>4, SlotBatch
  <2>8. i \in CopiedIn(b)
    BY <2>1, <2>4, <2>6, <2>7 DEF CopiedIn
  <2>9. output[b] # "none"
    <3>1. BatchOf(stamps[c].first) <= b /\ b <= BatchOf(LastSlot(c))
      BY <2>3, <2>4, <2>7, BatchOrder
    <3>2. BatchOf(stamps[c].first) \in Nat /\ BatchOf(LastSlot(c)) \in Nat /\ b \in Nat
      BY <2>1, CallBatches, BatchNumber
    <3>3. b \in BatchesOf(c)
      BY <3>1, <3>2, SMT DEF BatchesOf
    <3> QED  BY <2>5, <3>3 DEF Quiet
  <2>10. Returned(b)
    <3>1. ~(b >= claimed)
      BY <2>9 DEF MetricsInvariant, BatchTraces
    <3>2. b < claimed
      BY <1>1, <3>1, BatchNumber, Bounds, SMT DEF TypeOK
    <3>3. b # -1
      BY BatchNumber, SMT
    <3>4. \A s \in Sessions : batch[s] # b
      BY <2>9, <3>3 DEF Quiet, MetricsInvariant, SessionTraces
    <3> QED  BY <3>2, <3>4 DEF Returned
  <2>11. i \in 0 .. Capacity - 1
    BY <2>4, Bounds, SMT
  <2> QED  BY <2>1, <2>2, <2>4, <2>7, <2>8, <2>10, <2>11 DEF ItemSlots
<1>4. ASSUME NEW i \in ItemSlots
      PROVE  \E c \in Calls, k \in Nat :
                1 <= k /\ k <= rows[c] /\ i = stamps[c].first + k - 1
  <2>1. i \in Nat
    BY <1>4, Bounds, SMT DEF ItemSlots
  <2>2. PICK c \in Calls : Accepted(c) /\ stamps[c].first <= i /\ i < at[c]
    BY <1>4 DEF ItemSlots, CopiedIn
  <2>3. at[c] <= LastSlot(c) + 1
    BY <2>2 DEF MetricsInvariant, CallsApart
  <2>4. /\ stamps[c].first \in Nat /\ rows[c] \in Nat /\ at[c] \in Nat
        /\ LastSlot(c) + 1 = stamps[c].first + rows[c]
    BY <1>1, CallNumbers
  <2>5. PICK k \in Int : k = i - stamps[c].first + 1
    BY <2>1, <2>4, SMT
  <2>6. k \in Nat /\ 1 <= k /\ k <= rows[c] /\ i = stamps[c].first + k - 1
    BY <2>1, <2>2, <2>3, <2>4, <2>5, SMT
  <2> QED  BY <2>6
<1> DEFINE f == [u \in RowsOf(Calls) |-> stamps[u[1]].first + u[2] - 1]
<1>5. f \in [RowsOf(Calls) -> ItemSlots]
  BY <1>2, <1>3
<1>6. \A i \in ItemSlots : \E u \in RowsOf(Calls) : f[u] = i
  <2> SUFFICES ASSUME NEW i \in ItemSlots PROVE \E u \in RowsOf(Calls) : f[u] = i
    OBVIOUS
  <2>1. PICK c \in Calls, k \in Nat :
            1 <= k /\ k <= rows[c] /\ i = stamps[c].first + k - 1
    BY <1>4
  <2>2. <<c, k>> \in RowsOf(Calls)
    BY <1>2, <2>1
  <2>3. f[<<c, k>>] = i
    BY <2>1, <2>2
  <2> QED  BY <2>2, <2>3
<1>7. ASSUME NEW u \in RowsOf(Calls), NEW v \in RowsOf(Calls), f[u] = f[v]
      PROVE  u = v
  <2>1. PICK c \in Calls, k \in Nat : u = <<c, k>> /\ 1 <= k /\ k <= rows[c]
    BY <1>2
  <2>2. PICK d \in Calls, l \in Nat : v = <<d, l>> /\ 1 <= l /\ l <= rows[d]
    BY <1>2
  <2>3. stamps[c].first + k - 1 = stamps[d].first + l - 1
    BY <1>7, <2>1, <2>2
  <2>4. stamps[c].first \in Nat /\ stamps[d].first \in Nat
    BY <1>1, CallNumbers
  <2>5. PICK i \in Nat : i = stamps[c].first + k - 1
    BY <2>1, <2>4, SMT
  <2>6. /\ Accepted(c) /\ stamps[c].first <= i /\ i <= LastSlot(c)
        /\ Accepted(d) /\ stamps[d].first <= i /\ i <= LastSlot(d)
    BY <1>3, <2>1, <2>2, <2>3, <2>5
  <2>7. c = d
    BY <2>6, OneOwner
  <2>8. k = l
    BY <2>3, <2>4, <2>7, SMT
  <2> QED  BY <2>1, <2>2, <2>7, <2>8
<1>8. ExistsBijection(RowsOf(Calls), ItemSlots)
  <2> HIDE DEF f
  <2>1. f \in Bijection(RowsOf(Calls), ItemSlots)
    BY <1>5, <1>6, <1>7 DEF Bijection, Injection, Surjection, IsInjective
  <2> QED  BY <2>1 DEF ExistsBijection
<1>9. IsFiniteSet(RowsOf(Calls))
  BY <1>1, RowsUnits
<1> QED  BY <1>8, <1>9, FS_Bijection

(***************************************************************************)
(* Items are rows of calls: when nothing waits, the sessions have observed *)
(* exactly the rows the calls brought, over however many batches each of   *)
(* them was spread and whichever runs failed; and the rows of the answers  *)
(* are those of the calls answered ok, in every state.                     *)
(***************************************************************************)
THEOREM RowsAddUp == Spec => []RowsAccounted
<1>1. MetricsInvariant /\ RowsAgree => RowsAccounted
  BY QuietSlots DEF RowsAgree, RowsAccounted
<1> QED  BY Invariance, AccountsKept, <1>1, PTL
==============================================================================
