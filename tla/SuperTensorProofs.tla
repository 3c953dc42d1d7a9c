--------------------------- MODULE SuperTensorProofs ---------------------------
(***************************************************************************)
(* Proofs about the ring for every batch size, capacity, number of         *)
(* executors and requests, request sizes and outcome of the runs.          *)
(*                                                                         *)
(*   - the index arithmetic of the ring;                                   *)
(*   - TypeOK and ClaimsInRing: every variable keeps to its range, the     *)
(*     tail never passes a batch an executor still works on, and two       *)
(*     executors never share one;                                          *)
(*   - SlotIsolation where no call reserves slots beyond the lap of the    *)
(*     tail: no two requests copy into the same slot, and nobody copies    *)
(*     into a batch that runs.  `infer` compares only the first slot of a  *)
(*     call with the tail, so this holds of every load of one-row calls,   *)
(*     and of larger calls as long as the ring has room for them.          *)
(***************************************************************************)
EXTENDS SuperTensorInv, DataLemmas

-------------------------------------------------------------------------------
(***************************************************************************)
(* Index arithmetic.                                                       *)
(***************************************************************************)

(***************************************************************************)
(* The ring has a positive number of slots (ring_mask + 1).                *)
(***************************************************************************)
LEMMA RingSizePositive == RingSize \in Nat \ {0} /\ RingSize >= BatchSize
<1>1. RingSize \in Nat
  BY BatchSizeAssumption, CapacityAssumption DEF RingSize
<1>2. RingSize >= BatchSize
  BY BatchSizeAssumption, CapacityAssumption, SMT DEF RingSize
<1> QED  BY <1>1, <1>2, BatchSizeAssumption

(***************************************************************************)
(* as_batch_slot_id stays inside the batch.                                *)
(***************************************************************************)
LEMMA SlotIdInRange ==
    ASSUME NEW i \in Nat
    PROVE  SlotId(i) \in SlotIds /\ SlotId(i) \in Nat /\ SlotId(i) <= i
BY BatchSizeAssumption, SMT DEF SlotId, SlotIds

(***************************************************************************)
(* An aligned index is a whole number of batches.                          *)
(***************************************************************************)
LEMMA AlignedIsMultiple ==
    ASSUME NEW i, Aligned(i)
    PROVE  \E k \in Nat : i = k * BatchSize
<1>1. i = BatchSize * (i \div BatchSize) + (i % BatchSize)
  BY BatchSizeAssumption, SMT DEF Aligned
<1>2. i \div BatchSize \in Nat
  BY BatchSizeAssumption, SMT DEF Aligned
<1>3. i % BatchSize = 0
  BY DEF Aligned, SlotId
<1>4. i = (i \div BatchSize) * BatchSize
  BY <1>1, <1>2, <1>3, BatchSizeAssumption, SMT
<1> QED  BY <1>2, <1>4

(***************************************************************************)
(* Every multiple of the batch size is aligned.                            *)
(***************************************************************************)
LEMMA MultipleIsAligned ==
    ASSUME NEW k \in Nat
    PROVE  Aligned(k * BatchSize)
<1>1. k * BatchSize \in Nat
  BY BatchSizeAssumption, SMT
<1>2. (k * BatchSize) % BatchSize = 0
  BY BatchSizeAssumption, SMT
<1> QED  BY <1>1, <1>2 DEF Aligned, SlotId

(***************************************************************************)
(* Multiplication distributes over a division with remainder.              *)
(***************************************************************************)
LEMMA ScaledDivision ==
    ASSUME NEW a \in Nat, NEW b \in Nat, NEW c \in Nat, NEW d \in Nat
    PROVE  (a * b + c) * d = a * (b * d) + c * d
BY SMT

(***************************************************************************)
(* The batch of the k-th multiple of the batch size is k mod Capacity.     *)
(***************************************************************************)
LEMMA BatchIdOfMultiple ==
    ASSUME NEW k \in Nat
    PROVE  BatchId(k * BatchSize) = k % Capacity
<1> DEFINE q == k \div Capacity
           r == k % Capacity
<1>1. q \in Nat /\ r \in 0 .. Capacity - 1 /\ k = q * Capacity + r
  BY CapacityAssumption, SMT
<1> HIDE DEF q, r
<1>2. k * BatchSize = q * RingSize + r * BatchSize
  <2>1. r \in Nat /\ BatchSize \in Nat /\ Capacity \in Nat
    BY <1>1, BatchSizeAssumption, CapacityAssumption
  <2>2. (q * Capacity + r) * BatchSize
            = q * (Capacity * BatchSize) + r * BatchSize
    BY <1>1, <2>1, ScaledDivision
  <2> QED  BY <1>1, <2>2 DEF RingSize
<1>3. r * BatchSize \in Nat /\ r * BatchSize < RingSize
  BY <1>1, BatchSizeAssumption, CapacityAssumption, SMT DEF RingSize
<1>4. (k * BatchSize) % RingSize = r * BatchSize
  <2>1. PICK p \in Int, n \in Nat : p = q /\ n = r * BatchSize
    BY <1>1, <1>3
  <2>2. (p * RingSize + n) % RingSize = n
    BY <1>3, <2>1, RingSizePositive, RemainderUnique
  <2> QED  BY <1>2, <2>1, <2>2
<1>5. (r * BatchSize) \div BatchSize = r
  BY <1>1, BatchSizeAssumption, SMT
<1> QED  BY <1>4, <1>5 DEF BatchId, r

(***************************************************************************)
(* as_batch_id is a batch of the ring.                                     *)
(***************************************************************************)
LEMMA BatchIdInRange ==
    ASSUME NEW i \in Nat
    PROVE  BatchId(i) \in BatchIds
<1> DEFINE slot == i % RingSize
<1>1. slot \in Nat /\ slot < Capacity * BatchSize
  BY RingSizePositive, SMT DEF RingSize
<1> HIDE DEF slot
<1>2. /\ slot \div BatchSize \in Nat
      /\ BatchSize * (slot \div BatchSize) <= slot
  BY <1>1, BatchSizeAssumption, SMT
<1>3. slot \div BatchSize < Capacity
  <2> DEFINE b == slot \div BatchSize
  <2> HIDE DEF b
  <2>1. SUFFICES ASSUME b >= Capacity PROVE FALSE
    BY <1>2, CapacityAssumption, SMT DEF b
  <2>2. BatchSize * b >= BatchSize * Capacity
    BY <1>2, <2>1, BatchSizeAssumption, CapacityAssumption, SMT DEF b
  <2>3. b \in Nat /\ BatchSize * b < BatchSize * Capacity
    BY <1>1, <1>2, BatchSizeAssumption, CapacityAssumption, SMT DEF b
  <2> QED  BY <2>2, <2>3, BatchSizeAssumption, CapacityAssumption, SMT
<1> QED  BY <1>2, <1>3, CapacityAssumption, SMT DEF BatchId, BatchIds, slot

(***************************************************************************)
(* as_absolute_batch_higher_bound lies after the index and starts a batch; *)
(* for the first slot of a batch it is the first slot of the next one.     *)
(***************************************************************************)
LEMMA HigherBoundFacts ==
    ASSUME NEW i \in Nat
    PROVE  /\ LowerBound(i) \in Nat /\ LowerBound(i) <= i
           /\ HigherBound(i) \in Nat /\ i < HigherBound(i)
           /\ SlotId(i) = 0 => /\ LowerBound(i) = i
                               /\ HigherBound(i) = i + BatchSize
BY SlotIdInRange, BatchSizeAssumption, SMT
   DEF LowerBound, HigherBound, SlotIds

(***************************************************************************)
(* The batch after an aligned index is aligned, and two aligned indices    *)
(* are equal or a whole batch apart.                                       *)
(***************************************************************************)
LEMMA AlignedNext ==
    ASSUME NEW i, Aligned(i)
    PROVE  Aligned(i + BatchSize)
<1>1. PICK k \in Nat : i = k * BatchSize
  BY AlignedIsMultiple
<1>2. i + BatchSize = (k + 1) * BatchSize
  BY <1>1, BatchSizeAssumption, SMT
<1> QED  BY <1>2, MultipleIsAligned

LEMMA AlignedApart ==
    ASSUME NEW i, NEW j, Aligned(i), Aligned(j), i < j
    PROVE  i + BatchSize <= j
<1>1. PICK k \in Nat : i = k * BatchSize
  BY AlignedIsMultiple
<1>2. PICK l \in Nat : j = l * BatchSize
  BY AlignedIsMultiple
<1>3. k + 1 <= l
  <2>1. SUFFICES ASSUME l <= k PROVE FALSE
    BY SMT
  <2>2. l * BatchSize <= k * BatchSize
    BY <2>1, BatchSizeAssumption, SMT
  <2> QED  BY <1>1, <1>2, <2>2, BatchSizeAssumption, SMT DEF Aligned
<1>4. (k + 1) * BatchSize <= l * BatchSize
  BY <1>3, BatchSizeAssumption, SMT
<1> QED  BY <1>1, <1>2, <1>4, BatchSizeAssumption, SMT

(***************************************************************************)
(* Of the aligned indices of one batch, the one in the window of a lap     *)
(* that starts at t is the least that is not below t.  So a batch that is  *)
(* claimed at an index at or above the tail is claimed no earlier than its *)
(* place in the lap of the tail.                                           *)
(***************************************************************************)
LEMMA LeastOfBatchInWindow ==
    ASSUME NEW t \in Nat, NEW i, NEW j, Aligned(i), Aligned(j),
           BatchId(i) = BatchId(j), t <= i, i < t + RingSize, t <= j
    PROVE  i <= j
<1>1. PICK k \in Nat : i = k * BatchSize
  BY AlignedIsMultiple
<1>2. PICK l \in Nat : j = l * BatchSize
  BY AlignedIsMultiple
<1>3. k % Capacity = l % Capacity
  BY <1>1, <1>2, BatchIdOfMultiple
<1> SUFFICES ASSUME j < i PROVE FALSE
  BY SMT DEF Aligned
<1>4. l < k
  <2>1. SUFFICES ASSUME k <= l PROVE FALSE
    BY SMT
  <2>2. k * BatchSize <= l * BatchSize
    BY <2>1, BatchSizeAssumption, SMT
  <2> QED  BY <1>1, <1>2, <2>2, BatchSizeAssumption, SMT DEF Aligned
<1>5. l + Capacity <= k
  <2> DEFINE p == k \div Capacity
             q == l \div Capacity
             r == l % Capacity
  <2>1. /\ p \in Nat /\ q \in Nat /\ r \in Nat
        /\ k = Capacity * p + r /\ l = Capacity * q + r
    BY <1>3, CapacityAssumption, SMT
  <2> HIDE DEF p, q, r
  <2>2. q + 1 <= p
    <3>1. SUFFICES ASSUME p <= q PROVE FALSE
      BY <2>1, SMT
    <3>2. Capacity * p <= Capacity * q
      BY <2>1, <3>1, CapacityAssumption, SMT
    <3> QED  BY <1>4, <2>1, <3>2, CapacityAssumption, SMT
  <2>3. Capacity * (q + 1) <= Capacity * p
    BY <2>1, <2>2, CapacityAssumption, SMT
  <2> QED  BY <2>1, <2>3, CapacityAssumption, SMT
<1>6. (l + Capacity) * BatchSize <= k * BatchSize
  BY <1>5, BatchSizeAssumption, CapacityAssumption, SMT
<1>7. j + RingSize <= i
  BY <1>1, <1>2, <1>6, BatchSizeAssumption, CapacityAssumption, SMT
     DEF RingSize
<1> QED  BY <1>7, RingSizePositive, SMT DEF Aligned

(***************************************************************************)
(* One lap later an aligned index is in the same batch again.              *)
(***************************************************************************)
LEMMA BatchOfNextLap ==
    ASSUME NEW i, Aligned(i)
    PROVE  Aligned(i + RingSize) /\ BatchId(i + RingSize) = BatchId(i)
<1>1. PICK k \in Nat : i = k * BatchSize
  BY AlignedIsMultiple
<1>2. i + RingSize = (k + Capacity) * BatchSize
  BY <1>1, BatchSizeAssumption, CapacityAssumption, SMT DEF RingSize
<1>3. (k + Capacity) % Capacity = k % Capacity
  <2> DEFINE q == k \div Capacity
             r == k % Capacity
  <2>1. /\ q \in Nat /\ r \in Nat /\ r < Capacity
        /\ k = Capacity * q + r
    BY CapacityAssumption, SMT
  <2> HIDE DEF q, r
  <2>2. k + Capacity = (q + 1) * Capacity + r
    BY <2>1, CapacityAssumption, SMT
  <2>3. q + 1 \in Nat
    BY <2>1
  <2>4. ((q + 1) * Capacity + r) % Capacity = r
    BY <2>1, <2>3, CapacityAssumption, RemainderUnique
  <2> QED  BY <2>2, <2>4 DEF r
<1>4. k + Capacity \in Nat
  BY CapacityAssumption
<1> QED  BY <1>1, <1>2, <1>3, <1>4, MultipleIsAligned, BatchIdOfMultiple

(***************************************************************************)
(* Every index lies in the batch that begins at its lower bound, and has   *)
(* its batch number.                                                       *)
(***************************************************************************)
LEMMA BatchOfIndex ==
    ASSUME NEW i \in Nat
    PROVE  /\ Aligned(LowerBound(i)) /\ BatchId(LowerBound(i)) = BatchId(i)
           /\ LowerBound(i) <= i /\ i < LowerBound(i) + BatchSize
           /\ HigherBound(i) = LowerBound(i) + BatchSize
           /\ SlotId(i) = i - LowerBound(i)
<1> DEFINE k == i \div BatchSize
           s == i % BatchSize
           q == k \div Capacity
           r == k % Capacity
<1>1. k \in Nat /\ s \in Nat /\ s < BatchSize /\ i = k * BatchSize + s
  BY BatchSizeAssumption, SMT
<1> HIDE DEF k
<1>2. LowerBound(i) = k * BatchSize
  BY <1>1, BatchSizeAssumption, SMT DEF LowerBound, SlotId
<1> HIDE DEF s
<1>3. q \in Nat /\ r \in Nat /\ r + 1 <= Capacity /\ k = q * Capacity + r
  BY <1>1, CapacityAssumption, SMT
<1>4. BatchId(k * BatchSize) = r
  BY <1>1, BatchIdOfMultiple
<1> HIDE DEF q, r
<1>5. k * BatchSize = q * RingSize + r * BatchSize
  BY <1>3, ScaledDivision, BatchSizeAssumption, CapacityAssumption DEF RingSize
<1>6. r * BatchSize \in Nat /\ q * RingSize \in Nat /\ r * BatchSize + s < RingSize
  <2>1. (r + 1) * BatchSize <= Capacity * BatchSize
    BY <1>3, BatchSizeAssumption, CapacityAssumption, SMT
  <2>2. (r + 1) * BatchSize = r * BatchSize + BatchSize
    BY <1>3, BatchSizeAssumption, SMT
  <2>3. r * BatchSize \in Nat /\ q * RingSize \in Nat
    BY <1>3, BatchSizeAssumption, RingSizePositive, SMT
  <2>4. (r + 1) * BatchSize <= RingSize /\ RingSize \in Nat
    BY <2>1, RingSizePositive DEF RingSize
  <2> QED  BY <1>1, <2>2, <2>3, <2>4, BatchSizeAssumption, SMT
<1>7. i = q * RingSize + (r * BatchSize + s)
  BY <1>1, <1>5, <1>6, SMT
<1>8. i % RingSize = r * BatchSize + s
  <2> DEFINE n == r * BatchSize + s
  <2>1. n \in Nat /\ n < RingSize
    BY <1>1, <1>6
  <2> HIDE DEF n
  <2>2. (q * RingSize + n) % RingSize = n
    BY <1>3, <2>1, RingSizePositive, RemainderUnique
  <2> QED  BY <1>7, <2>2 DEF n
<1>9. (r * BatchSize + s) \div BatchSize = r
  <2> DEFINE n == r * BatchSize + s
             d == n \div BatchSize
             e == n % BatchSize
  <2>1. n \in Nat
    BY <1>1, <1>6
  <2>2. e = s
    <3>1. PICK p \in Int, m \in Nat : p = r /\ m = s /\ m < BatchSize
      BY <1>1, <1>3
    <3>2. (p * BatchSize + m) % BatchSize = m
      BY <3>1, BatchSizeAssumption, RemainderUnique
    <3> QED  BY <3>1, <3>2
  <2> HIDE DEF n
  <2>3. n = BatchSize * d + e /\ d \in Nat
    BY <2>1, BatchSizeAssumption, SMT
  <2> HIDE DEF d, e
  <2>4. BatchSize * d = r * BatchSize
    BY <1>1, <1>6, <2>2, <2>3, BatchSizeAssumption, SMT DEF n
  <2>5. ~(d < r) /\ ~(r < d)
    <3>1. ASSUME d < r PROVE FALSE
      <4>1. BatchSize * (r - d) >= BatchSize
        BY <1>3, <2>3, <3>1, BatchSizeAssumption, SMT
      <4>2. BatchSize * (r - d) = r * BatchSize - BatchSize * d
        BY <1>3, <2>3, BatchSizeAssumption, SMT
      <4> QED  BY <2>4, <4>1, <4>2, <1>6, BatchSizeAssumption, SMT
    <3>2. ASSUME r < d PROVE FALSE
      <4>1. BatchSize * (d - r) >= BatchSize
        BY <1>3, <2>3, <3>2, BatchSizeAssumption, SMT
      <4>2. BatchSize * (d - r) = BatchSize * d - r * BatchSize
        BY <1>3, <2>3, BatchSizeAssumption, SMT
      <4> QED  BY <2>4, <4>1, <4>2, <1>6, BatchSizeAssumption, SMT
    <3> QED  BY <3>1, <3>2
  <2> QED  BY <1>3, <2>3, <2>5, SMT DEF d, n
<1>10. BatchId(i) = r
  BY <1>8, <1>9 DEF BatchId
<1>11. Aligned(LowerBound(i))
  BY <1>1, <1>2, MultipleIsAligned
<1>12. k * BatchSize \in Nat
  BY <1>5, <1>6
<1>13. SlotId(i) = s
  BY DEF SlotId, s
<1> QED  BY <1>1, <1>2, <1>4, <1>10, <1>11, <1>12, <1>13, BatchSizeAssumption, SMT
         DEF HigherBound

(***************************************************************************)
(* In a lap, an aligned index is known by its batch.                       *)
(***************************************************************************)
LEMMA SameBatchInWindow ==
    ASSUME NEW t \in Nat, NEW i, NEW j, Aligned(i), Aligned(j),
           BatchId(i) = BatchId(j), t <= i, i < t + RingSize,
           t <= j, j < t + RingSize
    PROVE  i = j
<1>1. i <= j /\ j <= i
  BY LeastOfBatchInWindow
<1> QED  BY <1>1, SMT DEF Aligned

(***************************************************************************)
(* In every lap each batch has an index.                                   *)
(***************************************************************************)
LEMMA BatchInEveryLap ==
    ASSUME NEW t, Aligned(t), NEW b \in BatchIds
    PROVE  \E i : Aligned(i) /\ BatchId(i) = b /\ t <= i /\ i < t + RingSize
<1>1. PICK k \in Nat : t = k * BatchSize
  BY AlignedIsMultiple
<1>2. PICK q \in Nat, r \in 0 .. Capacity - 1 : k = q * Capacity + r
  <2>1. k = Capacity * (k \div Capacity) + (k % Capacity)
    BY CapacityAssumption, SMT
  <2>2. k \div Capacity \in Nat /\ k % Capacity \in 0 .. Capacity - 1
    BY CapacityAssumption, SMT
  <2>3. k = (k \div Capacity) * Capacity + (k % Capacity)
    BY <2>1, <2>2, CapacityAssumption, SMT
  <2> QED  BY <2>2, <2>3
<1>3. b \in Nat /\ b < Capacity
  BY CapacityAssumption, SMT DEF BatchIds
<1>4. PICK p \in Nat : /\ k <= p * Capacity + b
                       /\ p * Capacity + b < k + Capacity
  <2>1. CASE r <= b
    BY <1>2, <1>3, <2>1, CapacityAssumption, SMT
  <2>2. CASE b < r
    <3>1. (q + 1) * Capacity = q * Capacity + Capacity /\ q * Capacity \in Nat
      BY <1>2, CapacityAssumption, SMT
    <3>2. /\ k <= (q + 1) * Capacity + b
          /\ (q + 1) * Capacity + b < k + Capacity
      BY <1>2, <1>3, <2>2, <3>1, CapacityAssumption, SMT
    <3> QED  BY <1>2, <3>2
  <2> QED  BY <1>2, <1>3, <2>1, <2>2, CapacityAssumption, SMT
<1>5. PICK n : n = p * Capacity + b
  OBVIOUS
<1>6. n \in Nat /\ k <= n /\ n + 1 <= k + Capacity
  BY <1>3, <1>4, <1>5, CapacityAssumption, SMT
<1>7. Aligned(n * BatchSize) /\ BatchId(n * BatchSize) = b
  <2>1. (p * Capacity + b) % Capacity = b
    BY <1>3, <1>4, CapacityAssumption, RemainderUnique
  <2> QED  BY <1>5, <1>6, <2>1, MultipleIsAligned, BatchIdOfMultiple
<1>8. t <= n * BatchSize /\ n * BatchSize < t + RingSize
  <2>1. k * BatchSize <= n * BatchSize
    BY <1>6, BatchSizeAssumption, SMT
  <2>2. (n + 1) * BatchSize <= (k + Capacity) * BatchSize
    BY <1>6, BatchSizeAssumption, CapacityAssumption, SMT
  <2>3. /\ (n + 1) * BatchSize = n * BatchSize + BatchSize
        /\ (k + Capacity) * BatchSize = k * BatchSize + Capacity * BatchSize
        /\ n * BatchSize \in Nat /\ k * BatchSize \in Nat
        /\ Capacity * BatchSize \in Nat
    BY <1>6, BatchSizeAssumption, CapacityAssumption, SMT
  <2> QED  BY <1>1, <2>1, <2>2, <2>3, BatchSizeAssumption, SMT DEF RingSize
<1> QED  BY <1>7, <1>8

USE DEF ringVars, trackerVars, requestVars, workerVars, vars

-------------------------------------------------------------------------------
(***************************************************************************)
(* Types.                                                                  *)
(***************************************************************************)
Typed == TypeOK /\ SentBounded

(***************************************************************************)
(* The chunk of a request lies in one batch and holds rows not yet sent.   *)
(***************************************************************************)
LEMMA ChunkFacts ==
    ASSUME Typed, NEW r \in Requests
    PROVE  /\ ChunkBatch(r) \in BatchIds
           /\ ChunkStart(r) \in SlotIds
           /\ ChunkSize(r) \in Nat
           /\ sent[r] + ChunkSize(r) <= size[r]
           /\ ChunkEnd(r) \in 0 .. BatchSize
           /\ ChunkStart(r) <= ChunkEnd(r)
           /\ HigherBound(at[r]) \in Nat
<1>1. /\ at[r] \in Nat /\ sent[r] \in Nat /\ size[r] \in Nat
      /\ sent[r] <= size[r]
  BY ReqSizesAssumption DEF Typed, TypeOK, SentBounded
<1>2. BatchId(at[r]) \in BatchIds
  BY <1>1, BatchIdInRange
<1>3. SlotId(at[r]) \in SlotIds /\ SlotId(at[r]) \in Nat
  BY <1>1, SlotIdInRange
<1>4. HigherBound(at[r]) \in Nat /\ at[r] < HigherBound(at[r])
  BY <1>1, HigherBoundFacts
<1>5. HigherBound(at[r]) - at[r] = BatchSize - SlotId(at[r])
  BY <1>1, <1>3, BatchSizeAssumption, SMT DEF HigherBound, LowerBound
<1>6. /\ ChunkSize(r) \in Nat /\ sent[r] + ChunkSize(r) <= size[r]
      /\ ChunkSize(r) <= BatchSize - SlotId(at[r])
  BY <1>1, <1>3, <1>4, <1>5, BatchSizeAssumption, SMT DEF ChunkSize
<1> QED  BY <1>2, <1>3, <1>4, <1>6, BatchSizeAssumption, SMT
            DEF ChunkBatch, ChunkStart, ChunkEnd, SlotIds

(***************************************************************************)
(* What a request copies into a batch is a row per slot.                   *)
(***************************************************************************)
LEMMA CopiedRowsTyped ==
    ASSUME Typed, NEW r \in Requests
    PROVE  CopiedRows(r) \in [SlotIds -> Rows]
<1>1. /\ ChunkBatch(r) \in BatchIds /\ ChunkStart(r) \in Nat
      /\ ChunkEnd(r) \in Nat /\ sent[r] \in Nat
  BY ChunkFacts, SMT DEF Typed, TypeOK, SlotIds
<1>2. ASSUME NEW s \in SlotIds, s \in ChunkStart(r) .. ChunkEnd(r) - 1
      PROVE  <<r, sent[r] + s - ChunkStart(r)>> \in Rows
  <2>1. sent[r] + s - ChunkStart(r) \in Nat
    BY <1>1, <1>2, SMT DEF SlotIds
  <2> QED  BY <2>1 DEF Rows
<1>3. ASSUME NEW s \in SlotIds
      PROVE  buffer[ChunkBatch(r)][s] \in Rows
  BY <1>1, <1>3 DEF Typed, TypeOK
<1> QED  BY <1>2, <1>3, Zenon DEF CopiedRows

(***************************************************************************)
(* A published reservation names a batch and a range of its slots.         *)
(***************************************************************************)
LEMMA ReservationTyped ==
    ASSUME Typed, NEW r \in Requests
    PROVE  [batch |-> ChunkBatch(r), gen |-> state[ChunkBatch(r)].gen,
            start |-> ChunkStart(r), end |-> ChunkEnd(r)] \in Reservation
<1>1. /\ ChunkBatch(r) \in BatchIds /\ ChunkStart(r) \in SlotIds
      /\ ChunkEnd(r) \in 0 .. BatchSize /\ ChunkStart(r) <= ChunkEnd(r)
  BY ChunkFacts
<1>2. state[ChunkBatch(r)].gen \in Nat
  BY <1>1 DEF Typed, TypeOK, BatchState
<1> QED  BY <1>1, <1>2 DEF Reservation

(***************************************************************************)
(* The elements a reservation takes out of an output are output elements.  *)
(***************************************************************************)
LEMMA SliceTyped ==
    ASSUME NEW cell \in OutputCell, NEW res \in Reservation
    PROVE  SliceOf(cell, res.start, res.end) \in Seq(Rows \X Nat)
<1>1. /\ res.start \in Nat /\ res.end \in Nat /\ res.start <= res.end
      /\ res.end <= BatchSize
  BY BatchSizeAssumption, SMT DEF Reservation, SlotIds
<1>2. cell.rows \in [SlotIds -> Rows]
  BY DEF OutputCell
<1> DEFINE n == res.end - res.start
<1>3. n \in Nat
  BY <1>1, SMT
<1>4. ASSUME NEW k \in 1 .. n
      PROVE  LET element == res.start + k - 1
             IN  <<cell.rows[element \div RowWidth], element % RowWidth>>
                    \in Rows \X Nat
  <2> DEFINE element == res.start + k - 1
  <2>1. element \in Nat /\ element < BatchSize
    BY <1>1, <1>3, <1>4, BatchSizeAssumption, SMT
  <2> HIDE DEF element
  <2>2. element \div RowWidth \in Nat /\ element % RowWidth \in Nat
    BY <2>1, ModelAssumption, SMT
  <2>3. element \div RowWidth <= element
    BY <2>1, ModelAssumption, SMT
  <2>4. element \div RowWidth \in SlotIds
    BY <2>1, <2>2, <2>3, BatchSizeAssumption, SMT DEF SlotIds
  <2> QED  BY <1>2, <2>2, <2>4 DEF element
<1>5. [k \in 1 .. n |-> LET element == res.start + k - 1
                        IN  <<cell.rows[element \div RowWidth],
                              element % RowWidth>>] \in Seq(Rows \X Nat)
  BY <1>3, <1>4, SMT
<1> QED  BY <1>5 DEF SliceOf

(***************************************************************************)
(* Setting a flag of a batch's state keeps it a BatchState.                *)
(***************************************************************************)
LEMMA FlagTyped ==
    ASSUME state \in [BatchIds -> BatchState], NEW b \in BatchIds,
           NEW v \in BOOLEAN
    PROVE  /\ [state EXCEPT ![b].deadline = v] \in [BatchIds -> BatchState]
           /\ [state EXCEPT ![b].permit = v] \in [BatchIds -> BatchState]
<1>1. state[b] \in BatchState
  OBVIOUS
<1>2. [state[b] EXCEPT !.deadline = v] \in BatchState
  BY <1>1 DEF BatchState
<1>3. [state[b] EXCEPT !.permit = v] \in BatchState
  BY <1>1 DEF BatchState
<1> QED  BY <1>2, <1>3

(***************************************************************************)
(* The initial state is typed.                                             *)
(***************************************************************************)
LEMMA InitTyped == Init => Typed
<1> SUFFICES ASSUME Init PROVE Typed
  OBVIOUS
<1>1. TypeOK
  BY BatchSizeAssumption, CapacityAssumption, ReqSizesAssumption, SMT
     DEF Init, TypeOK, BatchState, Rows, RequestStates, WorkerStates
<1>2. SentBounded
  <2>1. \A r \in Requests : size[r] \in Nat /\ sent[r] = 0
    BY ReqSizesAssumption DEF Init
  <2> QED  BY <2>1, SMT DEF SentBounded
<1> QED  BY <1>1, <1>2 DEF Typed

(***************************************************************************)
(* Every step of a request keeps the variables typed.                      *)
(***************************************************************************)
LEMMA RequestTyped ==
    ASSUME Typed, NEW r \in Requests, RequestStep(r)
    PROVE  Typed'
<1> USE DEF Typed, TypeOK, RequestStates
<1>0. /\ ChunkBatch(r) \in BatchIds /\ ChunkStart(r) \in SlotIds
      /\ ChunkSize(r) \in Nat /\ sent[r] + ChunkSize(r) <= size[r]
      /\ ChunkEnd(r) \in 0 .. BatchSize /\ ChunkStart(r) <= ChunkEnd(r)
      /\ HigherBound(at[r]) \in Nat
  BY ChunkFacts DEF Typed
<1>1. CASE LoadHead(r)
  BY <1>1, SMT DEF LoadHead, SentBounded
<1>2. CASE CheckFull(r)
  BY <1>2, SMTT(30) DEF CheckFull, SentBounded
<1>3. CASE Reserve(r)
  <2>1. size[r] \in Nat /\ at[r] \in Nat
    BY ReqSizesAssumption
  <2>2. head' \in Nat
    BY <1>3, <2>1, SMT DEF Reserve
  <2>3. rpc' \in [Requests -> RequestStates]
    <3>1. \/ rpc' = [rpc EXCEPT ![r] = "write"]
          \/ rpc' = [rpc EXCEPT ![r] = "retry"]
      BY <1>3 DEF Reserve
    <3> QED  BY <3>1, Zenon
  <2>4. SentBounded' /\ UNCHANGED <<executorHead, tail, trackerVars, size, at,
                                    sent, resv, answer, workerVars, panicked>>
    BY <1>3 DEF Reserve, SentBounded
  <2> QED  BY <2>2, <2>3, <2>4
<1>4. CASE WriteChunk(r)
  <2>1. CASE ~InputSupported
    <3>1. rpc' = [rpc EXCEPT ![r] = "error"]
      BY <1>4, <2>1 DEF WriteChunk
    <3>2. rpc' \in [Requests -> RequestStates]
      BY <3>1, SMT
    <3>3. SentBounded' /\ UNCHANGED <<ringVars, trackerVars, size, at, sent,
                                      resv, answer, workerVars, panicked>>
      BY <1>4, <2>1 DEF WriteChunk, SentBounded
    <3> QED  BY <3>2, <3>3
  <2>2. CASE InputSupported
    <3>1. /\ buffer' = [buffer EXCEPT ![ChunkBatch(r)] = CopiedRows(r)]
          /\ rpc' = [rpc EXCEPT ![r] = "publish"]
          /\ \/ /\ dirty' = [dirty EXCEPT ![ChunkBatch(r)] = 1]
                /\ state' = [state EXCEPT ![ChunkBatch(r)].deadline = TRUE]
                /\ panicked' \in {"deadline_set_twice", "none"}
             \/ UNCHANGED <<dirty, state, panicked>>
          /\ UNCHANGED <<writtenSlots, outputs, ringVars, size, at, sent, resv,
                         answer, workerVars>>
      BY <1>4, <2>2 DEF WriteChunk
    <3>2. rpc' \in [Requests -> RequestStates]
      BY <3>1, SMT
    <3>3. buffer' \in [BatchIds -> [SlotIds -> Rows]]
      BY <3>1, CopiedRowsTyped DEF Typed
    <3>4. dirty' \in [BatchIds -> 0 .. 2]
      BY <3>1, SMT
    <3>5. state' \in [BatchIds -> BatchState]
      <4>1. state \in [BatchIds -> BatchState] /\ ChunkBatch(r) \in BatchIds
        BY <1>0
      <4>2. [state EXCEPT ![ChunkBatch(r)].deadline = TRUE]
              \in [BatchIds -> BatchState]
        BY <4>1, FlagTyped, Zenon
      <4> HIDE DEF Typed, TypeOK
      <4> QED  BY <3>1, <4>1, <4>2
    <3>6. SentBounded'
      BY <3>1 DEF SentBounded
    <3> QED  BY <3>1, <3>2, <3>3, <3>4, <3>5, <3>6
  <2> QED  BY <2>1, <2>2
<1>5. ASSUME NextChunk(r), UNCHANGED size
      PROVE  /\ sent' \in [Requests -> Nat] /\ at' \in [Requests -> Nat]
             /\ rpc' \in [Requests -> RequestStates] /\ SentBounded'
  <2>1. sent[r] + ChunkSize(r) \in Nat
    BY <1>0, SMT
  <2>2. /\ sent' \in [Requests -> Nat] /\ at' \in [Requests -> Nat]
        /\ rpc' \in [Requests -> RequestStates]
    BY <1>0, <1>5, <2>1, SMT DEF NextChunk
  <2>3. ASSUME NEW q \in Requests PROVE sent'[q] <= size'[q]
    BY <1>0, <1>5, SMT DEF NextChunk, SentBounded
  <2> QED  BY <2>2, <2>3 DEF SentBounded
<1>6. CASE Publish(r)
  <2> DEFINE e == [batch |-> ChunkBatch(r), gen |-> state[ChunkBatch(r)].gen,
                   start |-> ChunkStart(r), end |-> ChunkEnd(r)]
  <2>1. e \in Reservation
    BY ReservationTyped DEF Typed
  <2>2. resv' = [resv EXCEPT ![r] = Append(@, e)]
    BY <1>6 DEF Publish
  <2> HIDE DEF e
  <2>3. resv' \in [Requests -> Seq(Reservation)]
    BY <2>1, <2>2, SMT
  <2>4. writtenSlots' \in [BatchIds -> Nat]
    BY <1>0, <1>6, SMT DEF Publish
  <2>5. UNCHANGED <<ringVars, buffer, dirty, state, outputs, size, answer,
                    workerVars, panicked>>
    BY <1>6 DEF Publish
  <2>6. /\ sent' \in [Requests -> Nat] /\ at' \in [Requests -> Nat]
        /\ rpc' \in [Requests -> RequestStates] /\ SentBounded'
    <3>1. CASE MustNotify(r)
      <4>1. /\ rpc' = [rpc EXCEPT ![r] = "notify"]
            /\ sent' = sent /\ at' = at /\ size' = size
        BY <1>6, <3>1 DEF Publish
      <4>2. rpc' \in [Requests -> RequestStates]
        BY <4>1, SMT
      <4> QED  BY <4>1, <4>2 DEF SentBounded
    <3>2. CASE ~MustNotify(r)
      <4>1. NextChunk(r) /\ UNCHANGED size
        BY <1>6, <3>2 DEF Publish
      <4> QED  BY <1>5, <4>1
    <3> QED  BY <3>1, <3>2
  <2> QED  BY <2>3, <2>4, <2>5, <2>6
<1>7. CASE NotifyExecutor(r)
  <2>1. state' \in [BatchIds -> BatchState]
    <3>1. state \in [BatchIds -> BatchState] /\ ChunkBatch(r) \in BatchIds
      BY <1>0
    <3>2. [state EXCEPT ![ChunkBatch(r)].permit = TRUE]
            \in [BatchIds -> BatchState]
      BY <3>1, FlagTyped, Zenon
    <3> HIDE DEF Typed, TypeOK
    <3> QED  BY <1>7, <3>2 DEF NotifyExecutor
  <2>2. UNCHANGED <<ringVars, buffer, dirty, writtenSlots, outputs, size, resv,
                    answer, workerVars, panicked>>
    BY <1>7 DEF NotifyExecutor
  <2> QED  BY <1>5, <1>7, <2>1, <2>2 DEF NotifyExecutor
<1>8. CASE Collect(r)
  <2>2. resv[r] # <<>> /\ resv[r] \in Seq(Reservation)
    BY <1>8 DEF Collect
  <2>3. Head(resv[r]) \in Reservation /\ Tail(resv[r]) \in Seq(Reservation)
    BY <2>2, SMT
  <2>4. PICK cell \in outputs :
          \/ /\ answer' = [answer EXCEPT ![r] = @ \o
                     SliceOf(cell, Head(resv[r]).start, Head(resv[r]).end)]
             /\ resv' = [resv EXCEPT ![r] = Tail(@)]
             /\ rpc'  = [rpc EXCEPT ![r] = IF Tail(resv[r]) = <<>>
                                           THEN "ok" ELSE "wait"]
          \/ /\ rpc' = [rpc EXCEPT ![r] = "error"]
             /\ UNCHANGED <<answer, resv>>
    BY <1>8 DEF Collect
  <2>5. answer' \in [Requests -> Seq(Rows \X Nat)]
    <3> DEFINE slice == SliceOf(cell, Head(resv[r]).start, Head(resv[r]).end)
    <3>1. slice \in Seq(Rows \X Nat)
      BY <2>3, SliceTyped
    <3> HIDE DEF slice
    <3>2. answer[r] \o slice \in Seq(Rows \X Nat)
      BY <3>1, SMT
    <3>3. \/ answer' = [answer EXCEPT ![r] = answer[r] \o slice]
          \/ answer' = answer
      BY <2>4 DEF slice
    <3> QED  BY <3>2, <3>3, Zenon
  <2>6. resv' \in [Requests -> Seq(Reservation)]
    BY <2>3, <2>4, Zenon
  <2>7. rpc' \in [Requests -> RequestStates]
    BY <2>4, Zenon
  <2>8. SentBounded' /\ UNCHANGED <<ringVars, trackerVars, size, at, sent,
                                    workerVars, panicked>>
    BY <1>8, SMT DEF Collect, SentBounded
  <2> QED  BY <2>5, <2>6, <2>7, <2>8
<1> QED  BY <1>1, <1>2, <1>3, <1>4, <1>6, <1>7, <1>8 DEF RequestStep

(***************************************************************************)
(* Every step of a worker keeps the variables typed.                       *)
(***************************************************************************)
LEMMA WorkerTyped ==
    ASSUME Typed, NEW x \in Workers, WorkerStep(x)
    PROVE  Typed'
<1> USE DEF Typed, TypeOK, SentBounded
<1>0. /\ idx[x] \in Nat /\ seen[x] \in Nat
      /\ BatchId(idx[x]) \in BatchIds /\ BatchId(seen[x]) \in BatchIds
      /\ BatchId(head) \in BatchIds
      /\ HigherBound(idx[x]) \in Nat /\ HigherBound(seen[x]) \in Nat
      /\ BatchSize \in Nat
  BY BatchIdInRange, HigherBoundFacts, BatchSizeAssumption
<1>a. ASSUME NEW pc \in WorkerStates, Goto(x, pc)
      PROVE  xpc' \in [Workers -> WorkerStates]
  BY <1>a DEF Goto
<1>b. ASSUME Return(x)
      PROVE  /\ xpc' \in [Workers -> WorkerStates]
             /\ seen' \in [Workers -> Nat] /\ idx' \in [Workers -> Nat]
             /\ open' \in [Workers -> Nat]
  BY <1>b, SMT DEF Return, WorkerStates
<1>c. ASSUME NEW b \in BatchIds, NEW mark \in {0, 1, 2},
             dirty' = [dirty EXCEPT ![b] = mark]
      PROVE  dirty' \in [BatchIds -> 0 .. 2]
  <2>1. mark \in 0 .. 2
    BY SMT
  <2> QED  BY <1>c, <2>1, Zenon
<1>1. CASE LoadExecutorHead(x)
  BY <1>1, <1>a DEF LoadExecutorHead, WorkerStates
<1>2. CASE CheckRoom(x)
  BY <1>2, <1>a DEF CheckRoom, WorkerStates
<1>3. CASE Listen(x)
  BY <1>3, <1>a DEF Listen, WorkerStates
<1>4. CASE Claim(x)
  <2>1. executorHead' \in Nat
    BY <1>0, <1>4, SMT DEF Claim
  <2>2. idx' \in [Workers -> Nat]
    BY <1>0, <1>4 DEF Claim
  <2>3. xpc' \in [Workers -> WorkerStates]
    BY <1>4, <1>a DEF Claim, WorkerStates
  <2>4. UNCHANGED <<head, tail, trackerVars, requestVars, seen, open, panicked>>
    BY <1>4 DEF Claim
  <2> QED  BY <2>1, <2>2, <2>3, <2>4
<1>5. CASE AwaitFirst(x)
  <2>1. state' \in [BatchIds -> BatchState]
    BY <1>0, <1>5, FlagTyped DEF AwaitFirst
  <2>2. xpc' \in [Workers -> WorkerStates]
    BY <1>5, <1>a DEF AwaitFirst, WorkerStates
  <2>3. UNCHANGED <<ringVars, buffer, dirty, writtenSlots, outputs,
                    requestVars, seen, idx, open, panicked>>
    BY <1>5 DEF AwaitFirst
  <2> QED  BY <2>1, <2>2, <2>3
<1>6. CASE Peek(x)
  BY <1>6, <1>a DEF Peek, WorkerStates
<1>7. CASE DeadlineExpires(x)
  BY <1>7, <1>a DEF DeadlineExpires, WorkerStates
<1>8. CASE AwaitFull(x)
  <2>1. state' \in [BatchIds -> BatchState]
    BY <1>0, <1>8, FlagTyped DEF AwaitFull
  <2>2. xpc' \in [Workers -> WorkerStates]
    BY <1>8, <1>a DEF AwaitFull, WorkerStates
  <2>3. UNCHANGED <<ringVars, buffer, dirty, writtenSlots, outputs,
                    requestVars, seen, idx, open, panicked>>
    BY <1>8 DEF AwaitFull
  <2> QED  BY <2>1, <2>2, <2>3
<1>9. CASE Seal(x)
  <2>1. OpenSlots(x) \in Nat
    BY <1>0, SMT DEF OpenSlots
  <2>2. CASE head < LowerBound(idx[x])
    BY <1>9, <2>2 DEF Seal
  <2>3. CASE ~(head < LowerBound(idx[x]))
    <3>1. /\ head' = head + OpenSlots(x)
          /\ open' = [open EXCEPT ![x] = OpenSlots(x)]
          /\ Goto(x, "spin")
          /\ UNCHANGED <<seen, idx, panicked, executorHead, tail, trackerVars,
                         requestVars>>
      BY <1>9, <2>3 DEF Seal
    <3>2. head' \in Nat /\ open' \in [Workers -> Nat]
      BY <2>1, <3>1, SMT
    <3>3. xpc' \in [Workers -> WorkerStates]
      BY <1>a, <3>1 DEF WorkerStates
    <3> QED  BY <3>1, <3>2, <3>3
  <2> QED  BY <2>2, <2>3
<1>10. CASE SpinWritten(x)
  <2>1. xpc' \in [Workers -> WorkerStates]
    BY <1>10, <1>a DEF SpinWritten, WorkerStates
  <2>2. /\ panicked' = panicked \/ panicked' = "written_too_often"
        /\ UNCHANGED <<ringVars, trackerVars, requestVars, seen, idx, open>>
    BY <1>10 DEF SpinWritten
  <2> QED  BY <2>1, <2>2
<1>11. CASE Finish(x)
  <2>1. xpc' \in [Workers -> WorkerStates]
    BY <1>11, <1>a DEF Finish, WorkerStates
  <2>2. ASSUME NEW ok \in Outcomes
        PROVE  RunResult(BatchId(idx[x]), ok) \subseteq OutputCell
    <3>1. /\ ok \in BOOLEAN /\ state[BatchId(idx[x])].gen \in Nat
          /\ buffer[BatchId(idx[x])] \in [SlotIds -> Rows]
      BY <1>0, ModelAssumption DEF BatchState
    <3> QED  BY <1>0, <3>1 DEF RunResult, OutputCell
  <2>3. outputs' \subseteq OutputCell
    BY <1>11, <2>2 DEF Finish
  <2>4. /\ panicked' \in {"none", "output_set_twice"}
        /\ UNCHANGED <<ringVars, buffer, dirty, writtenSlots, state,
                       requestVars, seen, idx, open>>
    BY <1>11 DEF Finish
  <2> QED  BY <2>1, <2>3, <2>4
<1>12. CASE Warmup(x)
  <2>1. head' \in Nat /\ executorHead' \in Nat
    BY <1>0, <1>12, SMT DEF Warmup
  <2>2. idx' \in [Workers -> Nat] /\ dirty' \in [BatchIds -> 0 .. 2]
    BY <1>0, <1>c, <1>12 DEF Warmup
  <2>3. xpc' \in [Workers -> WorkerStates]
    BY <1>12, <1>a DEF Warmup, WorkerStates
  <2>4. UNCHANGED <<tail, buffer, writtenSlots, state, outputs, requestVars,
                    seen, open, panicked>>
    BY <1>12 DEF Warmup
  <2> QED  BY <2>1, <2>2, <2>3, <2>4
<1>13. CASE ResetBatch(x)
  <2>1. FreshState(state[BatchId(idx[x])]) \in BatchState
    <3>1. state[BatchId(idx[x])].gen + 1 \in Nat
      BY <1>0, SMT DEF BatchState
    <3> QED  BY <3>1 DEF FreshState, BatchState
  <2>2. state' \in [BatchIds -> BatchState]
    BY <1>13, <2>1 DEF ResetBatch
  <2>3. dirty' \in [BatchIds -> 0 .. 2] /\ writtenSlots' \in [BatchIds -> Nat]
    BY <1>0, <1>c, <1>13 DEF ResetBatch
  <2>4. xpc' \in [Workers -> WorkerStates]
    BY <1>13, <1>a DEF ResetBatch, WorkerStates
  <2>5. UNCHANGED <<ringVars, buffer, outputs, requestVars, seen, idx, open,
                    panicked>>
    BY <1>13 DEF ResetBatch
  <2> QED  BY <2>2, <2>3, <2>4, <2>5
<1>14. CASE LoadTail(x)
  BY <1>14, <1>a DEF LoadTail, WorkerStates
<1>15. CASE CheckHead(x)
  BY <1>15, <1>a, <1>b DEF CheckHead, WorkerStates
<1>16. CASE TakeDirty(x)
  <2>1. dirty' \in [BatchIds -> 0 .. 2]
    BY <1>0, <1>c, <1>16 DEF TakeDirty
  <2>2. /\ xpc' \in [Workers -> WorkerStates]
        /\ seen' \in [Workers -> Nat] /\ idx' \in [Workers -> Nat]
        /\ open' \in [Workers -> Nat]
    BY <1>16, <1>a, <1>b DEF TakeDirty, WorkerStates
  <2>3. UNCHANGED <<ringVars, buffer, writtenSlots, state, outputs,
                    requestVars, panicked>>
    BY <1>16 DEF TakeDirty
  <2> QED  BY <2>1, <2>2, <2>3
<1>17. CASE AdvanceTail(x)
  <2>1. tail' \in Nat
    BY <1>0, <1>17 DEF AdvanceTail
  <2>2. /\ xpc' \in [Workers -> WorkerStates]
        /\ seen' \in [Workers -> Nat] /\ idx' \in [Workers -> Nat]
        /\ open' \in [Workers -> Nat]
    BY <1>17, <1>b DEF AdvanceTail, WorkerStates
  <2>3. UNCHANGED <<head, executorHead, trackerVars, requestVars, panicked>>
    BY <1>17 DEF AdvanceTail
  <2> QED  BY <2>1, <2>2, <2>3
<1> QED  BY <1>1, <1>2, <1>3, <1>4, <1>5, <1>6, <1>7, <1>8, <1>9, <1>10,
            <1>11, <1>12, <1>13, <1>14, <1>15, <1>16, <1>17 DEF WorkerStep

(***************************************************************************)
(* Typing is an invariant, so it may be assumed of every state below.      *)
(***************************************************************************)
LEMMA NextTyped == Typed /\ [Next]_vars => Typed'
<1>1. ASSUME Typed, Next PROVE Typed'
  BY <1>1, RequestTyped, WorkerTyped DEF Next
<1>2. ASSUME Typed, UNCHANGED vars PROVE Typed'
  BY <1>2 DEF Typed, TypeOK, SentBounded
<1> QED  BY <1>1, <1>2

LEMMA TypedInvariant == Spec => []Typed
<1>1. Typed /\ [Next]_vars => Typed'
  BY NextTyped
<1> QED  BY <1>1, InitTyped, PTL DEF Spec

(***************************************************************************)
(* Type correctness: every variable of the ring, of its trackers and of    *)
(* the threads keeps to its range, whatever the sizes of ring and load.    *)
(***************************************************************************)
THEOREM TypeCorrect == Spec => []TypeOK
<1>1. Typed => TypeOK
  BY DEF Typed
<1> QED  BY <1>1, TypedInvariant, PTL

-------------------------------------------------------------------------------
(***************************************************************************)
(* Claims.                                                                 *)
(***************************************************************************)
(***************************************************************************)
(* The indices of the ring are numbers; cited wherever they are compared.  *)
(***************************************************************************)
LEMMA Numbers ==
    ASSUME Typed
    PROVE  /\ head \in Nat /\ executorHead \in Nat /\ tail \in Nat
           /\ \A x \in Workers : seen[x] \in Nat /\ idx[x] \in Nat
           /\ BatchSize \in Nat /\ BatchSize > 0
           /\ RingSize \in Nat /\ RingSize >= BatchSize
BY BatchSizeAssumption, RingSizePositive, SMT DEF Typed, TypeOK

(***************************************************************************)
(* A request that is past its arrival runs against a registered model, and *)
(* all it does to the claims is to mark a batch as in use.                 *)
(***************************************************************************)
LEMMA RequestFrame ==
    ASSUME Typed, ManagerAlone, NEW r \in Requests, RequestStep(r)
    PROVE  /\ Registered
           /\ UNCHANGED <<executorHead, tail, workerVars>>
           /\ \/ dirty' = dirty
              \/ \E b \in BatchIds : dirty' = [dirty EXCEPT ![b] = 1]
<1>1. Registered
  BY DEF RequestStep, LoadHead, CheckFull, Reserve, WriteChunk, Publish,
         NotifyExecutor, Collect, ManagerAlone
<1> DEFINE Frame == /\ UNCHANGED <<executorHead, tail, workerVars>>
                     /\ \/ dirty' = dirty
                        \/ dirty' = [dirty EXCEPT ![ChunkBatch(r)] = 1]
<1>2. LoadHead(r) => Frame
  BY DEF LoadHead
<1>3. CheckFull(r) => Frame
  BY DEF CheckFull
<1>4. Reserve(r) => Frame
  BY DEF Reserve
<1>5. WriteChunk(r) => Frame
  BY DEF WriteChunk
<1>6. Publish(r) => Frame
  BY DEF Publish
<1>7. NotifyExecutor(r) => Frame
  BY DEF NotifyExecutor
<1>8. Collect(r) => Frame
  BY DEF Collect
<1>9. Frame
  BY <1>2, <1>3, <1>4, <1>5, <1>6, <1>7, <1>8 DEF RequestStep
<1> QED  BY <1>1, <1>9, ChunkFacts

(***************************************************************************)
(* An executor that takes a step finds the model registered.               *)
(***************************************************************************)
LEMMA ExecutorSeesRegistered ==
    ASSUME ManagerAlone, NEW x \in Executors, WorkerStep(x)
    PROVE  Registered
<1>1. x # Manager
  BY ManagerAssumption
<1>2. CASE xpc[x] = "idle"
  BY <1>1, <1>2 DEF WorkerStep, LoadExecutorHead, CheckRoom, Listen, Claim,
        AwaitFirst, Peek, DeadlineExpires, AwaitFull, Seal, SpinWritten,
        Finish, Warmup, ResetBatch, LoadTail, CheckHead, TakeDirty, AdvanceTail
<1>3. CASE xpc[x] # "idle"
  BY <1>3 DEF ManagerAlone
<1> QED  BY <1>2, <1>3

(***************************************************************************)
(* The manager only warms up and moves the tail, and stops for good when   *)
(* the model is registered.                                                *)
(***************************************************************************)
LEMMA ManagerSteps ==
    ASSUME Typed, ManagerAlone, WorkerStep(Manager)
    PROVE  /\ ~Registered
           /\ \/ Warmup(Manager) \/ ResetBatch(Manager) \/ LoadTail(Manager)
              \/ CheckHead(Manager) \/ TakeDirty(Manager)
              \/ AdvanceTail(Manager)
<1>1. \/ Warmup(Manager) \/ ResetBatch(Manager) \/ LoadTail(Manager)
      \/ CheckHead(Manager) \/ TakeDirty(Manager) \/ AdvanceTail(Manager)
  BY ManagerAssumption DEF ManagerAlone, WorkerStep, LoadExecutorHead,
     CheckRoom, Listen, Claim, AwaitFirst, Peek, DeadlineExpires, AwaitFull,
     Seal, SpinWritten, Finish
<1>2. CASE Warmup(Manager)
  <2>1. executorHead < Warmups * BatchSize
    BY <1>2 DEF Warmup
  <2>2. Warmups * BatchSize \in Nat
    BY LoadAssumption, Numbers, SMT
  <2>3. ~(executorHead >= Warmups * BatchSize)
    BY <2>1, <2>2, Numbers, SMT
  <2> QED  BY <1>1, <2>3 DEF Registered
<1>3. CASE xpc[Manager] # "idle"
  BY <1>1, <1>3 DEF Registered
<1> QED  BY <1>1, <1>2, <1>3
         DEF ResetBatch, LoadTail, CheckHead, TakeDirty, AdvanceTail

(***************************************************************************)
(* The initial state satisfies the invariant.                              *)
(***************************************************************************)
LEMMA InitClaims == Init => ClaimInv
<1> SUFFICES ASSUME Init PROVE ClaimInv
  OBVIOUS
<1>1. Aligned(0)
  <2>1. 0 = 0 * BatchSize
    BY BatchSizeAssumption, SMT
  <2> QED  BY <2>1, MultipleIsAligned
<1>2. WholeBatches
  BY <1>1 DEF Init, WholeBatches
<1>3. /\ \A x \in Workers : xpc[x] = "idle"
      /\ \A r \in Requests : rpc[r] = "new"
      /\ \A b \in BatchIds : dirty[b] = 0
      /\ head = 0 /\ executorHead = 0 /\ tail = 0
  BY DEF Init
<1>4. ManagerAlone
  BY <1>3 DEF ManagerAlone, Workers
<1>5. \A x \in Workers : ~Active(x)
  BY <1>3 DEF Active
<1>6. ClaimsBounded
  BY <1>3, <1>5 DEF ClaimsBounded, Workers
<1>7. ClaimsApart /\ AdvancePastReleased
  BY <1>3, <1>5 DEF ClaimsApart, AdvancePastReleased
<1>8. DirtyTwoIsReleased
  BY <1>3, BatchIdInRange DEF DirtyTwoIsReleased, Aligned
<1> QED  BY <1>2, <1>4, <1>6, <1>7, <1>8 DEF ClaimInv

(***************************************************************************)
(* The steps of a request keep the invariant: they only mark batches 1.    *)
(***************************************************************************)
LEMMA RequestClaims ==
    ASSUME Typed, ClaimInv, NEW r \in Requests, RequestStep(r)
    PROVE  ClaimInv'
<1>1. /\ Registered
      /\ UNCHANGED <<executorHead, tail, workerVars>>
      /\ \/ dirty' = dirty
         \/ \E b \in BatchIds : dirty' = [dirty EXCEPT ![b] = 1]
  BY RequestFrame DEF ClaimInv
<1>2. \A b \in BatchIds : dirty'[b] = 2 => dirty[b] = 2
  BY <1>1, SMT DEF Typed, TypeOK
<1>3. \A i \in Nat : BatchId(i) \in BatchIds
  BY BatchIdInRange
<1>4. WholeBatches' /\ ClaimsBounded' /\ ClaimsApart'
  BY <1>1 DEF ClaimInv, WholeBatches, ClaimsBounded, ClaimsApart, Active
<1>5. ManagerAlone'
  BY <1>1 DEF ClaimInv, ManagerAlone, Registered
<1>6. \A i : Released(i) => Released(i)'
  BY <1>1 DEF Released, Active
<1>7. DirtyTwoIsReleased'
  BY <1>1, <1>2, <1>3, <1>6
     DEF ClaimInv, DirtyTwoIsReleased, Aligned
<1>8. AdvancePastReleased'
  BY <1>1, <1>2, <1>3, <1>6, Numbers DEF ClaimInv, AdvancePastReleased
<1> QED  BY <1>4, <1>5, <1>7, <1>8 DEF ClaimInv

(***************************************************************************)
(* The manager stays alone until the model is registered.                  *)
(***************************************************************************)
LEMMA ManagerStaysAlone ==
    ASSUME Typed, ManagerAlone, NEW x \in Workers, WorkerStep(x)
    PROVE  ManagerAlone'
<1>1. CASE x \in Executors
  <2>1. Registered
    BY <1>1, ExecutorSeesRegistered
  <2>2. x # Manager /\ Manager \in Workers
    BY <1>1, ManagerAssumption DEF Workers
  <2>3. executorHead' >= executorHead /\ executorHead' \in Nat
    <3>1. executorHead' = executorHead \/ executorHead' = executorHead + BatchSize
      BY DEF WorkerStep, LoadExecutorHead, CheckRoom, Listen, Claim,
         AwaitFirst, Peek, DeadlineExpires, AwaitFull, Seal, SpinWritten,
         Finish, Warmup, ResetBatch, LoadTail, CheckHead, TakeDirty,
         AdvanceTail
    <3> QED  BY <3>1, Numbers, SMT
  <2>4. xpc'[Manager] = "idle"
    <3>1. xpc[Manager] = "idle"
      BY <2>1 DEF Registered
    <3>2. CASE AdvanceTail(x)
      BY <2>2, <3>1, <3>2 DEF AdvanceTail, Return, Typed, TypeOK
    <3>3. CASE ~AdvanceTail(x)
      <4>1. xpc' = xpc \/ \E pc \in WorkerStates : xpc' = [xpc EXCEPT ![x] = pc]
        BY <3>3 DEF WorkerStep, LoadExecutorHead, CheckRoom, Listen, Claim,
           AwaitFirst, Peek, DeadlineExpires, AwaitFull, Seal, SpinWritten,
           Finish, Warmup, ResetBatch, LoadTail, CheckHead, TakeDirty,
           Goto, Return, WorkerStates
      <4> QED  BY <2>2, <3>1, <4>1 DEF Typed, TypeOK
    <3> QED  BY <3>2, <3>3
  <2>5. Warmups * BatchSize \in Nat
    BY LoadAssumption, Numbers, SMT
  <2>6. Registered'
    BY <2>1, <2>3, <2>4, <2>5, Numbers, SMT DEF Registered
  <2> QED  BY <2>4, <2>6 DEF ManagerAlone
<1>2. CASE x = Manager
  <2>1. ~Registered /\ Manager \in Workers
    BY <1>2, ManagerSteps DEF Workers
  <2>2. /\ head = executorHead
        /\ \A r \in Requests : rpc[r] = "new"
        /\ \A y \in Executors : xpc[y] = "idle" /\ y # Manager /\ y \in Workers
    BY <2>1, ManagerAssumption DEF ManagerAlone, Workers
  <2>3. /\ xpc' \in [Workers -> WorkerStates]
        /\ xpc'[Manager] \in {"idle", "reset", "move", "move_head", "take",
                              "advance"}
        /\ \A y \in Executors : xpc'[y] = "idle"
    <3>1. xpc \in [Workers -> WorkerStates]
      BY DEF Typed, TypeOK
    <3>2. CASE AdvanceTail(Manager)
      BY <2>1, <2>2, <3>1, <3>2 DEF AdvanceTail, Return, WorkerStates
    <3>3. CASE ~AdvanceTail(Manager)
      <4>1. \E pc \in {"idle", "reset", "move", "move_head", "take", "advance"} :
                xpc' = [xpc EXCEPT ![Manager] = pc]
        BY <1>2, <3>3, ManagerSteps DEF Warmup, ResetBatch, LoadTail, CheckHead,
           TakeDirty, Goto, Return
      <4> QED  BY <2>1, <2>2, <3>1, <4>1 DEF WorkerStates
    <3> QED  BY <3>2, <3>3
  <2>4. head' = executorHead' /\ rpc' = rpc
    BY <1>2, <2>2, ManagerSteps DEF Warmup, ResetBatch, LoadTail, CheckHead,
       TakeDirty, AdvanceTail
  <2> QED  BY <2>2, <2>3, <2>4 DEF ManagerAlone
<1> QED  BY <1>1, <1>2 DEF Workers

(***************************************************************************)
(* A worker step that moves no index of the ring, marks nothing and claims *)
(* nothing keeps the claims in order.                                      *)
(***************************************************************************)
LEMMA QuietStep ==
    ASSUME Typed, ClaimInv, ManagerAlone', NEW x \in Workers,
           UNCHANGED <<executorHead, tail, dirty>>,
           \A y \in Workers \ {x} :
               xpc'[y] = xpc[y] /\ seen'[y] = seen[y] /\ idx'[y] = idx[y],
           Aligned(seen'[x]), Aligned(idx'[x]),
           Active(x)' => Active(x) /\ idx'[x] = idx[x],
           xpc'[x] = "claim" => seen'[x] + BatchSize <= tail + RingSize,
           xpc'[x] \in {"move_head", "take"} => seen'[x] <= tail,
           xpc'[x] # "advance"
    PROVE  ClaimInv'
<1>1. WholeBatches'
  BY DEF ClaimInv, WholeBatches
<1>2. \A y \in Workers : Active(y)' => Active(y) /\ idx'[y] = idx[y]
  BY DEF Active
<1>3. ClaimsBounded'
  BY <1>2 DEF ClaimInv, ClaimsBounded, Workers
<1>4. ClaimsApart'
  BY <1>2 DEF ClaimInv, ClaimsApart
<1>5. \A i : Released(i) => Released(i)'
  BY <1>2 DEF Released
<1>6. DirtyTwoIsReleased'
  BY <1>5 DEF ClaimInv, DirtyTwoIsReleased
<1>7. AdvancePastReleased'
  BY <1>5 DEF ClaimInv, AdvancePastReleased
<1> QED  BY <1>1, <1>3, <1>4, <1>6, <1>7 DEF ClaimInv

(***************************************************************************)
(* claiming: the batch at executor_head goes to the executor whose         *)
(* compare-and-exchange moved it, one lap above the tail at most.          *)
(***************************************************************************)
LEMMA ClaimKeeps ==
    ASSUME Typed, ClaimInv, ManagerAlone', NEW x \in Executors, Claim(x),
           executorHead = seen[x]
    PROVE  ClaimInv'
<1>1. /\ executorHead' = executorHead + BatchSize
      /\ idx' = [idx EXCEPT ![x] = executorHead]
      /\ xpc' = [xpc EXCEPT ![x] = "await_first"]
      /\ UNCHANGED <<tail, dirty, seen>>
      /\ xpc[x] = "claim" /\ x \in Workers
  BY DEF Claim, Goto, Workers
<1>2. /\ tail <= executorHead
      /\ executorHead + BatchSize <= tail + RingSize
      /\ \A y \in Workers : Active(y) => idx[y] + BatchSize <= executorHead
  BY <1>1 DEF ClaimInv, ClaimsBounded
<1>3. /\ idx'[x] = executorHead /\ Active(x)'
      /\ \A y \in Workers \ {x} : /\ idx'[y] = idx[y] /\ xpc'[y] = xpc[y]
                                  /\ Active(y)' <=> Active(y)
  BY <1>1 DEF Active, Typed, TypeOK
<1>4. WholeBatches'
  BY <1>1, <1>3, AlignedNext DEF ClaimInv, WholeBatches
<1>5. ClaimsBounded'
  <2>1. tail' <= executorHead'
    BY <1>1, <1>2, Numbers, SMT
  <2>2. ASSUME NEW y \in Workers, Active(y)'
        PROVE  tail' <= idx'[y] /\ idx'[y] + BatchSize <= executorHead'
    BY <1>1, <1>2, <1>3, <2>2, Numbers, SMT DEF ClaimInv, ClaimsBounded
  <2>3. ASSUME NEW y \in Workers, xpc'[y] \in {"move_head", "take", "advance"}
        PROVE  seen'[y] <= tail'
    BY <1>1, <1>3, <2>3 DEF ClaimInv, ClaimsBounded, Typed, TypeOK
  <2>4. ASSUME NEW y \in Executors
        PROVE  /\ Active(y)' => idx'[y] + BatchSize <= tail' + RingSize
               /\ xpc'[y] = "claim" => seen'[y] + BatchSize <= tail' + RingSize
    BY <1>1, <1>2, <1>3
       DEF ClaimInv, ClaimsBounded, Workers, Typed, TypeOK
  <2> QED  BY <2>1, <2>2, <2>3, <2>4 DEF ClaimsBounded
<1>6. \A y \in Workers : Active(y) => idx[y] # executorHead
  BY <1>2, Numbers, SMT
<1>7. ClaimsApart'
  BY <1>3, <1>6 DEF ClaimInv, ClaimsApart
<1>8. \A i \in Nat : Released(i) => Released(i)'
  <2>1. ASSUME NEW i \in Nat, Released(i) PROVE Released(i)'
    <3>1. i < executorHead /\ i < executorHead'
      BY <1>1, <2>1, Numbers, SMT DEF Released
    <3>2. ASSUME NEW y \in Workers, Active(y)' PROVE idx'[y] # i
      <4>1. CASE y = x
        BY <1>3, <3>1, <4>1, Numbers, SMT
      <4>2. CASE y # x
        BY <1>3, <2>1, <3>2, <4>2 DEF Released
      <4> QED  BY <4>1, <4>2
    <3> QED  BY <3>1, <3>2 DEF Released
  <2> QED  BY <2>1
<1>9. DirtyTwoIsReleased'
  BY <1>1, <1>8 DEF ClaimInv, DirtyTwoIsReleased, Aligned
<1>10. AdvancePastReleased'
  BY <1>1, <1>8, Numbers DEF ClaimInv, AdvancePastReleased, Typed, TypeOK
<1> QED  BY <1>4, <1>5, <1>7, <1>9, <1>10 DEF ClaimInv

(***************************************************************************)
(* warmup: the manager, alone, moves both heads over one batch.            *)
(***************************************************************************)
LEMMA WarmupKeeps ==
    ASSUME Typed, ClaimInv, ManagerAlone', Warmup(Manager)
    PROVE  ClaimInv'
<1>1. ~Registered
  <2>1. Manager \in Workers
    BY DEF Workers
  <2>2. WorkerStep(Manager)
    BY DEF WorkerStep
  <2> QED  BY <2>2, ManagerSteps DEF ClaimInv
<1>2. /\ head = executorHead /\ Manager \in Workers
      /\ \A y \in Executors : xpc[y] = "idle" /\ y # Manager
  BY <1>1, ManagerAssumption DEF ClaimInv, ManagerAlone, Workers
<1>3. /\ executorHead' = executorHead + BatchSize
      /\ idx' = [idx EXCEPT ![Manager] = executorHead]
      /\ dirty' = [dirty EXCEPT ![BatchId(head)] = 1]
      /\ xpc' = [xpc EXCEPT ![Manager] = "reset"]
      /\ UNCHANGED <<tail, seen>>
  BY <1>2 DEF Warmup, Goto
<1>4. /\ xpc'[Manager] = "reset" /\ idx'[Manager] = executorHead
      /\ \A y \in Executors : /\ y # Manager /\ xpc'[y] = "idle"
                              /\ idx'[y] = idx[y]
  BY <1>2, <1>3 DEF Typed, TypeOK, Workers
<1>5. \A y \in Workers : Active(y)' => y = Manager
  BY <1>4 DEF Active, Workers
<1>6. tail <= executorHead
  BY DEF ClaimInv, ClaimsBounded
<1>7. WholeBatches'
  BY <1>3, <1>4, AlignedNext DEF ClaimInv, WholeBatches, Workers
<1>8. ClaimsBounded'
  <2>1. /\ tail' <= executorHead' /\ tail' <= idx'[Manager]
        /\ idx'[Manager] + BatchSize <= executorHead'
    BY <1>3, <1>4, <1>6, Numbers, SMT
  <2> QED  BY <1>4, <1>5, <2>1 DEF ClaimsBounded, Workers, Active
<1>9. ClaimsApart'
  BY <1>5 DEF ClaimsApart
<1>10. \A b \in BatchIds : dirty'[b] = 2 => dirty[b] = 2
  BY <1>3, SMT DEF Typed, TypeOK
<1>11. \A i \in Nat : Released(i) => Released(i)'
  <2>1. ASSUME NEW i \in Nat, Released(i) PROVE Released(i)'
    <3>1. i < executorHead' /\ i # executorHead
      BY <1>3, <2>1, Numbers, SMT DEF Released
    <3> QED  BY <1>4, <1>5, <3>1 DEF Released
  <2> QED  BY <2>1
<1>12. DirtyTwoIsReleased'
  BY <1>3, <1>10, <1>11, BatchIdInRange
     DEF ClaimInv, DirtyTwoIsReleased, Aligned
<1>13. AdvancePastReleased'
  BY <1>4 DEF AdvancePastReleased, Workers
<1> QED  BY <1>7, <1>8, <1>9, <1>12, <1>13 DEF ClaimInv

(***************************************************************************)
(* reset_batch: a batch marked 2 is one its worker has just let go.        *)
(***************************************************************************)
LEMMA ResetKeeps ==
    ASSUME Typed, ClaimInv, ManagerAlone', NEW x \in Workers, ResetBatch(x),
           x = Manager => \A y \in Executors : xpc[y] = "idle"
    PROVE  ClaimInv'
<1> DEFINE j == idx[x]
<1>1. /\ dirty' = [dirty EXCEPT ![BatchId(j)] = 2]
      /\ xpc' = [xpc EXCEPT ![x] = "move"]
      /\ UNCHANGED <<executorHead, tail, seen, idx>>
      /\ xpc[x] = "reset" /\ Active(x)
  BY DEF ResetBatch, Goto, Active
<1>2. /\ ~Active(x)' /\ xpc'[x] = "move"
      /\ \A y \in Workers \ {x} : xpc'[y] = xpc[y] /\ (Active(y)' <=> Active(y))
  BY <1>1 DEF Active, Typed, TypeOK
<1>3. WholeBatches' /\ ClaimsBounded' /\ ClaimsApart'
  BY <1>1, <1>2 DEF ClaimInv, WholeBatches, ClaimsBounded, ClaimsApart, Workers
<1>4. /\ Aligned(j) /\ tail <= j /\ j + BatchSize <= executorHead
      /\ x \in Executors => j + BatchSize <= tail + RingSize
      /\ Aligned(tail)
  BY <1>1 DEF ClaimInv, WholeBatches, ClaimsBounded
<1>5. \A i : Released(i) => Released(i)'
  BY <1>1, <1>2 DEF Released
<1>6. ASSUME NEW i \in Nat, Aligned(i), tail <= i, i < tail + RingSize,
             BatchId(i) = BatchId(j)
      PROVE  /\ i <= j
             /\ x \in Executors => i = j
  <2>1. i <= j
    BY <1>4, <1>6, Numbers, LeastOfBatchInWindow
  <2>2. ASSUME x \in Executors PROVE j <= i
    <3>1. j < tail + RingSize
      BY <1>4, <2>2, Numbers, SMT
    <3> QED  BY <1>4, <1>6, <3>1, Numbers, LeastOfBatchInWindow
  <2> QED  BY <2>1, <2>2, Numbers, SMT
<1>7. ASSUME NEW i \in Nat, Aligned(i), tail <= i, i < tail + RingSize,
             BatchId(i) = BatchId(j)
      PROVE  Released(i)'
  <2>1. i < executorHead'
    BY <1>1, <1>4, <1>6, <1>7, Numbers, SMT
  <2>2. ASSUME NEW y \in Workers, Active(y)' PROVE idx'[y] # i
    <3>1. y # x /\ Active(y) /\ idx'[y] = idx[y]
      BY <1>1, <1>2, <2>2
    <3>2. x \in Executors
      BY <3>1 DEF Workers, Active
    <3> QED  BY <1>1, <1>6, <1>7, <3>1, <3>2 DEF ClaimInv, ClaimsApart
  <2> QED  BY <2>1, <2>2 DEF Released
<1>8. DirtyTwoIsReleased'
  <2>1. SUFFICES ASSUME NEW i \in tail .. tail + RingSize - 1, Aligned(i),
                        dirty'[BatchId(i)] = 2
                 PROVE  Released(i)'
    BY <1>1 DEF DirtyTwoIsReleased
  <2>2. i \in Nat /\ tail <= i /\ i < tail + RingSize /\ BatchId(i) \in BatchIds
    BY <2>1, Numbers, BatchIdInRange, SMT DEF Aligned
  <2>3. CASE BatchId(i) = BatchId(j)
    BY <1>7, <2>1, <2>2, <2>3
  <2>4. CASE BatchId(i) # BatchId(j)
    <3>1. dirty[BatchId(i)] = 2
      BY <1>1, <2>1, <2>2, <2>4 DEF Typed, TypeOK
    <3> QED  BY <1>5, <2>1, <3>1 DEF ClaimInv, DirtyTwoIsReleased
  <2> QED  BY <2>3, <2>4
<1>9. AdvancePastReleased'
  <2>1. SUFFICES ASSUME NEW y \in Workers, xpc'[y] = "advance",
                        seen'[y] = tail'
                 PROVE  dirty'[BatchId(tail')] # 2 /\ Released(tail)'
    BY <1>1 DEF AdvancePastReleased
  <2>2. y # x /\ xpc[y] = "advance" /\ seen[y] = tail
    BY <1>1, <1>2, <2>1
  <2>3. dirty[BatchId(tail)] # 2 /\ Released(tail)
    BY <2>2 DEF ClaimInv, AdvancePastReleased
  <2>4. x \in Executors
    BY <2>2 DEF Workers
  <2>5. BatchId(tail) # BatchId(j)
    <3>1. SUFFICES ASSUME BatchId(tail) = BatchId(j) PROVE FALSE
      OBVIOUS
    <3>2. tail < tail + RingSize /\ tail <= tail
      BY Numbers, SMT
    <3>3. tail = j
      BY <1>4, <1>6, <2>4, <3>1, <3>2, Numbers
    <3> QED  BY <1>1, <2>3, <3>3 DEF Released
  <2> QED  BY <1>1, <1>5, <2>3, <2>5, Numbers, BatchIdInRange
           DEF Typed, TypeOK
<1> QED  BY <1>3, <1>8, <1>9 DEF ClaimInv

(***************************************************************************)
(* Taking the mark of the tail's batch: only a released batch had it.      *)
(***************************************************************************)
LEMMA TakeKeeps ==
    ASSUME Typed, ClaimInv, ManagerAlone', NEW x \in Workers, TakeDirty(x),
           IsFinished(BatchId(seen[x]))
    PROVE  ClaimInv'
<1>1. /\ dirty' = [dirty EXCEPT ![BatchId(seen[x])] = 0]
      /\ xpc' = [xpc EXCEPT ![x] = "advance"]
      /\ UNCHANGED <<executorHead, tail, seen, idx>>
      /\ xpc[x] = "take" /\ dirty[BatchId(seen[x])] = 2
  BY DEF TakeDirty, Goto, IsFinished
<1>2. /\ xpc'[x] = "advance"
      /\ \A y \in Workers \ {x} : xpc'[y] = xpc[y]
      /\ \A y \in Workers : Active(y)' <=> Active(y)
  BY <1>1 DEF Active, Typed, TypeOK
<1>3. WholeBatches' /\ ClaimsBounded' /\ ClaimsApart'
  BY <1>1, <1>2 DEF ClaimInv, WholeBatches, ClaimsBounded, ClaimsApart, Workers
<1>4. \A i : Released(i) => Released(i)'
  BY <1>1, <1>2 DEF Released
<1>5. \A b \in BatchIds : dirty'[b] = 2 => dirty[b] = 2
  BY <1>1, SMT DEF Typed, TypeOK
<1>6. DirtyTwoIsReleased'
  BY <1>1, <1>4, <1>5, BatchIdInRange DEF ClaimInv, DirtyTwoIsReleased, Aligned
<1>7. AdvancePastReleased'
  <2>1. SUFFICES ASSUME NEW y \in Workers, xpc'[y] = "advance", seen[y] = tail
                 PROVE  dirty'[BatchId(tail)] # 2 /\ Released(tail)'
    BY <1>1 DEF AdvancePastReleased
  <2>2. CASE y = x
    <3>1. tail \in tail .. tail + RingSize - 1 /\ Aligned(tail)
      BY Numbers, SMT DEF ClaimInv, WholeBatches
    <3>2. Released(tail)
      BY <1>1, <2>1, <2>2, <3>1 DEF ClaimInv, DirtyTwoIsReleased
    <3>3. dirty'[BatchId(tail)] = 0
      BY <1>1, <2>1, <2>2, Numbers, BatchIdInRange DEF Typed, TypeOK
    <3>4. Released(tail)'
      BY <1>1, <1>4, <3>2
    <3>5. dirty'[BatchId(tail)] # 2
      BY <3>3, SMT
    <3> QED  BY <3>4, <3>5
  <2>3. CASE y # x
    <3>1. dirty[BatchId(tail)] # 2 /\ Released(tail)
      BY <1>2, <2>1, <2>3 DEF ClaimInv, AdvancePastReleased
    <3>2. Released(tail)'
      BY <1>1, <1>4, <3>1
    <3>3. BatchId(tail) \in BatchIds
      BY Numbers, BatchIdInRange
    <3> QED  BY <1>5, <3>1, <3>2, <3>3
  <2> QED  BY <2>2, <2>3
<1> QED  BY <1>3, <1>6, <1>7 DEF ClaimInv

(***************************************************************************)
(* Moving the tail on: the batch it leaves is released and not marked, so  *)
(* the lap that begins there starts with an unclaimed, unmarked batch.     *)
(***************************************************************************)
LEMMA AdvanceKeeps ==
    ASSUME Typed, ClaimInv, ManagerAlone', NEW x \in Workers, AdvanceTail(x),
           tail = seen[x]
    PROVE  ClaimInv'
<1>1. /\ tail' = tail + BatchSize
      /\ xpc[x] = "advance" /\ xpc'[x] = "move"
      /\ \A y \in Workers \ {x} :
            xpc'[y] = IF xpc[y] = "asleep" THEN "idle" ELSE xpc[y]
      /\ UNCHANGED <<executorHead, dirty, seen, idx>>
  BY Numbers, HigherBoundFacts
     DEF AdvanceTail, ClaimInv, WholeBatches, Aligned
<1>2. \A y \in Workers : Active(y)' <=> Active(y)
  BY <1>1 DEF Active
<1>3. dirty[BatchId(tail)] # 2 /\ Released(tail)
  BY <1>1 DEF ClaimInv, AdvancePastReleased
<1>4. /\ Aligned(tail) /\ Aligned(tail') /\ Aligned(executorHead)
      /\ \A y \in Workers : Aligned(idx[y]) /\ Aligned(seen[y])
  BY <1>1, AlignedNext DEF ClaimInv, WholeBatches
<1>5. WholeBatches'
  BY <1>1, <1>4 DEF WholeBatches
<1>6. ClaimsBounded'
  <2>1. tail' <= executorHead'
    BY <1>1, <1>3, <1>4, AlignedApart DEF Released
  <2>2. ASSUME NEW y \in Workers, Active(y)'
        PROVE  tail' <= idx'[y] /\ idx'[y] + BatchSize <= executorHead'
    <3>1. Active(y) /\ tail <= idx[y] /\ idx[y] # tail
      BY <1>2, <1>3, <2>2 DEF Released, ClaimInv, ClaimsBounded
    <3>2. tail < idx[y]
      BY <3>1, Numbers, SMT
    <3> QED  BY <1>1, <1>4, <3>1, <3>2, AlignedApart DEF ClaimInv, ClaimsBounded
  <2>3. ASSUME NEW y \in Workers, xpc'[y] \in {"move_head", "take", "advance"}
        PROVE  seen'[y] <= tail'
    <3>1. seen[y] <= tail /\ seen'[y] = seen[y]
      BY <1>1, <2>3 DEF ClaimInv, ClaimsBounded
    <3> QED  BY <1>1, <3>1, Numbers, SMT
  <2>4. ASSUME NEW y \in Executors
        PROVE  /\ Active(y)' => idx'[y] + BatchSize <= tail' + RingSize
               /\ xpc'[y] = "claim" => seen'[y] + BatchSize <= tail' + RingSize
    <3>1. /\ Active(y)' => idx[y] + BatchSize <= tail + RingSize
          /\ xpc'[y] = "claim" => seen[y] + BatchSize <= tail + RingSize
          /\ y \in Workers
      BY <1>1, <1>2 DEF ClaimInv, ClaimsBounded, Workers
    <3> QED  BY <1>1, <3>1, Numbers, SMT
  <2> QED  BY <2>1, <2>2, <2>3, <2>4 DEF ClaimsBounded
<1>7. ClaimsApart'
  BY <1>1, <1>2 DEF ClaimInv, ClaimsApart
<1>8. \A i : Released(i) => Released(i)'
  BY <1>1, <1>2 DEF Released
<1>9. DirtyTwoIsReleased'
  <2>1. SUFFICES ASSUME NEW i \in tail' .. tail' + RingSize - 1, Aligned(i),
                        dirty[BatchId(i)] = 2
                 PROVE  Released(i)'
    BY <1>1 DEF DirtyTwoIsReleased
  <2>2. i < tail + RingSize
    <3>1. SUFFICES ASSUME tail + RingSize <= i PROVE FALSE
      BY <1>1, <2>1, Numbers, SMT
    <3>2. Aligned(tail + RingSize) /\ BatchId(tail + RingSize) = BatchId(tail)
      BY <1>4, BatchOfNextLap
    <3>3. i < tail + RingSize + BatchSize
      BY <1>1, <2>1, Numbers, SMT
    <3>4. ~(tail + RingSize < i)
      <4>1. SUFFICES ASSUME tail + RingSize < i PROVE FALSE
        OBVIOUS
      <4>2. tail + RingSize + BatchSize <= i
        BY <2>1, <3>2, <4>1, AlignedApart
      <4> QED  BY <1>1, <2>1, <3>3, <4>2, Numbers, SMT
    <3>5. i = tail + RingSize
      BY <1>1, <2>1, <3>1, <3>4, Numbers, SMT
    <3> QED  BY <1>3, <2>1, <3>2, <3>5
  <2>3. i \in tail .. tail + RingSize - 1
    BY <1>1, <2>1, <2>2, Numbers, SMT
  <2>4. Released(i)
    BY <2>1, <2>3 DEF ClaimInv, DirtyTwoIsReleased
  <2> QED  BY <1>8, <2>4
<1>10. AdvancePastReleased'
  <2>1. SUFFICES ASSUME NEW y \in Workers, xpc'[y] = "advance",
                        seen'[y] = tail'
                 PROVE  FALSE
    BY DEF AdvancePastReleased
  <2>2. xpc[y] = "advance" /\ seen[y] <= tail
    BY <1>1, <2>1 DEF ClaimInv, ClaimsBounded
  <2> QED  BY <1>1, <2>1, <2>2, Numbers, SMT
<1> QED  BY <1>5, <1>6, <1>7, <1>9, <1>10 DEF ClaimInv

(***************************************************************************)
(* A worker whose step goes to a state in which it claims nothing, keeps   *)
(* what it loaded or forgets it, takes a quiet step.                       *)
(***************************************************************************)
LEMMA Zero == Aligned(0)
<1>1. 0 = 0 * BatchSize
  BY BatchSizeAssumption, SMT
<1> QED  BY <1>1, MultipleIsAligned

LEMMA ReturnKeeps ==
    ASSUME Typed, ClaimInv, ManagerAlone', NEW x \in Workers, Return(x),
           UNCHANGED <<executorHead, tail, dirty>>
    PROVE  ClaimInv'
<1>1. /\ xpc'[x] = "idle" /\ seen'[x] = 0 /\ idx'[x] = 0
      /\ \A y \in Workers \ {x} :
            xpc'[y] = xpc[y] /\ seen'[y] = seen[y] /\ idx'[y] = idx[y]
  BY DEF Return, Typed, TypeOK
<1>2. ~Active(x)'
  BY <1>1 DEF Active
<1>3. Aligned(seen'[x]) /\ Aligned(idx'[x])
  BY <1>1, Zero
<1>4. xpc'[x] \notin {"claim", "move_head", "take", "advance"}
  BY <1>1
<1> QED  BY <1>1, <1>2, <1>3, <1>4, QuietStep

(***************************************************************************)
(* A worker that goes from one state to another and changes nothing else   *)
(* of the claims, not even what it loaded.                                 *)
(***************************************************************************)
LEMMA GotoKeeps ==
    ASSUME Typed, ClaimInv, ManagerAlone', NEW x \in Workers,
           NEW pc \in WorkerStates \ {"advance"}, Goto(x, pc),
           UNCHANGED <<executorHead, tail, dirty, seen, idx>>,
           pc \in {"await_first", "peek", "await_full", "seal", "spin", "run",
                  "reset"} => Active(x),
           pc = "claim" => seen[x] + BatchSize <= tail + RingSize,
           pc \in {"move_head", "take"} => seen[x] <= tail
    PROVE  ClaimInv'
<1>1. /\ xpc'[x] = pc
      /\ \A y \in Workers \ {x} :
            xpc'[y] = xpc[y] /\ seen'[y] = seen[y] /\ idx'[y] = idx[y]
      /\ seen'[x] = seen[x] /\ idx'[x] = idx[x]
  BY DEF Goto, Typed, TypeOK
<1>2. Aligned(seen'[x]) /\ Aligned(idx'[x])
  BY <1>1 DEF ClaimInv, WholeBatches
<1>3. Active(x)' => Active(x) /\ idx'[x] = idx[x]
  BY <1>1 DEF Active
<1>4. xpc'[x] # "advance"
  BY <1>1
<1> QED  BY <1>1, <1>2, <1>3, <1>4, QuietStep

(***************************************************************************)
(* A worker that loads an index of the ring.                               *)
(***************************************************************************)
LEMMA LoadKeeps ==
    ASSUME Typed, ClaimInv, ManagerAlone', NEW x \in Workers,
           NEW index, Aligned(index), seen' = [seen EXCEPT ![x] = index],
           NEW pc \in {"check", "move_head"}, Goto(x, pc),
           pc = "move_head" => index <= tail,
           UNCHANGED <<executorHead, tail, dirty, idx>>
    PROVE  ClaimInv'
<1>1. /\ xpc'[x] = pc
      /\ \A y \in Workers \ {x} :
            xpc'[y] = xpc[y] /\ seen'[y] = seen[y] /\ idx'[y] = idx[y]
      /\ seen'[x] = index /\ idx'[x] = idx[x]
  BY DEF Goto, Typed, TypeOK
<1>2. Aligned(seen'[x]) /\ Aligned(idx'[x])
  BY <1>1 DEF ClaimInv, WholeBatches
<1>3. ~Active(x)'
  BY <1>1 DEF Active
<1>4. xpc'[x] \notin {"claim", "take", "advance"}
  BY <1>1
<1> QED  BY <1>1, <1>2, <1>3, <1>4, QuietStep

(***************************************************************************)
(* An executor_head that passed the check leaves room for its batch.       *)
(***************************************************************************)
LEMMA RoomForBatch ==
    ASSUME NEW i, NEW t, Aligned(i), Aligned(t), ~IsFull(i, t)
    PROVE  i + BatchSize <= t + RingSize
<1>1. i < t + RingSize
  BY RingSizePositive, SMT DEF IsFull, Aligned
<1> QED  BY <1>1, BatchOfNextLap, AlignedApart

(***************************************************************************)
(* Every step of a worker keeps the invariant.                             *)
(***************************************************************************)
LEMMA WorkerClaims ==
    ASSUME Typed, ClaimInv, NEW x \in Workers, WorkerStep(x)
    PROVE  ClaimInv'
<1>1. ManagerAlone'
  BY ManagerStaysAlone DEF ClaimInv
<1>2. /\ Aligned(executorHead) /\ Aligned(tail) /\ Aligned(seen[x])
      /\ tail <= tail
  BY Numbers, SMT DEF ClaimInv, WholeBatches
<1>3. CASE LoadExecutorHead(x)
  BY <1>1, <1>2, <1>3, LoadKeeps DEF LoadExecutorHead
<1>4. CASE CheckRoom(x)
  <2>1. CASE IsFull(seen[x], tail)
    BY <1>1, <1>4, <2>1, GotoKeeps DEF CheckRoom, WorkerStates
  <2>2. CASE ~IsFull(seen[x], tail)
    BY <1>1, <1>2, <1>4, <2>2, RoomForBatch, GotoKeeps
       DEF CheckRoom, WorkerStates
  <2> QED  BY <2>1, <2>2
<1>5. CASE Listen(x)
  BY <1>1, <1>5, GotoKeeps DEF Listen, WorkerStates
<1>6. CASE Claim(x)
  <2>1. x \in Executors
    BY <1>6 DEF Claim, ClaimInv, ManagerAlone, Workers
  <2>2. CASE executorHead = seen[x]
    BY <1>1, <1>6, <2>1, <2>2, ClaimKeeps
  <2>3. CASE executorHead # seen[x]
    BY <1>1, <1>6, <2>3, GotoKeeps DEF Claim, WorkerStates
  <2> QED  BY <2>2, <2>3
<1>7. CASE AwaitFirst(x)
  BY <1>1, <1>7, GotoKeeps DEF AwaitFirst, WorkerStates, Active
<1>8. CASE Peek(x)
  BY <1>1, <1>8, GotoKeeps DEF Peek, WorkerStates, Active
<1>9. CASE DeadlineExpires(x)
  BY <1>1, <1>9, GotoKeeps DEF DeadlineExpires, WorkerStates, Active
<1>10. CASE AwaitFull(x)
  BY <1>1, <1>10, GotoKeeps DEF AwaitFull, WorkerStates, Active
<1>11. CASE Seal(x)
  <2>1. CASE head < LowerBound(idx[x])
    <3>1. /\ UNCHANGED <<executorHead, tail, dirty, xpc, seen, idx>>
          /\ xpc[x] = "seal"
      BY <1>11, <2>1 DEF Seal
    <3>2. Aligned(seen'[x]) /\ Aligned(idx'[x])
      BY <3>1 DEF ClaimInv, WholeBatches
    <3>3. /\ Active(x)' => Active(x) /\ idx'[x] = idx[x]
          /\ xpc'[x] \notin {"claim", "move_head", "take", "advance"}
      BY <3>1 DEF Active
    <3>4. \A y \in Workers \ {x} :
            xpc'[y] = xpc[y] /\ seen'[y] = seen[y] /\ idx'[y] = idx[y]
      BY <3>1
    <3> QED  BY <1>1, <3>1, <3>2, <3>3, <3>4, QuietStep
  <2>2. CASE ~(head < LowerBound(idx[x]))
    BY <1>1, <1>11, <2>2, GotoKeeps DEF Seal, WorkerStates, Active
  <2> QED  BY <2>1, <2>2
<1>12. CASE SpinWritten(x)
  <2>1. CASE writtenSlots[BatchId(idx[x])] > BatchSize - open[x]
    <3>1. /\ UNCHANGED <<executorHead, tail, dirty, xpc, seen, idx>>
          /\ xpc[x] = "spin"
      BY <1>12, <2>1 DEF SpinWritten
    <3>2. Aligned(seen'[x]) /\ Aligned(idx'[x])
      BY <3>1 DEF ClaimInv, WholeBatches
    <3>3. /\ Active(x)' => Active(x) /\ idx'[x] = idx[x]
          /\ xpc'[x] \notin {"claim", "move_head", "take", "advance"}
      BY <3>1 DEF Active
    <3>4. \A y \in Workers \ {x} :
            xpc'[y] = xpc[y] /\ seen'[y] = seen[y] /\ idx'[y] = idx[y]
      BY <3>1
    <3> QED  BY <1>1, <3>1, <3>2, <3>3, <3>4, QuietStep
  <2>2. CASE ~(writtenSlots[BatchId(idx[x])] > BatchSize - open[x])
    BY <1>1, <1>12, <2>2, GotoKeeps DEF SpinWritten, WorkerStates, Active
  <2> QED  BY <2>1, <2>2
<1>13. CASE Finish(x)
  BY <1>1, <1>13, GotoKeeps DEF Finish, WorkerStates, Active
<1>14. CASE Warmup(x)
  BY <1>1, <1>14, WarmupKeeps DEF Warmup
<1>15. CASE ResetBatch(x)
  <2>1. ASSUME x = Manager PROVE \A y \in Executors : xpc[y] = "idle"
    BY <2>1, ManagerSteps DEF ClaimInv, ManagerAlone
  <2> QED  BY <1>1, <1>15, <2>1, ResetKeeps
<1>16. CASE LoadTail(x)
  BY <1>1, <1>2, <1>16, LoadKeeps DEF LoadTail
<1>17. CASE CheckHead(x)
  <2>1. xpc[x] = "move_head" /\ UNCHANGED <<executorHead, tail, dirty>>
    BY <1>17 DEF CheckHead
  <2>2. CASE StillOpen(seen[x])
    BY <1>1, <1>17, <2>1, <2>2, ReturnKeeps DEF CheckHead
  <2>3. CASE ~StillOpen(seen[x])
    <3>1. seen[x] <= tail
      BY <2>1 DEF ClaimInv, ClaimsBounded
    <3> QED  BY <1>1, <1>17, <2>1, <2>3, <3>1, GotoKeeps
             DEF CheckHead, WorkerStates
  <2> QED  BY <2>2, <2>3
<1>18. CASE TakeDirty(x)
  <2>1. CASE IsFinished(BatchId(seen[x]))
    BY <1>1, <1>18, <2>1, TakeKeeps
  <2>2. CASE ~IsFinished(BatchId(seen[x]))
    BY <1>1, <1>18, <2>2, ReturnKeeps DEF TakeDirty
  <2> QED  BY <2>1, <2>2
<1>19. CASE AdvanceTail(x)
  <2>1. CASE tail = seen[x]
    BY <1>1, <1>19, <2>1, AdvanceKeeps
  <2>2. CASE tail # seen[x]
    BY <1>1, <1>19, <2>2, ReturnKeeps DEF AdvanceTail
  <2> QED  BY <2>1, <2>2
<1> QED
  BY <1>3, <1>4, <1>5, <1>6, <1>7, <1>8, <1>9, <1>10, <1>11, <1>12, <1>13,
     <1>14, <1>15, <1>16, <1>17, <1>18, <1>19 DEF WorkerStep

(***************************************************************************)
(* The invariant says more than the property: two batches claimed in the   *)
(* same lap have different memory.                                         *)
(***************************************************************************)
LEMMA InvImpliesClaimsInRing ==
    ASSUME Typed, ClaimInv
    PROVE  ClaimsInRing
<1>1. \A x \in Executors :
        Active(x) => tail <= idx[x] /\ idx[x] + BatchSize <= tail + RingSize
  BY DEF ClaimInv, ClaimsBounded, Workers
<1>2. ASSUME NEW x \in Executors, NEW y \in Executors, x # y,
             Active(x), Active(y), BatchId(idx[x]) = BatchId(idx[y])
      PROVE  FALSE
  <2>1. /\ x \in Workers /\ y \in Workers
        /\ Aligned(idx[x]) /\ Aligned(idx[y])
    BY DEF ClaimInv, WholeBatches, Workers
  <2>2. /\ tail <= idx[x] /\ idx[x] < tail + RingSize
        /\ tail <= idx[y] /\ idx[y] < tail + RingSize
    BY <1>1, <1>2, <2>1, Numbers, SMT
  <2>3. idx[x] <= idx[y] /\ idx[y] <= idx[x]
    BY <1>2, <2>1, <2>2, Numbers, LeastOfBatchInWindow
  <2>4. idx[x] = idx[y]
    BY <2>1, <2>3, Numbers, SMT
  <2> QED  BY <1>2, <2>1, <2>4 DEF ClaimInv, ClaimsApart
<1> QED  BY <1>1, <1>2 DEF ClaimsInRing

(***************************************************************************)
(* The claimed batches lie within one lap above the tail, and no two       *)
(* executors hold the same one, for every batch size, ring, number of      *)
(* executors and of requests (execute_on_batch, move_tail).                *)
(***************************************************************************)
THEOREM ClaimsSafe == Spec => []ClaimsInRing
<1>1. Init => ClaimInv
  BY InitClaims
<1>2. Typed /\ ClaimInv /\ [Next]_vars => ClaimInv'
  <2> SUFFICES ASSUME Typed, ClaimInv, [Next]_vars PROVE ClaimInv'
    OBVIOUS
  <2>1. CASE Next
    BY <2>1, RequestClaims, WorkerClaims DEF Next
  <2>2. CASE UNCHANGED vars
    BY <2>2 DEF ClaimInv, WholeBatches, ManagerAlone, Registered,
       ClaimsBounded, ClaimsApart, DirtyTwoIsReleased, AdvancePastReleased,
       Released, Active
  <2> QED  BY <2>1, <2>2
<1>3. Typed /\ ClaimInv => ClaimsInRing
  BY InvImpliesClaimsInRing
<1> QED  BY <1>1, <1>2, <1>3, TypedInvariant, PTL DEF Spec

-------------------------------------------------------------------------------
(***************************************************************************)
(* Slots.                                                                  *)
(***************************************************************************)

(***************************************************************************)
(* A call whose compare-and-exchange of head succeeds reserves slots of    *)
(* the lap of the tail only.                                               *)
(***************************************************************************)
WithinRing(r) == rpc[r] = "reserve" /\ HeadUnchanged(r)
                    => at[r] + size[r] <= tail + RingSize

ReservesWithinRing ==
    [][\A r \in Requests : Reserve(r) => WithinRing(r)]_vars

-------------------------------------------------------------------------------
(***************************************************************************)
(* Slots as sets of indices.                                               *)
(***************************************************************************)

\* What a request knows of its rows.
LEMMA RequestNumbers ==
    ASSUME Typed, NEW r \in Requests
    PROVE  /\ at[r] \in Nat /\ sent[r] \in Nat /\ size[r] \in Nat
           /\ size[r] > 0 /\ sent[r] <= size[r]
           /\ ChunkSize(r) \in Nat
           /\ ChunkSize(r) = IF size[r] - sent[r] < LowerBound(at[r]) + BatchSize - at[r]
                             THEN size[r] - sent[r]
                             ELSE LowerBound(at[r]) + BatchSize - at[r]
           /\ sent[r] < size[r] => ChunkSize(r) > 0
           /\ at[r] + ChunkSize(r) <= LowerBound(at[r]) + BatchSize
           /\ LowerBound(at[r]) \in Nat /\ LowerBound(at[r]) <= at[r]
           /\ at[r] < LowerBound(at[r]) + BatchSize
<1>1. /\ at[r] \in Nat /\ sent[r] \in Nat /\ size[r] \in Nat
      /\ size[r] > 0 /\ sent[r] <= size[r]
  <2>1. size[r] \in ReqSizes /\ at[r] \in Nat /\ sent[r] \in Nat
        /\ sent[r] <= size[r]
    BY DEF Typed, TypeOK, SentBounded
  <2>2. size[r] \in Nat \ {0}
    BY <2>1, ReqSizesAssumption
  <2> QED  BY <2>1, <2>2, SMT
<1>2. /\ LowerBound(at[r]) \in Nat /\ LowerBound(at[r]) <= at[r]
      /\ at[r] < LowerBound(at[r]) + BatchSize
      /\ HigherBound(at[r]) = LowerBound(at[r]) + BatchSize
  BY <1>1, BatchOfIndex, HigherBoundFacts
<1>3. ChunkSize(r) = IF size[r] - sent[r] < LowerBound(at[r]) + BatchSize - at[r]
                     THEN size[r] - sent[r]
                     ELSE LowerBound(at[r]) + BatchSize - at[r]
  <2> DEFINE higher == HigherBound(at[r])
  <2>1. ChunkSize(r) = IF size[r] - sent[r] < higher - at[r]
                       THEN size[r] - sent[r] ELSE higher - at[r]
    BY DEF ChunkSize
  <2>2. higher = LowerBound(at[r]) + BatchSize
    BY <1>2
  <2> HIDE DEF higher
  <2> QED  BY <1>1, <1>2, <2>1, <2>2, BatchSizeAssumption, SMT
<1> QED  BY <1>1, <1>2, <1>3, BatchSizeAssumption, SMT

LEMMA UnpublishedNat ==
    ASSUME Typed, NEW r \in Requests
    PROVE  Unpublished(r) \subseteq Nat
BY RequestNumbers, SMT DEF Unpublished

LEMMA RangeFinite ==
    ASSUME NEW i \in Nat, NEW S
    PROVE  /\ IsFiniteSet(S \cap BatchRange(i))
           /\ Cardinality(S \cap BatchRange(i)) \in Nat
           /\ Cardinality(S \cap BatchRange(i)) = 0 => S \cap BatchRange(i) = {}
<1>1. i + BatchSize - 1 \in Int /\ i \in Int
  BY BatchSizeAssumption, SMT
<1>2. IsFiniteSet(BatchRange(i))
  BY <1>1, FS_Interval DEF BatchRange
<1> QED  BY <1>2, FS_Intersection, FS_CardinalityType, FS_EmptySet

\* Which requests and slots are pending.
LEMMA PendingMember ==
    \A i : i \in Pending <=> \E r \in Requests : i \in Unpublished(r)
BY DEF Pending

(***************************************************************************)
(* Slots of a batch that lie in an interval, and slots below head.         *)
(***************************************************************************)
LEMMA IntervalInBatch ==
    ASSUME NEW i \in Nat, NEW h \in Nat, NEW n \in Nat, head = h
    PROVE  Cardinality((h .. h + n - 1) \cap BatchRange(i)) =
              (IF h + n <= i THEN 0
               ELSE IF h + n >= i + BatchSize THEN BatchSize ELSE h + n - i)
              - FilledTo(i)
<1> DEFINE lo == IF h < i THEN i ELSE h
           hi == IF h + n < i + BatchSize THEN h + n - 1 ELSE i + BatchSize - 1
<1>1. lo \in Int /\ hi \in Int
  BY BatchSizeAssumption, SMT
<1>2. (h .. h + n - 1) \cap BatchRange(i) = lo .. hi
  BY BatchSizeAssumption, SMT DEF BatchRange
<1>3. Cardinality(lo .. hi) = IF lo > hi THEN 0 ELSE hi - lo + 1
  BY <1>1, FS_Interval
<1>4. (IF lo > hi THEN 0 ELSE hi - lo + 1) =
              (IF h + n <= i THEN 0
               ELSE IF h + n >= i + BatchSize THEN BatchSize ELSE h + n - i)
              - FilledTo(i)
  BY BatchSizeAssumption, SMT DEF FilledTo
<1> HIDE DEF lo, hi
<1> QED  BY <1>2, <1>3, <1>4

(***************************************************************************)
(* A pending slot lies in the batch of its lower bound, in the lap of the  *)
(* tail, and this batch is not released.                                   *)
(***************************************************************************)
LEMMA PendingBatch ==
    ASSUME Typed, ClaimInv, SlotInv, NEW i \in Pending
    PROVE  /\ i \in Nat /\ LowerBound(i) \in Window
           /\ i \in PendingIn(LowerBound(i))
           /\ ~Released(LowerBound(i))
           /\ \A x \in Workers : Active(x) /\ idx[x] = LowerBound(i)
                                    => xpc[x] \notin {"run", "reset"}
<1>1. PICK r \in Requests : i \in Unpublished(r)
  BY PendingMember
<1>2. i \in Nat /\ tail <= i /\ i < tail + RingSize
  BY <1>1, UnpublishedNat DEF SlotInv, PendingInRing
<1>3. /\ Aligned(LowerBound(i)) /\ LowerBound(i) \in Nat
      /\ LowerBound(i) <= i /\ i < LowerBound(i) + BatchSize
  BY <1>2, BatchOfIndex DEF Aligned
<1>4. tail <= LowerBound(i)
  <2>1. SUFFICES ASSUME LowerBound(i) < tail PROVE FALSE
    BY <1>3, Numbers, SMT
  <2>2. Aligned(tail)
    BY DEF ClaimInv, WholeBatches
  <2>3. LowerBound(i) + BatchSize <= tail
    BY <1>3, <2>1, <2>2, AlignedApart
  <2> QED  BY <1>2, <1>3, <2>3, Numbers, SMT
<1>5. LowerBound(i) \in Window
  BY <1>2, <1>3, <1>4, Numbers, SMT DEF Window
<1>6. i \in PendingIn(LowerBound(i))
  BY <1>2, <1>3, Numbers, SMT DEF PendingIn, BatchRange
<1>7. ~Released(LowerBound(i))
  BY <1>5, <1>6 DEF SlotInv, ReleasedIsEmpty
<1>8. \A x \in Workers : Active(x) /\ idx[x] = LowerBound(i)
                            => xpc[x] \notin {"run", "reset"}
  BY <1>5, <1>6, <1>7 DEF SlotInv, SlotsAddUp
<1> QED  BY <1>2, <1>5, <1>6, <1>7, <1>8

\* The indices of the lap of the tail.
LEMMA WindowMember ==
    ASSUME Typed
    PROVE  \A i : i \in Window <=> /\ Aligned(i) /\ i \in Nat
                                   /\ tail <= i /\ i < tail + RingSize
BY Numbers, SMT DEF Window, Aligned

-------------------------------------------------------------------------------
(***************************************************************************)
(* The steps of a request.                                                 *)
(***************************************************************************)

\* What is pending follows from what each request has not published.
LEMMA PendingKept ==
    ASSUME \A q \in Requests : Unpublished(q)' = Unpublished(q)
    PROVE  Pending' = Pending /\ \A i : PendingIn(i)' = PendingIn(i)
<1>1. Pending' = Pending
  BY DEF Pending
<1> QED  BY <1>1 DEF PendingIn, BatchRange

(***************************************************************************)
(* A request that reserves and publishes nothing keeps the account.        *)
(***************************************************************************)
LEMMA QuietRequest ==
    ASSUME Typed, SlotInv, UNCHANGED <<ringVars, writtenSlots, workerVars>>,
           \A q \in Requests : Unpublished(q)' = Unpublished(q),
           ChunkProgress',
           \E r \in Requests : rpc'[r] # "new"
    PROVE  SlotInv'
<1>1. \A i : PendingIn(i)' = PendingIn(i)
  BY PendingKept
<1>2. HeadInRing'
  BY DEF SlotInv, HeadInRing
<1>3. PendingInRing' /\ PendingApart'
  BY DEF SlotInv, PendingInRing, PendingApart
<1>4. \A i : Released(i)' <=> Released(i)
  BY DEF Released, Active
<1>5. SealedBelowHead'
  BY <1>4 DEF SlotInv, SealedBelowHead, Sealed
<1>6. Window' = Window
  BY DEF Window
<1>7. ReleasedIsEmpty'
  BY <1>1, <1>4, <1>6 DEF SlotInv, ReleasedIsEmpty
<1>8. \A i : FilledTo(i)' = FilledTo(i)
  BY DEF FilledTo
<1>9. SlotsAddUp'
  BY <1>1, <1>4, <1>6, <1>8 DEF SlotInv, SlotsAddUp, Active, Sealed
<1> QED  BY <1>2, <1>3, <1>5, <1>7, <1>9 DEF SlotInv

(***************************************************************************)
(* Another request's view of its own chunk does not change.                *)
(***************************************************************************)
LEMMA OthersKept ==
    ASSUME NEW q \in Requests,
           rpc'[q] = rpc[q], at'[q] = at[q], sent'[q] = sent[q], size' = size
    PROVE  /\ ChunkSize(q)' = ChunkSize(q) /\ ChunkBatch(q)' = ChunkBatch(q)
           /\ ChunkStart(q)' = ChunkStart(q) /\ ChunkEnd(q)' = ChunkEnd(q)
           /\ Unpublished(q)' = Unpublished(q)
<1>1. ChunkSize(q)' = ChunkSize(q)
  BY DEF ChunkSize
<1> QED  BY <1>1 DEF ChunkBatch, ChunkStart, ChunkEnd, Unpublished

(***************************************************************************)
(* With the next chunk a request goes on where the last one ended.         *)
(***************************************************************************)
LEMMA NextChunkPending ==
    ASSUME Typed, NEW r \in Requests, rpc[r] \in {"publish", "notify"},
           sent[r] < size[r], NextChunk(r), size' = size
    PROVE  /\ Unpublished(r)' = at[r] + ChunkSize(r) .. at[r] + size[r] - sent[r] - 1
           /\ rpc'[r] \in {"wait", "write"}
           /\ rpc'[r] = "wait" => sent'[r] = size[r]
           /\ rpc'[r] = "write" => sent'[r] < size[r]
           /\ \A q \in Requests \ {r} :
                rpc'[q] = rpc[q] /\ at'[q] = at[q] /\ sent'[q] = sent[q]
<1> DEFINE n == ChunkSize(r)
           low == LowerBound(at[r])
<1>1. /\ at[r] \in Nat /\ sent[r] \in Nat /\ size[r] \in Nat /\ n \in Nat
      /\ sent[r] <= size[r]
      /\ n = IF size[r] - sent[r] < low + BatchSize - at[r]
             THEN size[r] - sent[r] ELSE low + BatchSize - at[r]
      /\ low \in Nat /\ HigherBound(at[r]) = low + BatchSize
  BY RequestNumbers, BatchOfIndex
<1>2. /\ sent'[r] = sent[r] + n
      /\ at'[r] = IF sent[r] + n = size[r] THEN at[r] ELSE low + BatchSize
      /\ rpc'[r] = IF sent[r] + n = size[r] THEN "wait" ELSE "write"
      /\ size'[r] = size[r]
      /\ \A q \in Requests \ {r} :
            rpc'[q] = rpc[q] /\ at'[q] = at[q] /\ sent'[q] = sent[q]
  BY <1>1 DEF NextChunk, Typed, TypeOK
<1> HIDE DEF n, low
<1>3. CASE sent[r] + n = size[r]
  <2>1. Unpublished(r)' = {}
    BY <1>2, <1>3 DEF Unpublished
  <2>2. at[r] + n .. at[r] + size[r] - sent[r] - 1 = {}
    BY <1>1, <1>3, SMT
  <2> QED  BY <1>2, <1>3, <2>1, <2>2 DEF n
<1>4. CASE sent[r] + n # size[r]
  <2>1. /\ at'[r] = at[r] + n /\ sent'[r] = sent[r] + n /\ sent'[r] < size[r]
        /\ rpc'[r] = "write"
    BY <1>1, <1>2, <1>4, BatchSizeAssumption, SMT
  <2>2. Unpublished(r)' = at'[r] .. at'[r] + size[r] - sent'[r] - 1
    BY <1>2, <2>1 DEF Unpublished
  <2>3. at'[r] + size[r] - sent'[r] - 1 = at[r] + size[r] - sent[r] - 1
    BY <1>1, <2>1, SMT
  <2> QED  BY <1>2, <2>1, <2>2, <2>3 DEF n
<1> QED  BY <1>3, <1>4

(***************************************************************************)
(* The steps of a request that neither reserve nor publish.                *)
(***************************************************************************)
LEMMA QuietPending ==
    ASSUME Typed, SlotInv, NEW r \in Requests,
           LoadHead(r) \/ CheckFull(r) \/ WriteChunk(r) \/ NotifyExecutor(r)
               \/ Collect(r) \/ (Reserve(r) /\ ~HeadUnchanged(r))
    PROVE  /\ UNCHANGED <<ringVars, writtenSlots, workerVars, size>>
           /\ \A q \in Requests : Unpublished(q)' = Unpublished(q)
           /\ \A q \in Requests \ {r} :
                rpc'[q] = rpc[q] /\ at'[q] = at[q] /\ sent'[q] = sent[q]
           /\ ChunkProgress' /\ rpc'[r] # "new"
<1>1. /\ UNCHANGED <<ringVars, writtenSlots, workerVars, size>>
      /\ \A q \in Requests \ {r} :
            rpc'[q] = rpc[q] /\ at'[q] = at[q] /\ sent'[q] = sent[q]
  <2>1. CASE LoadHead(r)
    BY <2>1 DEF LoadHead, Typed, TypeOK
  <2>2. CASE CheckFull(r)
    BY <2>2 DEF CheckFull, Typed, TypeOK
  <2>3. CASE WriteChunk(r)
    BY <2>3 DEF WriteChunk, Typed, TypeOK
  <2>4. CASE NotifyExecutor(r)
    BY <2>4 DEF NotifyExecutor, NextChunk, Typed, TypeOK
  <2>5. CASE Collect(r)
    BY <2>5 DEF Collect, Typed, TypeOK
  <2>6. CASE Reserve(r) /\ ~HeadUnchanged(r)
    BY <2>6 DEF Reserve, Typed, TypeOK
  <2> QED  BY <2>1, <2>2, <2>3, <2>4, <2>5, <2>6
<1>2. \A q \in Requests \ {r} : Unpublished(q)' = Unpublished(q)
  BY <1>1, OthersKept
<1>3. /\ Unpublished(r)' = Unpublished(r) /\ rpc'[r] # "new"
      /\ rpc'[r] \in {"new", "check", "retry", "reserve", "ring_full"}
            => sent'[r] = 0
      /\ rpc'[r] \in {"write", "publish", "notify"} => sent'[r] < size'[r]
      /\ rpc'[r] = "wait" => sent'[r] = size'[r]
  <2>1. CASE LoadHead(r) \/ CheckFull(r) \/ (Reserve(r) /\ ~HeadUnchanged(r))
    <3>1. /\ rpc[r] \in {"new", "check", "retry", "reserve"} /\ sent'[r] = sent[r]
          /\ rpc'[r] \in {"check", "ring_full", "reserve", "retry"}
      BY <2>1 DEF LoadHead, CheckFull, Reserve, Typed, TypeOK
    <3>2. Unpublished(r) = {} /\ Unpublished(r)' = {}
      BY <3>1 DEF Unpublished
    <3> QED  BY <3>1, <3>2 DEF SlotInv, ChunkProgress
  <2>2. CASE WriteChunk(r)
    <3>1. /\ rpc[r] = "write" /\ rpc'[r] \in {"publish", "error"}
          /\ at' = at /\ sent' = sent
      BY <2>2 DEF WriteChunk, Typed, TypeOK
    <3>2. Unpublished(r)' = Unpublished(r)
      BY <1>1, <3>1 DEF Unpublished
    <3> QED  BY <1>1, <3>1, <3>2 DEF SlotInv, ChunkProgress
  <2>3. CASE NotifyExecutor(r)
    <3>1. rpc[r] = "notify" /\ NextChunk(r) /\ sent[r] < size[r]
      BY <2>3 DEF NotifyExecutor, SlotInv, ChunkProgress
    <3>2. Unpublished(r) = at[r] + ChunkSize(r) .. at[r] + size[r] - sent[r] - 1
      BY <3>1 DEF Unpublished
    <3> QED  BY <1>1, <3>1, <3>2, NextChunkPending
  <2>4. CASE Collect(r)
    <3>1. /\ rpc[r] = "wait" /\ rpc'[r] \in {"wait", "ok", "error"}
          /\ at' = at /\ sent' = sent /\ sent[r] = size[r]
      BY <2>4 DEF Collect, Typed, TypeOK, SlotInv, ChunkProgress
    <3>2. at[r] .. at[r] + size[r] - sent[r] - 1 = {}
      BY <3>1, RequestNumbers, SMT
    <3>3. Unpublished(r) = {} /\ Unpublished(r)' = {}
      BY <1>1, <3>1, <3>2 DEF Unpublished
    <3> QED  BY <1>1, <3>1, <3>3
  <2> QED  BY <2>1, <2>2, <2>3, <2>4
<1>4. ChunkProgress'
  <2>1. \A q \in Requests \ {r} :
            rpc'[q] = rpc[q] /\ sent'[q] = sent[q] /\ size'[q] = size[q]
    BY <1>1
  <2>2. /\ rpc'[r] \in {"new", "check", "retry", "reserve", "ring_full"}
            => sent'[r] = 0
        /\ rpc'[r] \in {"write", "publish", "notify"} => sent'[r] < size'[r]
        /\ rpc'[r] = "wait" => sent'[r] = size'[r]
    BY <1>1, <1>3
  <2> QED  BY <2>1, <2>2 DEF SlotInv, ChunkProgress
<1> QED  BY <1>1, <1>2, <1>3, <1>4

LEMMA OtherRequestSteps ==
    ASSUME Typed, SlotInv, NEW r \in Requests,
           LoadHead(r) \/ CheckFull(r) \/ WriteChunk(r) \/ NotifyExecutor(r)
               \/ Collect(r) \/ (Reserve(r) /\ ~HeadUnchanged(r))
    PROVE  SlotInv'
BY QuietPending, QuietRequest

\* Reserving: the slots from head on become pending.
LEMMA ReserveMoves ==
    ASSUME Typed, SlotInv, NEW r \in Requests, Reserve(r), HeadUnchanged(r)
    PROVE  /\ sent[r] = 0 /\ at[r] = head /\ rpc[r] = "reserve"
           /\ head' = head + size[r] /\ rpc'[r] = "write"
           /\ UNCHANGED <<executorHead, tail, trackerVars, size, at, sent,
                          resv, answer, workerVars>>
           /\ \A q \in Requests \ {r} : /\ rpc'[q] = rpc[q]
                                        /\ Unpublished(q)' = Unpublished(q)
           /\ Unpublished(r) = {}
           /\ Unpublished(r)' = head .. head + size[r] - 1
           /\ Pending' = Pending \cup (head .. head + size[r] - 1)
<1> DEFINE n == size[r]
           new == head .. head + n - 1
<1>1. /\ head \in Nat /\ n \in Nat
      /\ sent[r] = 0 /\ at[r] = head /\ rpc[r] = "reserve"
  BY Numbers, RequestNumbers DEF Reserve, HeadUnchanged, SlotInv, ChunkProgress
<1>2. /\ head' = head + n /\ rpc' = [rpc EXCEPT ![r] = "write"]
      /\ UNCHANGED <<executorHead, tail, trackerVars, size, at, sent, resv,
                     answer, workerVars>>
  BY <1>1 DEF Reserve
<1>3. rpc'[r] = "write" /\ \A q \in Requests \ {r} : rpc'[q] = rpc[q]
  BY <1>2 DEF Typed, TypeOK
<1>4. Unpublished(r) = {} /\ Unpublished(r)' = new
  <2>1. Unpublished(r)' = at[r] .. at[r] + n - 0 - 1
    BY <1>1, <1>2, <1>3 DEF Unpublished
  <2>2. head + n - 0 - 1 = head + n - 1
    BY <1>1, SMT
  <2> QED  BY <1>1, <2>1, <2>2 DEF Unpublished
<1>5. \A q \in Requests \ {r} : Unpublished(q)' = Unpublished(q)
  BY <1>2, <1>3, OthersKept
<1>6. Pending' = Pending \cup new
  BY <1>4, <1>5 DEF Pending
<1> HIDE DEF n, new
<1> QED  BY <1>1, <1>2, <1>3, <1>4, <1>5, <1>6 DEF n, new

(***************************************************************************)
(* Reserving: the slots above head, which nobody else has, become pending. *)
(***************************************************************************)
LEMMA ReserveSlots ==
    ASSUME Typed, ClaimInv, SlotInv, NEW r \in Requests, Reserve(r),
           HeadUnchanged(r), WithinRing(r)
    PROVE  SlotInv'
<1> DEFINE n == size[r]
           new == head .. head + n - 1
<1>1. /\ head \in Nat /\ tail \in Nat /\ RingSize \in Nat /\ BatchSize \in Nat
      /\ n \in Nat /\ n > 0 /\ sent[r] = 0 /\ at[r] = head /\ rpc[r] = "reserve"
      /\ head + n <= tail + RingSize
  BY Numbers, RequestNumbers
     DEF Reserve, HeadUnchanged, WithinRing, SlotInv, ChunkProgress
<1>2. /\ head' = head + n
      /\ UNCHANGED <<executorHead, tail, trackerVars, size, at, sent, workerVars>>
  BY ReserveMoves
<1>3. rpc'[r] = "write" /\ \A q \in Requests \ {r} : rpc'[q] = rpc[q]
  BY ReserveMoves
<1>4. Unpublished(r) = {} /\ Unpublished(r)' = new
  BY ReserveMoves
<1>5. \A q \in Requests \ {r} : Unpublished(q)' = Unpublished(q)
  BY ReserveMoves
<1>6. Pending' = Pending \cup new
  BY ReserveMoves
<1>7. Pending \cap new = {}
  <2>1. \A i \in Pending : i \in Nat /\ i < head
    BY PendingMember, UnpublishedNat DEF SlotInv, PendingInRing
  <2> QED  BY <1>1, <2>1, SMT
<1>8. \A i : PendingIn(i)' = PendingIn(i) \cup (new \cap BatchRange(i))
  BY <1>6 DEF PendingIn, BatchRange
<1>9. ChunkProgress'
  <2>1. sent'[r] < size'[r]
    BY <1>1, <1>2
  <2> QED  BY <1>2, <1>3, <2>1 DEF SlotInv, ChunkProgress
<1>10. HeadInRing'
  <2>1. tail' <= head' /\ head' <= tail' + RingSize
    BY <1>1, <1>2, SMT DEF SlotInv, HeadInRing
  <2>2. ASSUME NEW x \in Workers, xpc'[x] \in {"take", "advance"}
        PROVE  HigherBound(seen'[x]) < head'
    <3>1. HigherBound(seen[x]) < head /\ HigherBound(seen[x]) \in Nat
      BY <1>2, <2>2, Numbers, HigherBoundFacts DEF SlotInv, HeadInRing
    <3>2. seen'[x] = seen[x] /\ HigherBound(seen'[x]) = HigherBound(seen[x])
      BY <1>2
    <3> QED  BY <1>1, <1>2, <3>1, <3>2, SMT
  <2> QED  BY <2>1, <2>2 DEF HeadInRing
<1>11. PendingInRing'
  <2> SUFFICES ASSUME NEW q \in Requests, NEW i \in Unpublished(q)'
               PROVE  tail <= i /\ i < head' /\ i < tail + RingSize
    BY <1>2 DEF PendingInRing
  <2>1. CASE q = r
    BY <1>1, <1>2, <1>4, <2>1, SMT DEF SlotInv, HeadInRing
  <2>2. CASE q # r
    <3>1. i \in Nat /\ tail <= i /\ i < head /\ i < tail + RingSize
      BY <1>5, <2>2, UnpublishedNat DEF SlotInv, PendingInRing
    <3> QED  BY <1>1, <1>2, <3>1, SMT
  <2> QED  BY <2>1, <2>2
<1>12. PendingApart'
  <2>1. \A q \in Requests : Unpublished(q) \cap new = {}
    BY <1>7 DEF Pending
  <2>2. \A q, p \in Requests : q # p => Unpublished(q) \cap Unpublished(p) = {}
    BY DEF SlotInv, PendingApart
  <2> HIDE DEF new
  <2>3. \A q \in Requests : Unpublished(q)' = IF q = r THEN new ELSE Unpublished(q)
    BY <1>4, <1>5
  <2> QED  BY <2>1, <2>2, <2>3 DEF PendingApart
<1>13. \A i : Released(i)' <=> Released(i)
  BY <1>2 DEF Released, Active
<1>14. SealedBelowHead'
  <2>1. ASSUME NEW x \in Workers, Sealed(x)'
        PROVE  /\ idx'[x] + BatchSize <= head'
               /\ xpc'[x] = "spin" => open'[x] <= BatchSize
    <3>1. /\ idx[x] \in Nat /\ idx[x] + BatchSize <= head
          /\ xpc[x] = "spin" => open[x] <= BatchSize
      BY <1>2, <2>1, Numbers DEF SlotInv, SealedBelowHead, Sealed
    <3> QED  BY <1>1, <1>2, <3>1, SMT
  <2>2. ASSUME NEW i \in 0 .. executorHead, Aligned(i), Released(i)'
        PROVE  i + BatchSize <= head'
    <3>1. i + BatchSize <= head /\ i \in Nat
      BY <1>13, <2>2, Numbers, SMT DEF SlotInv, SealedBelowHead
    <3> QED  BY <1>1, <1>2, <3>1, SMT
  <2> QED  BY <1>2, <2>1, <2>2 DEF SealedBelowHead
<1>15. ASSUME NEW i \in Window, i + BatchSize <= head
       PROVE  PendingIn(i)' = PendingIn(i)
  <2>1. i \in Nat
    BY WindowMember
  <2>2. new \cap BatchRange(i) = {}
    BY <1>1, <1>15, <2>1, SMT DEF BatchRange
  <2> QED  BY <1>8, <2>2
<1>16. ReleasedIsEmpty'
  <2>1. ASSUME NEW i \in Window, Released(i)
        PROVE  writtenSlots'[BatchId(i)] = 0 /\ PendingIn(i)' = {}
    <3>1. i \in 0 .. executorHead /\ Aligned(i)
      BY <2>1, WindowMember, Numbers, SMT DEF Released
    <3>2. i + BatchSize <= head
      BY <2>1, <3>1 DEF SlotInv, SealedBelowHead
    <3> QED  BY <1>2, <1>15, <2>1, <3>2 DEF SlotInv, ReleasedIsEmpty
  <2>2. Window' = Window
    BY <1>2 DEF Window
  <2> QED  BY <1>3, <1>13, <2>1, <2>2 DEF ReleasedIsEmpty
<1>17. SlotsAddUp'
  <2>1. Window' = Window
    BY <1>2 DEF Window
  <2> SUFFICES ASSUME NEW i \in Window, ~Released(i)
               PROVE  /\ \A x \in Workers : Active(x)' /\ idx'[x] = i =>
                           /\ xpc'[x] = "spin" => writtenSlots'[BatchId(i)]
                                 + Cardinality(PendingIn(i)') = BatchSize - open'[x]
                           /\ xpc'[x] \in {"run", "reset"} => PendingIn(i)' = {}
                      /\ (\A x \in Workers : Sealed(x)' => idx'[x] # i) =>
                           writtenSlots'[BatchId(i)] + Cardinality(PendingIn(i)')
                                 = FilledTo(i)'
    BY <1>13, <2>1 DEF SlotsAddUp
  <2>2. i \in Nat
    BY WindowMember
  <2>3. CASE \E x \in Workers : Sealed(x) /\ idx[x] = i
    <3>1. i + BatchSize <= head
      BY <2>3 DEF SlotInv, SealedBelowHead
    <3>2. PendingIn(i)' = PendingIn(i)
      BY <1>15, <3>1
    <3> QED  BY <1>2, <2>3, <3>2 DEF SlotInv, SlotsAddUp, Active, Sealed
  <2>4. CASE \A x \in Workers : Sealed(x) => idx[x] # i
    <3>1. writtenSlots[BatchId(i)] + Cardinality(PendingIn(i)) = FilledTo(i)
      BY <2>4 DEF SlotInv, SlotsAddUp
    <3>2. Cardinality(PendingIn(i)')
            = Cardinality(PendingIn(i)) + Cardinality(new \cap BatchRange(i))
      <4>1. PendingIn(i) \cap (new \cap BatchRange(i)) = {}
        BY <1>7 DEF PendingIn
      <4>2. /\ IsFiniteSet(PendingIn(i)) /\ IsFiniteSet(new \cap BatchRange(i))
            /\ Cardinality(PendingIn(i)) \in Nat
            /\ Cardinality(new \cap BatchRange(i)) \in Nat
        BY <2>2, RangeFinite DEF PendingIn
      <4>3. Cardinality(PendingIn(i) \cup (new \cap BatchRange(i)))
              = Cardinality(PendingIn(i)) + Cardinality(new \cap BatchRange(i)) - 0
        BY <4>1, <4>2, FS_Union, FS_EmptySet
      <4>4. PendingIn(i)' = PendingIn(i) \cup (new \cap BatchRange(i))
        BY <1>8
      <4> HIDE DEF new
      <4> QED  BY <4>2, <4>3, <4>4
    <3>3. Cardinality(new \cap BatchRange(i)) = FilledTo(i)' - FilledTo(i)
      <4>1. FilledTo(i)' = IF head + n <= i THEN 0
                           ELSE IF head + n >= i + BatchSize THEN BatchSize
                           ELSE head + n - i
        BY <1>1, <1>2, <2>2, SMT DEF FilledTo
      <4>2. Cardinality(new \cap BatchRange(i))
              = (IF head + n <= i THEN 0
                 ELSE IF head + n >= i + BatchSize THEN BatchSize
                 ELSE head + n - i) - FilledTo(i)
        <5> HIDE DEF n
        <5> QED  BY <1>1, <2>2, IntervalInBatch
      <4> HIDE DEF new, n
      <4> QED  BY <4>1, <4>2
    <3>4. /\ writtenSlots[BatchId(i)] \in Nat /\ Cardinality(PendingIn(i)) \in Nat
          /\ FilledTo(i)' \in Nat /\ FilledTo(i) \in Nat
      <4>1. writtenSlots[BatchId(i)] \in Nat
        BY <2>2, BatchIdInRange DEF Typed, TypeOK
      <4>2. Cardinality(PendingIn(i)) \in Nat
        BY <2>2, RangeFinite DEF PendingIn
      <4> QED  BY <1>1, <1>2, <2>2, <4>1, <4>2, SMT DEF FilledTo
    <3>5. writtenSlots[BatchId(i)] + Cardinality(PendingIn(i)') = FilledTo(i)'
      BY <3>1, <3>2, <3>3, <3>4, SMT
    <3> QED  BY <1>2, <2>4, <3>5 DEF Active, Sealed
  <2> QED  BY <2>3, <2>4
<1> QED  BY <1>9, <1>10, <1>11, <1>12, <1>14, <1>16, <1>17 DEF SlotInv

(***************************************************************************)
(* Publishing: the slots of the chunk go over from pending to written.     *)
(***************************************************************************)
LEMMA PublishMoves ==
    ASSUME Typed, SlotInv, NEW r \in Requests, Publish(r)
    PROVE  /\ Unpublished(r) = at[r] .. at[r] + size[r] - sent[r] - 1
           /\ Unpublished(r)' = at[r] + ChunkSize(r) .. at[r] + size[r] - sent[r] - 1
           /\ \A q \in Requests \ {r} : /\ Unpublished(q)' = Unpublished(q)
                                        /\ rpc'[q] = rpc[q] /\ sent'[q] = sent[q]
           /\ ChunkProgress' /\ rpc'[r] # "new"
<1>1. /\ rpc[r] = "publish" /\ sent[r] < size[r] /\ size' = size
      /\ Unpublished(r) = at[r] .. at[r] + size[r] - sent[r] - 1
  BY DEF Publish, SlotInv, ChunkProgress, Unpublished
<1>2. CASE MustNotify(r)
  <2>1. rpc' = [rpc EXCEPT ![r] = "notify"] /\ UNCHANGED <<sent, at, size>>
    BY <1>2 DEF Publish
  <2>2. /\ rpc'[r] = "notify"
        /\ \A q \in Requests \ {r} :
            rpc'[q] = rpc[q] /\ at'[q] = at[q] /\ sent'[q] = sent[q]
    BY <2>1 DEF Typed, TypeOK
  <2>3. ChunkSize(r)' = ChunkSize(r)
    BY <2>1 DEF ChunkSize
  <2>4. Unpublished(r)' = at[r] + ChunkSize(r) .. at[r] + size[r] - sent[r] - 1
    BY <2>1, <2>2, <2>3 DEF Unpublished
  <2>5. ChunkProgress'
    BY <1>1, <2>1, <2>2 DEF SlotInv, ChunkProgress
  <2> QED  BY <1>1, <2>1, <2>2, <2>4, <2>5, OthersKept
<1>3. CASE ~MustNotify(r)
  <2>1. NextChunk(r)
    BY <1>3 DEF Publish
  <2>2. /\ Unpublished(r)' = at[r] + ChunkSize(r) .. at[r] + size[r] - sent[r] - 1
        /\ rpc'[r] \in {"wait", "write"}
        /\ rpc'[r] = "wait" => sent'[r] = size[r]
        /\ rpc'[r] = "write" => sent'[r] < size[r]
        /\ \A q \in Requests \ {r} :
            rpc'[q] = rpc[q] /\ at'[q] = at[q] /\ sent'[q] = sent[q]
    BY <1>1, <2>1, NextChunkPending
  <2>3. ChunkProgress'
    BY <1>1, <2>2 DEF SlotInv, ChunkProgress
  <2> QED  BY <1>1, <2>2, <2>3, OthersKept
<1> QED  BY <1>2, <1>3

\* The first n indices of a range of m, and the others.
LEMMA SplitRange ==
    ASSUME NEW a \in Nat, NEW n \in Nat, NEW m \in Nat, n > 0, n <= m
    PROVE  LET chunk == a .. a + n - 1
               left  == a + n .. a + m - 1
           IN  /\ a \in chunk /\ chunk \cap left = {}
               /\ a .. a + m - 1 = chunk \cup left
<1> DEFINE chunk == a .. a + n - 1
           left  == a + n .. a + m - 1
<1>1. \A i : i \in a .. a + m - 1 <=> i \in chunk \/ i \in left
  OBVIOUS
<1>2. a \in chunk /\ \A i : ~(i \in chunk /\ i \in left)
  OBVIOUS
<1> HIDE DEF chunk, left
<1> QED  BY <1>1, <1>2

LEMMA PublishRemoves ==
    ASSUME Typed, SlotInv, NEW r \in Requests, Publish(r)
    PROVE  LET chunk == at[r] .. at[r] + ChunkSize(r) - 1 IN
           /\ chunk \subseteq Unpublished(r) /\ at[r] \in chunk
           /\ Unpublished(r) = chunk \cup Unpublished(r)'
           /\ Pending' = Pending \ chunk
<1> DEFINE n == ChunkSize(r)
           chunk == at[r] .. at[r] + n - 1
<1>0. PICK low : low = LowerBound(at[r])
  OBVIOUS
<1>1. /\ rpc[r] = "publish" /\ ChunkProgress' /\ rpc'[r] # "new"
      /\ UNCHANGED <<ringVars, size, workerVars>>
      /\ writtenSlots' = [writtenSlots EXCEPT ![ChunkBatch(r)] = @ + n]
      /\ \A q \in Requests \ {r} : Unpublished(q)' = Unpublished(q)
      /\ Unpublished(r) = at[r] .. at[r] + size[r] - sent[r] - 1
      /\ Unpublished(r)' = at[r] + n .. at[r] + size[r] - sent[r] - 1
  BY PublishMoves DEF Publish
<1>2. /\ at[r] \in Nat /\ sent[r] \in Nat /\ size[r] \in Nat
      /\ n \in Nat /\ n > 0 /\ n <= size[r] - sent[r]
      /\ low \in Nat /\ low <= at[r] /\ at[r] + n <= low + BatchSize
      /\ BatchSize \in Nat /\ sent[r] < size[r]
  <2>1. sent[r] < size[r]
    BY <1>1 DEF SlotInv, ChunkProgress
  <2> HIDE DEF n
  <2>2. sent[r] + n <= size[r]
    BY ChunkFacts DEF n
  <2>3. /\ at[r] \in Nat /\ sent[r] \in Nat /\ size[r] \in Nat
        /\ n \in Nat /\ n > 0
        /\ low \in Nat /\ low <= at[r] /\ at[r] + n <= low + BatchSize
    BY <1>0, <2>1, RequestNumbers DEF n
  <2> QED  BY <2>1, <2>2, <2>3, Numbers, SMT
<1> HIDE DEF n
<1>3. /\ at[r] \in chunk /\ chunk \cap Unpublished(r)' = {}
      /\ Unpublished(r) = chunk \cup Unpublished(r)'
  <2>1. PICK m \in Nat : m = size[r] - sent[r] /\ n <= m
    BY <1>2
  <2>2. /\ Unpublished(r) = at[r] .. at[r] + m - 1
        /\ Unpublished(r)' = at[r] + n .. at[r] + m - 1
    BY <1>1, <1>2, <2>1
  <2>3. /\ at[r] \in chunk /\ chunk \cap (at[r] + n .. at[r] + m - 1) = {}
        /\ at[r] .. at[r] + m - 1 = chunk \cup (at[r] + n .. at[r] + m - 1)
    BY <1>2, <2>1, SplitRange
  <2> HIDE DEF chunk
  <2> QED  BY <2>2, <2>3
<1>4. Pending' = Pending \ chunk
  <2> HIDE DEF chunk
  <2>1. \A q \in Requests \ {r} : Unpublished(q) \cap chunk = {}
    BY <1>3 DEF SlotInv, PendingApart
  <2>2. \A i : i \in Pending' <=> \E q \in Requests : i \in Unpublished(q)'
    BY DEF Pending
  <2>3. \A q \in Requests : Unpublished(q)' = Unpublished(q) \ chunk
    BY <1>1, <1>3, <2>1
  <2> QED  BY <2>2, <2>3, PendingMember
<1> QED  BY <1>3, <1>4 DEF n

LEMMA PublishSlots ==
    ASSUME Typed, ClaimInv, SlotInv, NEW r \in Requests, Publish(r)
    PROVE  SlotInv'
<1> DEFINE n == ChunkSize(r)
           chunk == at[r] .. at[r] + n - 1
<1>0. PICK low : low = LowerBound(at[r])
  OBVIOUS
<1>1. /\ rpc[r] = "publish" /\ ChunkProgress' /\ rpc'[r] # "new"
      /\ UNCHANGED <<ringVars, size, workerVars>>
      /\ writtenSlots' = [writtenSlots EXCEPT ![ChunkBatch(r)] = @ + n]
      /\ \A q \in Requests \ {r} : Unpublished(q)' = Unpublished(q)
      /\ Unpublished(r) = at[r] .. at[r] + size[r] - sent[r] - 1
      /\ Unpublished(r)' = at[r] + n .. at[r] + size[r] - sent[r] - 1
  BY PublishMoves DEF Publish
<1>2. /\ at[r] \in Nat /\ sent[r] \in Nat /\ size[r] \in Nat
      /\ n \in Nat /\ n > 0 /\ n <= size[r] - sent[r]
      /\ low \in Nat /\ low <= at[r] /\ at[r] + n <= low + BatchSize
      /\ BatchSize \in Nat /\ sent[r] < size[r]
  <2>1. sent[r] < size[r]
    BY <1>1 DEF SlotInv, ChunkProgress
  <2> HIDE DEF n
  <2>2. sent[r] + n <= size[r]
    BY ChunkFacts DEF n
  <2>3. /\ at[r] \in Nat /\ sent[r] \in Nat /\ size[r] \in Nat
        /\ n \in Nat /\ n > 0
        /\ low \in Nat /\ low <= at[r] /\ at[r] + n <= low + BatchSize
    BY <1>0, <2>1, RequestNumbers DEF n
  <2> QED  BY <2>1, <2>2, <2>3, Numbers, SMT
<1> HIDE DEF n
<1>3. /\ at[r] \in chunk /\ chunk \cap Unpublished(r)' = {}
      /\ Unpublished(r) = chunk \cup Unpublished(r)'
  <2>1. PICK m \in Nat : m = size[r] - sent[r] /\ n <= m
    BY <1>2
  <2>2. /\ Unpublished(r) = at[r] .. at[r] + m - 1
        /\ Unpublished(r)' = at[r] + n .. at[r] + m - 1
    BY <1>1, <1>2, <2>1
  <2>3. /\ at[r] \in chunk /\ chunk \cap (at[r] + n .. at[r] + m - 1) = {}
        /\ at[r] .. at[r] + m - 1 = chunk \cup (at[r] + n .. at[r] + m - 1)
    BY <1>2, <2>1, SplitRange
  <2> HIDE DEF chunk
  <2> QED  BY <2>2, <2>3
<1>4. at[r] \in Pending
  <2>1. at[r] \in Unpublished(r)
    BY <1>3
  <2> QED  BY <2>1, PendingMember
<1>5. /\ Aligned(low) /\ BatchId(low) = ChunkBatch(r)
  BY <1>0, <1>2, BatchOfIndex DEF ChunkBatch
<1>6. /\ low \in Window /\ ~Released(low)
      /\ \A x \in Workers : Active(x) /\ idx[x] = low
                                => xpc[x] \notin {"run", "reset"}
  BY <1>0, <1>4, PendingBatch
<1>7. Pending' = Pending \ chunk
  BY PublishRemoves DEF n
<1>8. chunk \subseteq PendingIn(low)
  <2>1. chunk \subseteq BatchRange(low)
    BY <1>2, SMT DEF BatchRange
  <2>2. chunk \subseteq Pending
    BY <1>3, PendingMember
  <2> QED  BY <2>1, <2>2 DEF PendingIn
<1>9. Cardinality(PendingIn(low)') = Cardinality(PendingIn(low)) - n
  <2>1. PendingIn(low)' = PendingIn(low) \ chunk
    BY <1>7 DEF PendingIn, BatchRange
  <2>2. PendingIn(low) \cap chunk = chunk
    BY <1>8
  <2>3. Cardinality(chunk) = n
    <3> DEFINE last == at[r] + n - 1
    <3>1. at[r] \in Int /\ last \in Int
      BY <1>2, SMT
    <3>2. IF at[r] > last THEN n = 0 ELSE n = last - at[r] + 1
      BY <1>2, SMT
    <3>3. chunk = at[r] .. last
      OBVIOUS
    <3> HIDE DEF last, chunk
    <3>4. Cardinality(at[r] .. last) = IF at[r] > last THEN 0 ELSE last - at[r] + 1
      BY <3>1, FS_Interval
    <3> QED  BY <3>2, <3>3, <3>4
  <2>4. IsFiniteSet(PendingIn(low))
    BY <1>2, RangeFinite DEF PendingIn
  <2> HIDE DEF chunk
  <2>5. Cardinality(PendingIn(low) \ chunk)
          = Cardinality(PendingIn(low)) - Cardinality(PendingIn(low) \cap chunk)
    BY <2>4, FS_Difference
  <2> QED  BY <2>1, <2>2, <2>3, <2>5
<1>10. ASSUME NEW i \in Window, i # low
       PROVE  /\ PendingIn(i)' = PendingIn(i)
              /\ writtenSlots'[BatchId(i)] = writtenSlots[BatchId(i)]
  <2>1. Aligned(i) /\ i \in Nat /\ tail <= i /\ i < tail + RingSize
    BY WindowMember
  <2>2. Aligned(low) /\ tail <= low /\ low < tail + RingSize
    BY <1>6, WindowMember
  <2>3. i + BatchSize <= low \/ low + BatchSize <= i
    BY <1>2, <1>10, <2>1, <2>2, AlignedApart
  <2>4. chunk \cap BatchRange(i) = {}
    BY <1>2, <2>1, <2>3, SMT DEF BatchRange
  <2>5. PendingIn(i)' = PendingIn(i)
    BY <1>7, <2>4 DEF PendingIn, BatchRange
  <2>6. BatchId(i) # BatchId(low)
    BY <1>10, <2>1, <2>2, Numbers, SameBatchInWindow
  <2>7. BatchId(i) \in BatchIds
    BY <2>1, BatchIdInRange
  <2> QED  BY <1>1, <1>5, <2>5, <2>6, <2>7 DEF Typed, TypeOK
<1>11. writtenSlots'[BatchId(low)] = writtenSlots[BatchId(low)] + n
  BY <1>1, <1>2, <1>5, BatchIdInRange DEF Typed, TypeOK
<1>12. /\ writtenSlots[BatchId(low)] \in Nat
       /\ Cardinality(PendingIn(low)) \in Nat
  <2>1. BatchId(low) \in BatchIds
    BY <1>2, BatchIdInRange
  <2>2. Cardinality(PendingIn(low)) \in Nat
    BY <1>2, RangeFinite DEF PendingIn
  <2> QED  BY <2>1, <2>2 DEF Typed, TypeOK
<1>13. writtenSlots'[BatchId(low)] + Cardinality(PendingIn(low)')
          = writtenSlots[BatchId(low)] + Cardinality(PendingIn(low))
  BY <1>2, <1>9, <1>11, <1>12, SMT
<1>14. HeadInRing'
  BY <1>1 DEF SlotInv, HeadInRing
<1>15. PendingInRing' /\ PendingApart'
  <2>1. \A q \in Requests : Unpublished(q)' \subseteq Unpublished(q)
    BY <1>1, <1>3
  <2> QED  BY <1>1, <2>1 DEF SlotInv, PendingInRing, PendingApart
<1>16. /\ \A i : Released(i)' <=> Released(i)
       /\ \A i : FilledTo(i)' = FilledTo(i)
       /\ Window' = Window
  BY <1>1 DEF Released, Active, FilledTo, Window
<1>17. SealedBelowHead'
  BY <1>1, <1>16 DEF SlotInv, SealedBelowHead, Sealed
<1>18. ReleasedIsEmpty'
  BY <1>1, <1>6, <1>10, <1>16 DEF SlotInv, ReleasedIsEmpty
<1>19. SlotsAddUp'
  <2> SUFFICES ASSUME NEW i \in Window, ~Released(i)
               PROVE  /\ \A x \in Workers : Active(x) /\ idx[x] = i =>
                           /\ xpc[x] = "spin" => writtenSlots'[BatchId(i)]
                                 + Cardinality(PendingIn(i)') = BatchSize - open[x]
                           /\ xpc[x] \in {"run", "reset"} => PendingIn(i)' = {}
                      /\ (\A x \in Workers : Sealed(x) => idx[x] # i) =>
                           writtenSlots'[BatchId(i)] + Cardinality(PendingIn(i)')
                                 = FilledTo(i)
    BY <1>1, <1>16 DEF SlotsAddUp, Active, Sealed
  <2>1. CASE i = low
    BY <1>6, <1>13, <2>1 DEF SlotInv, SlotsAddUp
  <2>2. CASE i # low
    BY <1>10, <2>2 DEF SlotInv, SlotsAddUp
  <2> QED  BY <2>1, <2>2
<1> QED  BY <1>1, <1>14, <1>15, <1>17, <1>18, <1>19 DEF SlotInv

LEMMA RequestSlots ==
    ASSUME Typed, RingInv, NEW r \in Requests, RequestStep(r),
           Reserve(r) => WithinRing(r)
    PROVE  SlotInv'
<1>1. CASE Reserve(r) /\ HeadUnchanged(r)
  BY <1>1, ReserveSlots DEF RingInv
<1>2. CASE Publish(r)
  BY <1>2, PublishSlots DEF RingInv
<1> QED  BY <1>1, <1>2, OtherRequestSteps DEF RequestStep, RingInv

-------------------------------------------------------------------------------
(***************************************************************************)
(* The steps of a worker.                                                  *)
(***************************************************************************)

\* No step of a worker touches what a request has not published.
LEMMA PendingStays ==
    ASSUME UNCHANGED requestVars
    PROVE  /\ \A q \in Requests : Unpublished(q)' = Unpublished(q)
           /\ Pending' = Pending /\ \A i : PendingIn(i)' = PendingIn(i)
           /\ SlotInv => ChunkProgress' /\ PendingApart'
<1>1. \A q \in Requests : Unpublished(q)' = Unpublished(q)
  BY DEF Unpublished, ChunkSize
<1>2. SlotInv => ChunkProgress' /\ PendingApart'
  BY <1>1 DEF SlotInv, ChunkProgress, PendingApart
<1> QED  BY <1>1, <1>2, PendingKept

(***************************************************************************)
(* A step of x that moves no index, resets no batch, and lets x into a run *)
(* only when nothing of its batch is pending.                              *)
(***************************************************************************)
LEMMA WorkerQuiet ==
    ASSUME Typed, SlotInv, NEW x \in Workers,
           UNCHANGED <<ringVars, writtenSlots, requestVars>>,
           \A y \in Workers \ {x} : /\ xpc'[y] = xpc[y] /\ seen'[y] = seen[y]
                                    /\ idx'[y] = idx[y] /\ open'[y] = open[y],
           Active(x)' <=> Active(x), Sealed(x)' <=> Sealed(x),
           Active(x) => idx'[x] = idx[x],
           xpc'[x] = "spin" => xpc[x] = "spin" /\ open'[x] = open[x],
           xpc'[x] \in {"run", "reset"} /\ idx[x] \in Window
               /\ ~Released(idx[x]) => PendingIn(idx[x]) = {},
           xpc'[x] \in {"take", "advance"} => HigherBound(seen'[x]) < head
    PROVE  SlotInv'
<1>1. \A y \in Workers : /\ Active(y)' <=> Active(y)
                         /\ Sealed(y)' <=> Sealed(y)
                         /\ Active(y) => idx'[y] = idx[y]
  BY DEF Active, Sealed
<1>2. /\ \A q \in Requests : Unpublished(q)' = Unpublished(q)
      /\ \A i : PendingIn(i)' = PendingIn(i)
      /\ ChunkProgress' /\ PendingApart'
  BY PendingStays
<1>3. HeadInRing'
  BY DEF SlotInv, HeadInRing
<1>4. PendingInRing'
  BY <1>2 DEF SlotInv, PendingInRing
<1>5. /\ \A i : Released(i)' <=> Released(i)
      /\ \A i : FilledTo(i)' = FilledTo(i)
      /\ Window' = Window
  BY <1>1 DEF Released, FilledTo, Window
<1>6. \A y \in Workers : Sealed(y) => Active(y)
  BY DEF Sealed, Active
<1>7. \A y \in Workers : xpc'[y] = "spin" => /\ xpc[y] = "spin"
                                             /\ open'[y] = open[y]
  OBVIOUS
<1>8. SealedBelowHead'
  <2>1. ASSUME NEW y \in Workers, Sealed(y)'
        PROVE  /\ idx'[y] + BatchSize <= head'
               /\ xpc'[y] = "spin" => open'[y] <= BatchSize
    BY <1>1, <1>6, <1>7, <2>1 DEF SlotInv, SealedBelowHead
  <2> QED  BY <1>5, <2>1 DEF SlotInv, SealedBelowHead
<1>9. ReleasedIsEmpty'
  BY <1>2, <1>5 DEF SlotInv, ReleasedIsEmpty
<1>10. SlotsAddUp'
  <2> SUFFICES ASSUME NEW i \in Window, ~Released(i)
               PROVE  /\ \A y \in Workers : Active(y)' /\ idx'[y] = i =>
                           /\ xpc'[y] = "spin" => writtenSlots[BatchId(i)]
                                 + Cardinality(PendingIn(i)) = BatchSize - open'[y]
                           /\ xpc'[y] \in {"run", "reset"} => PendingIn(i) = {}
                      /\ (\A y \in Workers : Sealed(y)' => idx'[y] # i) =>
                           writtenSlots[BatchId(i)] + Cardinality(PendingIn(i))
                                 = FilledTo(i)
    BY <1>2, <1>5 DEF SlotsAddUp
  <2>1. ASSUME NEW y \in Workers, Active(y)', idx'[y] = i
        PROVE  /\ xpc'[y] = "spin" => writtenSlots[BatchId(i)]
                     + Cardinality(PendingIn(i)) = BatchSize - open'[y]
               /\ xpc'[y] \in {"run", "reset"} => PendingIn(i) = {}
    <3>1. Active(y) /\ idx[y] = i
      BY <1>1, <2>1
    <3>2. xpc'[y] = "spin" => writtenSlots[BatchId(i)]
             + Cardinality(PendingIn(i)) = BatchSize - open'[y]
      BY <1>7, <3>1 DEF SlotInv, SlotsAddUp
    <3>3. xpc'[y] \in {"run", "reset"} => PendingIn(i) = {}
      <4>1. CASE y = x
        BY <3>1, <4>1
      <4>2. CASE y # x
        BY <3>1, <4>2 DEF SlotInv, SlotsAddUp
      <4> QED  BY <4>1, <4>2
    <3> QED  BY <3>2, <3>3
  <2>2. ASSUME \A y \in Workers : Sealed(y)' => idx'[y] # i
        PROVE  writtenSlots[BatchId(i)] + Cardinality(PendingIn(i)) = FilledTo(i)
    BY <1>1, <1>6, <2>2 DEF SlotInv, SlotsAddUp
  <2> QED  BY <2>1, <2>2
<1> QED  BY <1>2, <1>3, <1>4, <1>8, <1>9, <1>10 DEF SlotInv

(***************************************************************************)
(* A worker that goes from one state to another, or returns.               *)
(***************************************************************************)
LEMMA QuietGoto ==
    ASSUME Typed, SlotInv, NEW x \in Workers, NEW pc \in WorkerStates,
           Goto(x, pc), UNCHANGED <<ringVars, writtenSlots, requestVars, seen, idx, open>>,
           Active(x)' <=> Active(x), Sealed(x)' <=> Sealed(x), pc # "spin",
           pc \in {"run", "reset"} /\ idx[x] \in Window
               /\ ~Released(idx[x]) => PendingIn(idx[x]) = {},
           pc \in {"take", "advance"} => HigherBound(seen[x]) < head
    PROVE  SlotInv'
<1>1. xpc'[x] = pc /\ \A y \in Workers \ {x} : xpc'[y] = xpc[y]
  BY DEF Goto, Typed, TypeOK
<1> QED  BY <1>1, WorkerQuiet

LEMMA QuietReturn ==
    ASSUME Typed, SlotInv, NEW x \in Workers, Return(x),
           UNCHANGED <<ringVars, writtenSlots, requestVars>>, ~Active(x)
    PROVE  SlotInv'
<1>1. /\ xpc'[x] = "idle"
      /\ \A y \in Workers \ {x} : /\ xpc'[y] = xpc[y] /\ seen'[y] = seen[y]
                                  /\ idx'[y] = idx[y] /\ open'[y] = open[y]
  BY DEF Return, Typed, TypeOK
<1>2. ~Active(x)' /\ ~Sealed(x)' /\ ~Sealed(x)
  BY <1>1 DEF Active, Sealed
<1> QED  BY <1>1, <1>2, WorkerQuiet

(***************************************************************************)
(* The batch in the hands of an executor is one of the lap of the tail.    *)
(***************************************************************************)
LEMMA HeldBatch ==
    ASSUME Typed, ClaimInv, NEW x \in Executors, Active(x)
    PROVE  /\ x \in Workers /\ Aligned(idx[x]) /\ idx[x] \in Nat
           /\ idx[x] \in Window /\ ~Released(idx[x])
           /\ LowerBound(idx[x]) = idx[x]
           /\ HigherBound(idx[x]) = idx[x] + BatchSize
<1>1. x \in Workers /\ Aligned(idx[x])
  BY DEF ClaimInv, WholeBatches, Workers
<1>2. tail <= idx[x] /\ idx[x] + BatchSize <= tail + RingSize
  BY <1>1 DEF ClaimInv, ClaimsBounded
<1>3. idx[x] \in Window
  BY <1>1, <1>2, Numbers, SMT DEF Window
<1>4. ~Released(idx[x])
  BY <1>1 DEF Released
<1> QED  BY <1>1, <1>3, <1>4, HigherBoundFacts DEF Aligned

(***************************************************************************)
(* The spin ends when every reserved slot is written: nothing is pending.  *)
(***************************************************************************)
LEMMA SpinEndsExactly ==
    ASSUME Typed, ClaimInv, SlotInv, NEW x \in Workers, SpinWritten(x)
    PROVE  /\ ~(writtenSlots[BatchId(idx[x])] > BatchSize - open[x])
           /\ PendingIn(idx[x]) = {}
<1>1. /\ xpc[x] = "spin" /\ Active(x)
      /\ UNCHANGED <<ringVars, writtenSlots, requestVars, seen, idx, open>>
  BY DEF SpinWritten, Active
<1>2. x \in Executors
  BY <1>1 DEF ClaimInv, ManagerAlone, Workers
<1>3. PICK i : i = idx[x]
  OBVIOUS
<1>4. i \in Window /\ ~Released(i) /\ i \in Nat
  BY <1>1, <1>2, <1>3, HeldBatch
<1>5. /\ writtenSlots[BatchId(i)] + Cardinality(PendingIn(i)) = BatchSize - open[x]
      /\ open[x] <= BatchSize /\ open[x] \in Nat
  BY <1>1, <1>3, <1>4 DEF SlotInv, SlotsAddUp, SealedBelowHead, Sealed, Typed, TypeOK
<1>6. /\ writtenSlots[BatchId(i)] \in Nat /\ Cardinality(PendingIn(i)) \in Nat
      /\ Cardinality(PendingIn(i)) = 0 => PendingIn(i) = {}
  <2>1. writtenSlots[BatchId(i)] \in Nat
    BY <1>4, BatchIdInRange DEF Typed, TypeOK
  <2> QED  BY <1>4, <2>1, RangeFinite DEF PendingIn
<1>7. ~(writtenSlots[BatchId(i)] > BatchSize - open[x])
  BY <1>5, <1>6, Numbers, SMT
<1>8. writtenSlots[BatchId(i)] >= BatchSize - open[x]
  BY <1>3 DEF SpinWritten
<1>9. Cardinality(PendingIn(i)) = 0
  BY <1>5, <1>6, <1>7, <1>8, Numbers, SMT
<1> QED  BY <1>3, <1>6, <1>7, <1>9

LEMMA SpinSlots ==
    ASSUME Typed, ClaimInv, SlotInv, NEW x \in Workers, SpinWritten(x)
    PROVE  SlotInv'
<1>1. /\ xpc[x] = "spin" /\ Active(x)
      /\ UNCHANGED <<ringVars, writtenSlots, requestVars, seen, idx, open>>
  BY DEF SpinWritten, Active
<1>2. /\ Goto(x, "run") /\ PendingIn(idx[x]) = {}
  BY SpinEndsExactly DEF SpinWritten
<1>3. xpc'[x] = "run"
  BY <1>2 DEF Goto, Typed, TypeOK
<1>4. Active(x)' /\ Sealed(x) /\ Sealed(x)'
  BY <1>1, <1>3 DEF Active, Sealed
<1> QED  BY <1>1, <1>2, <1>4, QuietGoto DEF WorkerStates

(***************************************************************************)
(* Claiming a batch: it is not released yet, and not sealed.               *)
(***************************************************************************)
LEMMA ClaimSlots ==
    ASSUME Typed, ClaimInv, SlotInv, NEW x \in Workers, Claim(x),
           executorHead = seen[x]
    PROVE  SlotInv'
<1>1. /\ executorHead' = executorHead + BatchSize /\ xpc[x] = "claim"
      /\ xpc'[x] = "await_first" /\ idx'[x] = executorHead
      /\ \A y \in Workers \ {x} : xpc'[y] = xpc[y] /\ idx'[y] = idx[y]
      /\ UNCHANGED <<head, tail, writtenSlots, requestVars, seen, open>>
  BY DEF Claim, Goto, Typed, TypeOK
<1>2. /\ \A y \in Workers : Sealed(y)' <=> Sealed(y)
      /\ \A y \in Workers : Sealed(y) => y # x /\ Active(y)
      /\ \A y \in Workers \ {x} : Active(y)' <=> Active(y)
      /\ Active(x)' /\ ~Active(x)
  BY <1>1 DEF Sealed, Active
<1>3. /\ \A q \in Requests : Unpublished(q)' = Unpublished(q)
      /\ \A i : PendingIn(i)' = PendingIn(i)
      /\ ChunkProgress' /\ PendingApart'
  BY <1>1, PendingStays
<1>4. Aligned(executorHead)
  BY DEF ClaimInv, WholeBatches
<1>5. ASSUME NEW i, Aligned(i)
      PROVE  Released(i)' <=> Released(i)
  <2>1. i < executorHead' /\ i # executorHead <=> i < executorHead
    <3>1. executorHead < i => executorHead + BatchSize <= i
      BY <1>4, <1>5, AlignedApart
    <3> QED  BY <1>1, <1>5, <3>1, Numbers, SMT DEF Aligned
  <2>2. (\A y \in Workers : Active(y)' => idx'[y] # i)
          <=> i # executorHead /\ \A y \in Workers : Active(y) => idx[y] # i
    BY <1>1, <1>2
  <2> QED  BY <2>1, <2>2 DEF Released
<1>6. HeadInRing'
  <2>1. \A y \in Workers : xpc'[y] \in {"take", "advance"}
            => y # x /\ xpc[y] \in {"take", "advance"}
    BY <1>1
  <2>2. head <= executorHead => head <= executorHead + BatchSize
    BY Numbers, SMT
  <2> QED  BY <1>1, <2>1, <2>2 DEF SlotInv, HeadInRing
<1>7. PendingInRing'
  BY <1>1, <1>3 DEF SlotInv, PendingInRing
<1>8. SealedBelowHead'
  <2>1. ASSUME NEW i \in 0 .. executorHead', Aligned(i), Released(i)'
        PROVE  i + BatchSize <= head
    <3>1. Released(i)
      BY <1>5, <2>1
    <3>2. i \in 0 .. executorHead
      BY <2>1, <3>1, Numbers, SMT DEF Released, Aligned
    <3> QED  BY <2>1, <3>1, <3>2 DEF SlotInv, SealedBelowHead
  <2>2. ASSUME NEW y \in Workers, Sealed(y)'
        PROVE  /\ idx'[y] + BatchSize <= head'
               /\ xpc'[y] = "spin" => open'[y] <= BatchSize
    BY <1>1, <1>2, <2>2 DEF SlotInv, SealedBelowHead
  <2> QED  BY <1>1, <2>1, <2>2 DEF SealedBelowHead
<1>9. Window' = Window /\ \A i \in Window : Aligned(i)
  BY <1>1 DEF Window
<1>10. ReleasedIsEmpty'
  BY <1>1, <1>3, <1>5, <1>9 DEF SlotInv, ReleasedIsEmpty
<1>11. SlotsAddUp'
  <2>1. \A i : FilledTo(i)' = FilledTo(i)
    BY <1>1 DEF FilledTo
  <2> SUFFICES ASSUME NEW i \in Window, ~Released(i)
               PROVE  /\ \A y \in Workers : Active(y)' /\ idx'[y] = i =>
                           /\ xpc'[y] = "spin" => writtenSlots[BatchId(i)]
                                 + Cardinality(PendingIn(i)) = BatchSize - open[y]
                           /\ xpc'[y] \in {"run", "reset"} => PendingIn(i) = {}
                      /\ (\A y \in Workers : Sealed(y)' => idx'[y] # i) =>
                           writtenSlots[BatchId(i)] + Cardinality(PendingIn(i))
                                 = FilledTo(i)
    BY <1>1, <1>3, <1>5, <1>9, <2>1 DEF SlotsAddUp
  <2>2. \A y \in Workers : Active(y)' /\ idx'[y] = i =>
           /\ xpc'[y] = "spin" => writtenSlots[BatchId(i)]
                 + Cardinality(PendingIn(i)) = BatchSize - open[y]
           /\ xpc'[y] \in {"run", "reset"} => PendingIn(i) = {}
    <3>1. \A y \in Workers : xpc'[y] \in {"spin", "run", "reset"} => y # x
      BY <1>1
    <3> QED  BY <1>1, <1>2, <3>1 DEF SlotInv, SlotsAddUp
  <2>3. ASSUME \A y \in Workers : Sealed(y)' => idx'[y] # i
        PROVE  writtenSlots[BatchId(i)] + Cardinality(PendingIn(i)) = FilledTo(i)
    BY <1>1, <1>2, <2>3 DEF SlotInv, SlotsAddUp
  <2> QED  BY <2>2, <2>3
<1> QED  BY <1>3, <1>6, <1>7, <1>8, <1>10, <1>11 DEF SlotInv

(***************************************************************************)
(* Sealing a batch: head leaves it, and what it skips stays open.          *)
(***************************************************************************)
LEMMA SealSlots ==
    ASSUME Typed, ClaimInv, SlotInv, NEW x \in Workers, Seal(x),
           ~(head < LowerBound(idx[x]))
    PROVE  SlotInv'
<1>1. x \in Executors /\ xpc[x] = "seal" /\ Active(x)
  BY DEF Seal, ClaimInv, ManagerAlone, Workers, Active
<1>2. PICK l : l = idx[x]
  OBVIOUS
<1>3. /\ Aligned(l) /\ l \in Nat /\ l \in Window /\ ~Released(l)
      /\ LowerBound(l) = l /\ HigherBound(l) = l + BatchSize
  BY <1>1, <1>2, HeldBatch
<1>4. PICK o : o = OpenSlots(x)
  OBVIOUS
<1>5. /\ l <= head /\ o \in Nat /\ o <= BatchSize
      /\ o = IF head < l + BatchSize THEN l + BatchSize - head ELSE 0
  <2>1. l <= head
    BY <1>2, <1>3, Numbers, SMT
  <2>2. o = IF head < l + BatchSize THEN l + BatchSize - head ELSE 0
    <3>1. PICK h : h = HigherBound(idx[x])
      OBVIOUS
    <3>2. h = l + BatchSize
      BY <1>2, <1>3, <3>1
    <3>3. o = IF head < h THEN h - head ELSE 0
      BY <1>4, <3>1 DEF OpenSlots
    <3> QED  BY <1>3, <3>2, <3>3, Numbers, SMT
  <2> QED  BY <1>3, <2>1, <2>2, Numbers, SMT
<1>6. /\ head' = head + o /\ xpc'[x] = "spin" /\ open'[x] = o
      /\ \A y \in Workers \ {x} : xpc'[y] = xpc[y] /\ open'[y] = open[y]
      /\ UNCHANGED <<executorHead, tail, writtenSlots, requestVars, seen, idx>>
  BY <1>2, <1>3, <1>4 DEF Seal, Goto, Typed, TypeOK
<1>7. head' \in Nat /\ head <= head' /\ l + BatchSize <= head'
  BY <1>3, <1>5, <1>6, Numbers, SMT
<1>8. /\ \A q \in Requests : Unpublished(q)' = Unpublished(q)
      /\ \A i : PendingIn(i)' = PendingIn(i)
      /\ ChunkProgress' /\ PendingApart'
  BY <1>6, PendingStays
<1>9. /\ \A y \in Workers : Active(y)' <=> Active(y)
      /\ \A y \in Workers \ {x} : Sealed(y)' <=> Sealed(y)
      /\ \A y \in Workers : Sealed(y) => Active(y)
      /\ Sealed(x)'
  BY <1>1, <1>6 DEF Active, Sealed
<1>10. /\ \A i : Released(i)' <=> Released(i)
       /\ Window' = Window
  BY <1>6, <1>9 DEF Released, Window
<1>11. HeadInRing'
  <2>1. tail <= head /\ (head <= tail + RingSize \/ head <= executorHead)
    BY DEF SlotInv, HeadInRing
  <2>2. l + BatchSize <= tail + RingSize
    BY <1>1, <1>2 DEF ClaimInv, ClaimsBounded
  <2>3. tail' <= head' /\ (head' <= tail' + RingSize \/ head' <= executorHead')
    BY <1>3, <1>5, <1>6, <2>1, <2>2, Numbers, SMT
  <2>4. ASSUME NEW y \in Workers, xpc'[y] \in {"take", "advance"}
        PROVE  HigherBound(seen'[y]) < head'
    <3>1. /\ seen'[y] = seen[y]
          /\ HigherBound(seen[y]) < head /\ HigherBound(seen[y]) \in Nat
      BY <1>6, <2>4, Numbers, HigherBoundFacts DEF SlotInv, HeadInRing
    <3>2. HigherBound(seen[y]) < head'
      BY <1>7, <3>1, Numbers, SMT
    <3> QED  BY <3>1, <3>2
  <2> QED  BY <2>3, <2>4 DEF HeadInRing
<1>12. PendingInRing'
  <2> SUFFICES ASSUME NEW q \in Requests, NEW i \in Unpublished(q)
               PROVE  tail <= i /\ i < head' /\ i < tail + RingSize
    BY <1>6, <1>8 DEF PendingInRing
  <2>1. i \in Nat /\ tail <= i /\ i < head /\ i < tail + RingSize
    BY UnpublishedNat DEF SlotInv, PendingInRing
  <2> QED  BY <1>7, <2>1, Numbers, SMT
<1>13. SealedBelowHead'
  <2>1. ASSUME NEW y \in Workers, Sealed(y)'
        PROVE  /\ idx'[y] + BatchSize <= head'
               /\ xpc'[y] = "spin" => open'[y] <= BatchSize
    <3>1. CASE y = x
      BY <1>2, <1>5, <1>6, <1>7, <3>1
    <3>2. CASE y # x
      <4>1. /\ idx[y] + BatchSize <= head /\ idx[y] \in Nat
            /\ xpc[y] = "spin" => open[y] <= BatchSize
        BY <1>9, <2>1, <3>2, Numbers DEF SlotInv, SealedBelowHead
      <4>2. idx[y] + BatchSize <= head'
        BY <1>7, <4>1, Numbers, SMT
      <4> QED  BY <1>6, <3>2, <4>1, <4>2
    <3> QED  BY <3>1, <3>2
  <2>2. ASSUME NEW i \in 0 .. executorHead, Aligned(i), Released(i)
        PROVE  i + BatchSize <= head'
    <3>1. i + BatchSize <= head /\ i \in Nat
      BY <2>2 DEF SlotInv, SealedBelowHead, Aligned
    <3> QED  BY <1>7, <3>1, Numbers, SMT
  <2> QED  BY <1>6, <1>10, <2>1, <2>2 DEF SealedBelowHead
<1>14. ReleasedIsEmpty'
  BY <1>6, <1>8, <1>10 DEF SlotInv, ReleasedIsEmpty
<1>15. SlotsAddUp'
  <2> SUFFICES ASSUME NEW i \in Window, ~Released(i)
               PROVE  /\ \A y \in Workers : Active(y)' /\ idx[y] = i =>
                           /\ xpc'[y] = "spin" => writtenSlots[BatchId(i)]
                                 + Cardinality(PendingIn(i)) = BatchSize - open'[y]
                           /\ xpc'[y] \in {"run", "reset"} => PendingIn(i) = {}
                      /\ (\A y \in Workers : Sealed(y)' => idx[y] # i) =>
                           writtenSlots[BatchId(i)] + Cardinality(PendingIn(i))
                                 = FilledTo(i)'
    BY <1>6, <1>8, <1>10 DEF SlotsAddUp
  <2>1. CASE i = l
    <3>1. \A y \in Workers \ {x} : Active(y) => idx[y] # l
      BY <1>1, <1>2 DEF ClaimInv, ClaimsApart, Workers
    <3>2. writtenSlots[BatchId(i)] + Cardinality(PendingIn(i)) = FilledTo(i)
      <4>1. \A y \in Workers : Sealed(y) => idx[y] # i
        BY <1>1, <1>9, <2>1, <3>1 DEF Sealed
      <4> QED  BY <4>1 DEF SlotInv, SlotsAddUp
    <3>3. FilledTo(i) = BatchSize - o
      BY <1>3, <1>5, <2>1, Numbers, SMT DEF FilledTo
    <3>4. ~(\A y \in Workers : Sealed(y)' => idx[y] # i)
      BY <1>2, <1>9, <2>1
    <3>5. \A y \in Workers : Active(y)' /\ idx[y] = i => y = x
      BY <1>9, <2>1, <3>1
    <3> QED  BY <1>6, <3>2, <3>3, <3>4, <3>5
  <2>2. CASE i # l
    <3>1. FilledTo(i)' = FilledTo(i)
      <4>1. i \in Nat /\ (i + BatchSize <= l \/ l + BatchSize <= i)
        BY <1>3, <2>2, WindowMember, AlignedApart, SMT
      <4> QED  BY <1>3, <1>5, <1>6, <4>1, Numbers, SMT DEF FilledTo
    <3>2. \A y \in Workers : idx[y] = i => y # x
      BY <1>2, <2>2
    <3>3. \A y \in Workers : Active(y)' /\ idx[y] = i =>
            /\ xpc'[y] = "spin" => writtenSlots[BatchId(i)]
                  + Cardinality(PendingIn(i)) = BatchSize - open'[y]
            /\ xpc'[y] \in {"run", "reset"} => PendingIn(i) = {}
      BY <1>6, <1>9, <3>2 DEF SlotInv, SlotsAddUp
    <3>4. (\A y \in Workers : Sealed(y)' => idx[y] # i) =>
            writtenSlots[BatchId(i)] + Cardinality(PendingIn(i)) = FilledTo(i)
      BY <1>9, <3>2 DEF SlotInv, SlotsAddUp
    <3> QED  BY <3>1, <3>3, <3>4
  <2> QED  BY <2>1, <2>2
<1> QED  BY <1>8, <1>11, <1>12, <1>13, <1>14, <1>15 DEF SlotInv

(***************************************************************************)
(* A warmup passes over a batch before any request exists.                 *)
(***************************************************************************)
LEMMA WarmupSlots ==
    ASSUME Typed, ClaimInv, SlotInv, NEW x \in Workers, WorkerStep(x), Warmup(x)
    PROVE  SlotInv'
<1>1. x = Manager /\ xpc[x] = "idle"
  BY DEF Warmup
<1>2. ~Registered
  BY <1>1, ManagerSteps DEF ClaimInv
<1>3. /\ head = executorHead
      /\ \A r \in Requests : rpc[r] = "new"
      /\ \A y \in Workers \ {x} : xpc[y] = "idle"
  BY <1>1, <1>2 DEF ClaimInv, ManagerAlone, Workers
<1>4. /\ head' = head + BatchSize /\ executorHead' = head + BatchSize
      /\ idx'[x] = head /\ xpc'[x] = "reset"
      /\ \A y \in Workers \ {x} : xpc'[y] = "idle"
      /\ UNCHANGED <<tail, writtenSlots, requestVars, seen, open>>
  BY <1>3 DEF Warmup, Goto, Typed, TypeOK
<1>5. /\ \A y \in Workers : Active(y)' <=> y = x
      /\ \A y \in Workers : Sealed(y)' <=> y = x
  BY <1>4 DEF Active, Sealed
<1>6. /\ \A q \in Requests : Unpublished(q) = {} /\ Unpublished(q)' = {}
      /\ ChunkProgress' /\ PendingApart'
  <2>1. \A q \in Requests : Unpublished(q) = {}
    BY <1>3 DEF Unpublished
  <2> QED  BY <1>4, <2>1, PendingStays
<1>7. \A i : PendingIn(i)' = {}
  BY <1>6 DEF PendingIn, Pending
<1>8. \A b \in BatchIds : writtenSlots'[b] = 0
  BY <1>3, <1>4 DEF SlotInv, ReleasedIsEmpty
<1>9. \A i \in Window' : i \in Nat /\ Aligned(i) /\ BatchId(i) \in BatchIds
  BY BatchIdInRange DEF Window, Aligned
<1>10. Aligned(head) /\ Aligned(head + BatchSize)
  BY <1>3, AlignedNext DEF ClaimInv, WholeBatches
<1>11. HeadInRing'
  <2>1. tail <= head + BatchSize
    BY Numbers, SMT DEF SlotInv, HeadInRing
  <2> QED  BY <1>4, <2>1, Numbers, SMT DEF HeadInRing
<1>12. PendingInRing'
  BY <1>6 DEF PendingInRing
<1>13. SealedBelowHead'
  <2>1. ASSUME NEW i \in 0 .. executorHead', Aligned(i), Released(i)'
        PROVE  i + BatchSize <= head'
    BY <1>4, <1>10, <2>1, AlignedApart DEF Released
  <2>2. \A y \in Workers : Sealed(y)' => idx'[y] + BatchSize <= head'
                                         /\ xpc'[y] # "spin"
    BY <1>4, <1>5, Numbers, SMT
  <2> QED  BY <2>1, <2>2 DEF SealedBelowHead
<1>14. ReleasedIsEmpty'
  BY <1>7, <1>8, <1>9 DEF ReleasedIsEmpty
<1>15. SlotsAddUp'
  <2> SUFFICES ASSUME NEW i \in Window', ~Released(i)'
               PROVE  /\ \A y \in Workers : Active(y)' /\ idx'[y] = i =>
                           xpc'[y] # "spin"
                      /\ (\A y \in Workers : Sealed(y)' => idx'[y] # i) =>
                           writtenSlots'[BatchId(i)] + Cardinality(PendingIn(i)')
                                 = FilledTo(i)'
    BY <1>7 DEF SlotsAddUp
  <2>1. \A y \in Workers : Active(y)' => xpc'[y] # "spin"
    BY <1>4, <1>5
  <2>2. ASSUME \A y \in Workers : Sealed(y)' => idx'[y] # i
        PROVE  writtenSlots'[BatchId(i)] + Cardinality(PendingIn(i)') = FilledTo(i)'
    <3>1. i # head /\ ~(i < head + BatchSize)
      <4>1. i # head
        BY <1>4, <1>5, <2>2
      <4>2. \A y \in Workers : Active(y)' => idx'[y] # i
        BY <1>4, <1>5, <4>1
      <4> QED  BY <1>4, <4>1, <4>2 DEF Released
    <3>2. FilledTo(i)' = 0
      BY <1>4, <1>9, <3>1, Numbers, SMT DEF FilledTo
    <3>3. Cardinality(PendingIn(i)') = 0
      BY <1>7, FS_EmptySet
    <3>4. writtenSlots'[BatchId(i)] = 0
      BY <1>8, <1>9
    <3> QED  BY <3>2, <3>3, <3>4, SMT
  <2> QED  BY <2>1, <2>2
<1> QED  BY <1>6, <1>11, <1>12, <1>13, <1>14, <1>15 DEF SlotInv

(***************************************************************************)
(* The reset of a batch empties its count when nothing of it is pending.   *)
(***************************************************************************)
LEMMA ResetSlots ==
    ASSUME Typed, ClaimInv, SlotInv, NEW x \in Workers, WorkerStep(x), ResetBatch(x)
    PROVE  SlotInv'
<1>1. PICK l : l = idx[x]
  OBVIOUS
<1>2. /\ xpc[x] = "reset" /\ xpc'[x] = "move" /\ Active(x)
      /\ \A y \in Workers \ {x} : xpc'[y] = xpc[y]
      /\ writtenSlots' = [writtenSlots EXCEPT ![BatchId(l)] = 0]
      /\ UNCHANGED <<ringVars, requestVars, seen, idx, open>>
  BY <1>1 DEF ResetBatch, Goto, Typed, TypeOK, Active
<1>3. /\ Aligned(l) /\ l \in Nat /\ BatchId(l) \in BatchIds
      /\ tail <= l /\ l + BatchSize <= executorHead /\ l + BatchSize <= head
  <2>1. Aligned(l) /\ l \in Nat
    BY <1>1 DEF ClaimInv, WholeBatches, Aligned
  <2>2. tail <= l /\ l + BatchSize <= executorHead
    BY <1>1, <1>2 DEF ClaimInv, ClaimsBounded
  <2>3. l + BatchSize <= head
    BY <1>1, <1>2 DEF SlotInv, SealedBelowHead, Sealed
  <2> QED  BY <2>1, <2>2, <2>3, BatchIdInRange
<1>4. /\ ~Active(x)' /\ ~Sealed(x)'
      /\ \A y \in Workers \ {x} : /\ Active(y)' <=> Active(y)
                                  /\ Sealed(y)' <=> Sealed(y)
                                  /\ Active(y) => idx[y] # l
      /\ \A y \in Workers : Sealed(y) => Active(y)
  BY <1>1, <1>2 DEF Active, Sealed, ClaimInv, ClaimsApart
<1>5. \A i : Released(i)' <=> Released(i) \/ i = l
  <2>1. l < executorHead
    BY <1>3, Numbers, SMT
  <2> QED  BY <1>1, <1>2, <1>4, <2>1 DEF Released
<1>6. /\ \A q \in Requests : Unpublished(q)' = Unpublished(q)
      /\ \A i : PendingIn(i)' = PendingIn(i)
      /\ ChunkProgress' /\ PendingApart'
  BY <1>2, PendingStays
<1>7. Window' = Window /\ \A i : FilledTo(i)' = FilledTo(i)
  BY <1>2 DEF Window, FilledTo
<1>8. /\ \A b \in BatchIds :
            /\ writtenSlots[b] = 0 => writtenSlots'[b] = 0
            /\ b # BatchId(l) => writtenSlots'[b] = writtenSlots[b]
      /\ writtenSlots'[BatchId(l)] = 0
  BY <1>2, <1>3 DEF Typed, TypeOK
<1>9. ASSUME NEW i \in Window, i # l
      PROVE  writtenSlots'[BatchId(i)] = writtenSlots[BatchId(i)]
  <2>1. Aligned(i) /\ i \in Nat /\ tail <= i /\ i < tail + RingSize
        /\ BatchId(i) \in BatchIds
    BY WindowMember, BatchIdInRange
  <2>2. CASE x \in Executors
    <3>1. l + BatchSize <= tail + RingSize
      BY <1>1, <1>2, <2>2 DEF ClaimInv, ClaimsBounded
    <3>2. l < tail + RingSize
      BY <1>3, <3>1, Numbers, SMT
    <3>3. BatchId(i) # BatchId(l)
      BY <1>3, <1>9, <2>1, <3>2, Numbers, SameBatchInWindow
    <3> QED  BY <1>8, <2>1, <3>3
  <2>3. CASE x \notin Executors
    <3>1. \A r \in Requests : rpc[r] = "new"
      BY <2>3, ManagerSteps DEF Workers, ClaimInv, ManagerAlone
    <3>2. writtenSlots[BatchId(i)] = 0
      BY <2>1, <3>1 DEF SlotInv, ReleasedIsEmpty
    <3> QED  BY <1>8, <2>1, <3>2
  <2> QED  BY <2>2, <2>3
<1>10. HeadInRing'
  <2>1. \A y \in Workers : xpc'[y] \in {"take", "advance"} => xpc[y] = xpc'[y]
    BY <1>2
  <2> QED  BY <1>2, <2>1 DEF SlotInv, HeadInRing
<1>11. PendingInRing'
  BY <1>2, <1>6 DEF SlotInv, PendingInRing
<1>12. SealedBelowHead'
  <2>1. ASSUME NEW y \in Workers, Sealed(y)'
        PROVE  /\ idx'[y] + BatchSize <= head'
               /\ xpc'[y] = "spin" => open'[y] <= BatchSize
    BY <1>2, <1>4, <2>1 DEF SlotInv, SealedBelowHead
  <2>2. \A i \in 0 .. executorHead :
            Aligned(i) /\ Released(i)' => i + BatchSize <= head
    BY <1>3, <1>5 DEF SlotInv, SealedBelowHead
  <2> QED  BY <1>2, <2>1, <2>2 DEF SealedBelowHead
<1>13. ReleasedIsEmpty'
  <2>1. ASSUME NEW i \in Window, Released(i)'
        PROVE  writtenSlots'[BatchId(i)] = 0 /\ PendingIn(i)' = {}
    <3>1. CASE i = l
      <4>1. ~Released(l)
        BY <1>1, <1>2 DEF Released
      <4>2. PendingIn(l) = {}
        BY <1>1, <1>2, <3>1, <4>1 DEF SlotInv, SlotsAddUp
      <4> QED  BY <1>6, <1>8, <3>1, <4>2
    <3>2. CASE i # l
      BY <1>5, <1>6, <1>9, <2>1, <3>2 DEF SlotInv, ReleasedIsEmpty
    <3> QED  BY <3>1, <3>2
  <2>2. (\A r \in Requests : rpc[r] = "new")
            => \A b \in BatchIds : writtenSlots'[b] = 0
    BY <1>8 DEF SlotInv, ReleasedIsEmpty
  <2> QED  BY <1>2, <1>7, <2>1, <2>2 DEF ReleasedIsEmpty
<1>14. SlotsAddUp'
  <2> SUFFICES ASSUME NEW i \in Window, ~Released(i), i # l
               PROVE  /\ \A y \in Workers : Active(y)' /\ idx[y] = i =>
                           /\ xpc'[y] = "spin" => writtenSlots[BatchId(i)]
                                 + Cardinality(PendingIn(i)) = BatchSize - open[y]
                           /\ xpc'[y] \in {"run", "reset"} => PendingIn(i) = {}
                      /\ (\A y \in Workers : Sealed(y)' => idx[y] # i) =>
                           writtenSlots[BatchId(i)] + Cardinality(PendingIn(i))
                                 = FilledTo(i)
    BY <1>2, <1>5, <1>6, <1>7, <1>9 DEF SlotsAddUp
  <2>1. \A y \in Workers : idx[y] = i => y # x
    BY <1>1
  <2>2. \A y \in Workers : Active(y)' /\ idx[y] = i =>
            /\ xpc'[y] = "spin" => writtenSlots[BatchId(i)]
                  + Cardinality(PendingIn(i)) = BatchSize - open[y]
            /\ xpc'[y] \in {"run", "reset"} => PendingIn(i) = {}
    BY <1>2, <1>4, <2>1 DEF SlotInv, SlotsAddUp
  <2>3. (\A y \in Workers : Sealed(y)' => idx[y] # i) =>
            writtenSlots[BatchId(i)] + Cardinality(PendingIn(i)) = FilledTo(i)
    BY <1>4, <2>1 DEF SlotInv, SlotsAddUp
  <2> QED  BY <2>2, <2>3
<1> QED  BY <1>6, <1>10, <1>11, <1>12, <1>13, <1>14 DEF SlotInv

(***************************************************************************)
(* The tail leaves a released batch, and the next lap of this batch comes  *)
(* into the ring: no slot of it is reserved, written or claimed.           *)
(***************************************************************************)
LEMMA AdvanceSlots ==
    ASSUME Typed, ClaimInv, SlotInv, NEW x \in Workers, WorkerStep(x),
           AdvanceTail(x), tail = seen[x]
    PROVE  SlotInv'
<1>1. /\ tail' = tail + BatchSize /\ tail + BatchSize < head
      /\ xpc[x] = "advance" /\ xpc'[x] = "move"
      /\ \A y \in Workers \ {x} :
            xpc'[y] = IF xpc[y] = "asleep" THEN "idle" ELSE xpc[y]
      /\ UNCHANGED <<head, executorHead, writtenSlots, requestVars, seen, idx, open>>
  <2>1. HigherBound(tail) = tail + BatchSize
    BY Numbers, HigherBoundFacts DEF ClaimInv, WholeBatches, Aligned
  <2> QED  BY <2>1 DEF AdvanceTail, SlotInv, HeadInRing
<1>2. /\ Released(tail) /\ Aligned(tail) /\ tail \in Window
      /\ tail < tail + RingSize
  <2>1. Released(tail) /\ Aligned(tail)
    BY <1>1 DEF ClaimInv, AdvancePastReleased, WholeBatches
  <2>2. tail < tail + RingSize
    BY Numbers, SMT
  <2> QED  BY <2>1, <2>2, WindowMember, Numbers, SMT
<1>3. PICK last : last = tail + RingSize
  OBVIOUS
<1>4. Aligned(last) /\ BatchId(last) = BatchId(tail) /\ last \in Nat
  BY <1>2, <1>3, BatchOfNextLap DEF Aligned
<1>5. /\ \A y \in Workers : /\ Active(y)' <=> Active(y)
                            /\ Sealed(y)' <=> Sealed(y)
                            /\ Sealed(y) => Active(y)
                            /\ xpc'[y] \in {"spin", "run", "reset", "take", "advance"}
                                  => xpc[y] = xpc'[y]
  BY <1>1 DEF Active, Sealed
<1>6. /\ \A q \in Requests : Unpublished(q)' = Unpublished(q)
      /\ \A i : PendingIn(i)' = PendingIn(i)
      /\ ChunkProgress' /\ PendingApart'
  BY <1>1, PendingStays
<1>7. /\ \A i : Released(i)' <=> Released(i)
      /\ \A i : FilledTo(i)' = FilledTo(i)
  BY <1>1, <1>5 DEF Released, FilledTo
<1>8. writtenSlots[BatchId(last)] = 0 /\ PendingIn(tail) = {}
  BY <1>2, <1>4 DEF SlotInv, ReleasedIsEmpty
<1>9. PendingIn(last) = {}
  <2>1. ASSUME NEW i \in Pending PROVE i \in Nat /\ i < last
    BY <1>3, PendingMember, UnpublishedNat DEF SlotInv, PendingInRing
  <2> QED  BY <1>4, <2>1, SMT DEF PendingIn, BatchRange
<1>10. \A i \in Window' : i \in Window \/ i = last
  <2> SUFFICES ASSUME NEW i \in Window', i \notin Window PROVE i = last
    OBVIOUS
  <2>1. Aligned(i) /\ i \in Nat /\ tail <= i /\ i < last + BatchSize
    BY <1>1, <1>3, Numbers, SMT DEF Window, Aligned
  <2>2. last <= i
    BY <1>3, <2>1, WindowMember, Numbers, SMT
  <2>3. ~(last < i)
    <3>1. last < i => last + BatchSize <= i
      BY <1>4, <2>1, AlignedApart
    <3> QED  BY <1>4, <2>1, <3>1, Numbers, SMT
  <2> QED  BY <1>4, <2>1, <2>2, <2>3, SMT
<1>11. HeadInRing'
  <2>1. head <= tail + RingSize => head <= tail + BatchSize + RingSize
    BY Numbers, SMT
  <2>2. tail + BatchSize <= head
    BY <1>1, Numbers, SMT
  <2> QED  BY <1>1, <1>5, <2>1, <2>2 DEF SlotInv, HeadInRing
<1>12. PendingInRing'
  <2> SUFFICES ASSUME NEW q \in Requests, NEW i \in Unpublished(q)
               PROVE  tail + BatchSize <= i /\ i < head
                      /\ i < tail + BatchSize + RingSize
    BY <1>1, <1>6 DEF PendingInRing
  <2>1. i \in Nat /\ tail <= i /\ i < head /\ i < tail + RingSize
    BY UnpublishedNat DEF SlotInv, PendingInRing
  <2>2. i \notin BatchRange(tail)
    BY <1>8, PendingMember DEF PendingIn
  <2> QED  BY <2>1, <2>2, Numbers, SMT DEF BatchRange
<1>13. SealedBelowHead'
  <2>1. ASSUME NEW y \in Workers, Sealed(y)'
        PROVE  /\ idx'[y] + BatchSize <= head'
               /\ xpc'[y] = "spin" => open'[y] <= BatchSize
    BY <1>1, <1>5, <2>1 DEF SlotInv, SealedBelowHead
  <2> QED  BY <1>1, <1>7, <2>1 DEF SlotInv, SealedBelowHead
<1>14. ReleasedIsEmpty'
  <2>1. ASSUME NEW i \in Window', Released(i)'
        PROVE  writtenSlots[BatchId(i)] = 0 /\ PendingIn(i) = {}
    BY <1>7, <1>8, <1>9, <1>10, <2>1 DEF SlotInv, ReleasedIsEmpty
  <2> QED  BY <1>1, <1>6, <2>1 DEF SlotInv, ReleasedIsEmpty
<1>15. ASSUME ~Released(last)
       PROVE  /\ \A y \in Workers : ~(Active(y) /\ idx[y] = last)
              /\ FilledTo(last) = 0
  <2>1. ASSUME NEW y \in Workers, Active(y), idx[y] = last PROVE FALSE
    <3>1. CASE y \in Executors
      <4>1. last + BatchSize <= tail + RingSize
        BY <2>1, <3>1 DEF ClaimInv, ClaimsBounded
      <4> QED  BY <1>3, <1>4, <4>1, Numbers, SMT
    <3>2. CASE y = Manager
      <4>1. x # y /\ x \in Executors
        BY <1>1, <2>1, <3>2 DEF Active, Workers
      <4>2. ~Registered
        BY <2>1, <3>2 DEF Registered, Active
      <4>3. xpc[x] = "idle"
        BY <4>1, <4>2 DEF ClaimInv, ManagerAlone
      <4> QED  BY <1>1, <4>3
    <3> QED  BY <3>1, <3>2 DEF Workers
  <2>2. ~(last < executorHead)
    BY <1>15, <2>1 DEF Released
  <2>3. head <= tail + RingSize \/ head <= executorHead
    BY DEF SlotInv, HeadInRing
  <2>4. head <= last
    BY <1>3, <1>4, <2>2, <2>3, Numbers, SMT
  <2> QED  BY <2>1, <2>4 DEF FilledTo
<1>16. SlotsAddUp'
  <2> SUFFICES ASSUME NEW i \in Window', ~Released(i)
               PROVE  /\ \A y \in Workers : Active(y) /\ idx[y] = i =>
                           /\ xpc'[y] = "spin" => writtenSlots[BatchId(i)]
                                 + Cardinality(PendingIn(i)) = BatchSize - open[y]
                           /\ xpc'[y] \in {"run", "reset"} => PendingIn(i) = {}
                      /\ (\A y \in Workers : Sealed(y) => idx[y] # i) =>
                           writtenSlots[BatchId(i)] + Cardinality(PendingIn(i))
                                 = FilledTo(i)
    BY <1>1, <1>5, <1>6, <1>7 DEF SlotsAddUp
  <2>1. CASE i \in Window
    BY <1>5, <2>1 DEF SlotInv, SlotsAddUp
  <2>2. CASE i = last
    <3>1. Cardinality(PendingIn(last)) = 0
      BY <1>9, FS_EmptySet
    <3>2. writtenSlots[BatchId(last)] + Cardinality(PendingIn(last)) = FilledTo(last)
      BY <1>8, <1>15, <2>2, <3>1, SMT
    <3>3. \A y \in Workers : ~(Active(y) /\ idx[y] = i)
      BY <1>15, <2>2
    <3> QED  BY <2>2, <3>2, <3>3
  <2> QED  BY <1>10, <2>1, <2>2
<1> QED  BY <1>6, <1>11, <1>12, <1>13, <1>14, <1>16 DEF SlotInv

LEMMA WorkerSlots ==
    ASSUME Typed, RingInv, NEW x \in Workers, WorkerStep(x)
    PROVE  SlotInv'
<1>1. CASE LoadExecutorHead(x)
  <2>1. /\ xpc[x] = "idle" /\ xpc'[x] = "check"
        /\ \A y \in Workers \ {x} : /\ xpc'[y] = xpc[y] /\ seen'[y] = seen[y]
                                    /\ idx'[y] = idx[y] /\ open'[y] = open[y]
        /\ UNCHANGED <<ringVars, writtenSlots, requestVars>>
    BY <1>1 DEF LoadExecutorHead, Goto, Typed, TypeOK
  <2>2. ~Active(x) /\ ~Active(x)' /\ ~Sealed(x) /\ ~Sealed(x)'
    BY <2>1 DEF Active, Sealed
  <2> QED  BY <2>1, <2>2, WorkerQuiet DEF RingInv
<1>2. CASE LoadTail(x)
  <2>1. /\ xpc[x] = "move" /\ xpc'[x] = "move_head"
        /\ \A y \in Workers \ {x} : /\ xpc'[y] = xpc[y] /\ seen'[y] = seen[y]
                                    /\ idx'[y] = idx[y] /\ open'[y] = open[y]
        /\ UNCHANGED <<ringVars, writtenSlots, requestVars>>
    BY <1>2 DEF LoadTail, Goto, Typed, TypeOK
  <2>2. ~Active(x) /\ ~Active(x)' /\ ~Sealed(x) /\ ~Sealed(x)'
    BY <2>1 DEF Active, Sealed
  <2> QED  BY <2>1, <2>2, WorkerQuiet DEF RingInv
<1>3. ASSUME NEW pc \in {"check", "listen", "asleep", "claim", "idle", "peek",
                         "await_full", "seal"},
             Goto(x, pc), xpc[x] \in {"check", "listen", "claim", "await_first",
                                      "peek", "await_full"},
             pc \in {"peek", "await_full", "seal"} <=> Active(x),
             UNCHANGED <<ringVars, writtenSlots, requestVars, seen, idx, open>>
      PROVE  SlotInv'
  <2>1. xpc'[x] = pc
    BY <1>3 DEF Goto, Typed, TypeOK
  <2>2. (Active(x)' <=> Active(x)) /\ ~Sealed(x) /\ ~Sealed(x)'
    BY <1>3, <2>1 DEF Active, Sealed
  <2>3. pc \in WorkerStates
    BY DEF WorkerStates
  <2> QED  BY <1>3, <2>2, <2>3, QuietGoto DEF RingInv
<1>4. CASE CheckRoom(x)
  <2>1. /\ xpc[x] = "check"
        /\ Goto(x, "listen") \/ Goto(x, "claim")
        /\ UNCHANGED <<ringVars, writtenSlots, requestVars, seen, idx, open>>
    BY <1>4 DEF CheckRoom
  <2> QED  BY <1>3, <2>1 DEF Active
<1>5. CASE Listen(x)
  BY <1>3, <1>5 DEF Listen, Active
<1>6. CASE Claim(x)
  <2>1. CASE executorHead = seen[x]
    BY <1>6, <2>1, ClaimSlots DEF RingInv
  <2>2. CASE executorHead # seen[x]
    BY <1>3, <1>6, <2>2 DEF Claim, Active
  <2> QED  BY <2>1, <2>2
<1>7. CASE AwaitFirst(x)
  BY <1>3, <1>7 DEF AwaitFirst, Active
<1>8. CASE Peek(x)
  <2>1. /\ xpc[x] = "peek"
        /\ Goto(x, "await_full") \/ Goto(x, "seal")
        /\ UNCHANGED <<ringVars, writtenSlots, requestVars, seen, idx, open>>
    BY <1>8 DEF Peek
  <2> QED  BY <1>3, <2>1 DEF Active
<1>9. CASE DeadlineExpires(x) \/ AwaitFull(x)
  BY <1>3, <1>9 DEF DeadlineExpires, AwaitFull, Active
<1>10. CASE Seal(x)
  <2>1. CASE head < LowerBound(idx[x])
    <3>1. UNCHANGED <<ringVars, writtenSlots, requestVars, workerVars>>
          /\ xpc[x] = "seal"
      BY <1>10, <2>1 DEF Seal
    <3>2. (Active(x)' <=> Active(x)) /\ ~Sealed(x) /\ ~Sealed(x)'
      BY <3>1 DEF Active, Sealed
    <3> QED  BY <3>1, <3>2, WorkerQuiet DEF RingInv
  <2>2. CASE ~(head < LowerBound(idx[x]))
    BY <1>10, <2>2, SealSlots DEF RingInv
  <2> QED  BY <2>1, <2>2
<1>11. CASE SpinWritten(x)
  BY <1>11, SpinSlots DEF RingInv
<1>12. CASE Finish(x)
  <2>1. /\ xpc[x] = "run" /\ Goto(x, "reset")
        /\ UNCHANGED <<ringVars, writtenSlots, requestVars, seen, idx, open>>
    BY <1>12 DEF Finish
  <2>2. xpc'[x] = "reset"
    BY <2>1 DEF Goto, Typed, TypeOK
  <2>3. Active(x) /\ Active(x)' /\ Sealed(x) /\ Sealed(x)'
    BY <2>1, <2>2 DEF Active, Sealed
  <2>4. idx[x] \in Window /\ ~Released(idx[x]) => PendingIn(idx[x]) = {}
    BY <2>1, <2>3 DEF RingInv, SlotInv, SlotsAddUp
  <2> QED  BY <2>1, <2>3, <2>4, QuietGoto DEF RingInv, WorkerStates
<1>13. CASE Warmup(x)
  BY <1>13, WarmupSlots DEF RingInv
<1>14. CASE ResetBatch(x)
  BY <1>14, ResetSlots DEF RingInv
<1>15. CASE CheckHead(x)
  <2>1. /\ xpc[x] = "move_head" /\ ~Active(x) /\ ~Sealed(x)
        /\ UNCHANGED <<ringVars, writtenSlots, requestVars>>
    BY <1>15 DEF CheckHead, Active, Sealed
  <2>2. CASE StillOpen(seen[x])
    BY <1>15, <2>1, <2>2, QuietReturn DEF CheckHead, RingInv
  <2>3. CASE ~StillOpen(seen[x])
    <3>1. HigherBound(seen[x]) < head
      BY <2>3, Numbers, HigherBoundFacts, SMT DEF StillOpen
    <3>2. Goto(x, "take") /\ UNCHANGED <<seen, idx, open>>
      BY <1>15, <2>3 DEF CheckHead
    <3>3. xpc'[x] = "take"
      BY <3>2 DEF Goto, Typed, TypeOK
    <3>4. ~Active(x)' /\ ~Sealed(x)'
      BY <3>3 DEF Active, Sealed
    <3> QED  BY <2>1, <3>1, <3>2, <3>4, QuietGoto DEF RingInv, WorkerStates
  <2> QED  BY <2>2, <2>3
<1>16. CASE TakeDirty(x)
  <2>1. /\ xpc[x] = "take" /\ ~Active(x) /\ ~Sealed(x)
        /\ UNCHANGED <<ringVars, writtenSlots, requestVars>>
    BY <1>16 DEF TakeDirty, Active, Sealed
  <2>2. CASE ~IsFinished(BatchId(seen[x]))
    BY <1>16, <2>1, <2>2, QuietReturn DEF TakeDirty, RingInv
  <2>3. CASE IsFinished(BatchId(seen[x]))
    <3>1. Goto(x, "advance") /\ UNCHANGED <<seen, idx, open>>
      BY <1>16, <2>3 DEF TakeDirty
    <3>2. xpc'[x] = "advance"
      BY <3>1 DEF Goto, Typed, TypeOK
    <3>3. ~Active(x)' /\ ~Sealed(x)'
      BY <3>2 DEF Active, Sealed
    <3>4. HigherBound(seen[x]) < head
      BY <2>1 DEF RingInv, SlotInv, HeadInRing
    <3> QED  BY <2>1, <3>1, <3>3, <3>4, QuietGoto DEF RingInv, WorkerStates
  <2> QED  BY <2>2, <2>3
<1>17. CASE AdvanceTail(x)
  <2>1. CASE tail = seen[x]
    BY <1>17, <2>1, AdvanceSlots DEF RingInv
  <2>2. CASE tail # seen[x]
    <3>1. /\ xpc[x] = "advance" /\ ~Active(x) /\ Return(x)
          /\ UNCHANGED <<ringVars, writtenSlots, requestVars>>
      BY <1>17, <2>2 DEF AdvanceTail, Active
    <3> QED  BY <3>1, QuietReturn DEF RingInv
  <2> QED  BY <2>1, <2>2
<1> QED
  BY <1>1, <1>2, <1>4, <1>5, <1>6, <1>7, <1>8, <1>9, <1>10, <1>11, <1>12,
     <1>13, <1>14, <1>15, <1>16, <1>17 DEF WorkerStep

-------------------------------------------------------------------------------
(***************************************************************************)
(* The invariant over whole behaviours, and what it gives.                 *)
(***************************************************************************)
LEMMA InitSlots == Init => SlotInv
<1> SUFFICES ASSUME Init PROVE SlotInv
  OBVIOUS
<1>1. /\ head = 0 /\ executorHead = 0 /\ tail = 0
      /\ \A r \in Requests : rpc[r] = "new" /\ sent[r] = 0
      /\ \A x \in Workers : xpc[x] = "idle"
      /\ \A b \in BatchIds : writtenSlots[b] = 0
  BY DEF Init
<1>2. \A r \in Requests : Unpublished(r) = {}
  BY <1>1 DEF Unpublished
<1>3. \A i : PendingIn(i) = {}
  BY <1>2 DEF PendingIn, Pending
<1>4. \A x \in Workers : ~Active(x) /\ ~Sealed(x)
  BY <1>1 DEF Active, Sealed
<1>5. ChunkProgress /\ PendingInRing /\ PendingApart
  BY <1>1, <1>2 DEF ChunkProgress, PendingInRing, PendingApart
<1>6. HeadInRing
  BY <1>1, SMT DEF HeadInRing
<1>7. \A i \in Nat : ~Released(i)
  BY <1>1, SMT DEF Released
<1>8. \A i \in Window : /\ i \in Nat /\ ~Released(i)
                        /\ writtenSlots[BatchId(i)] = 0 /\ FilledTo(i) = 0
  <2>1. \A i \in Window : i \in Nat
    BY DEF Window, Aligned
  <2>2. \A i \in Nat : FilledTo(i) = 0
    BY <1>1, SMT DEF FilledTo
  <2> QED  BY <1>1, <1>7, <2>1, <2>2, BatchIdInRange
<1>9. SealedBelowHead /\ ReleasedIsEmpty
  BY <1>1, <1>4, <1>7, <1>8 DEF SealedBelowHead, ReleasedIsEmpty, Aligned
<1>10. SlotsAddUp
  <2>1. \A i \in Window : writtenSlots[BatchId(i)] + Cardinality(PendingIn(i))
                            = FilledTo(i)
    <3>1. \A i : Cardinality(PendingIn(i)) = 0
      BY <1>3, FS_EmptySet
    <3> QED  BY <1>8, <3>1, SMT
  <2> QED  BY <1>4, <2>1 DEF SlotsAddUp
<1> QED  BY <1>5, <1>6, <1>9, <1>10 DEF SlotInv

LEMMA StutterSlots ==
    ASSUME SlotInv, UNCHANGED vars PROVE SlotInv'
<1>1. \A r \in Requests : Unpublished(r)' = Unpublished(r)
  BY DEF Unpublished, ChunkSize
<1>2. \A i : /\ PendingIn(i)' = PendingIn(i) /\ FilledTo(i)' = FilledTo(i)
             /\ Released(i)' <=> Released(i)
  BY <1>1, PendingKept DEF FilledTo, Released, Active
<1>3. Window' = Window
  BY DEF Window
<1>4. \A x \in Workers : (Active(x)' <=> Active(x)) /\ (Sealed(x)' <=> Sealed(x))
  BY DEF Active, Sealed
<1>5. ChunkProgress' /\ HeadInRing' /\ PendingInRing' /\ PendingApart'
  BY <1>1 DEF SlotInv, ChunkProgress, HeadInRing, PendingInRing, PendingApart
<1>6. SealedBelowHead' /\ ReleasedIsEmpty'
  BY <1>2, <1>3, <1>4 DEF SlotInv, SealedBelowHead, ReleasedIsEmpty
<1>7. SlotsAddUp'
  BY <1>2, <1>3, <1>4 DEF SlotInv, SlotsAddUp
<1> QED  BY <1>5, <1>6, <1>7 DEF SlotInv

LEMMA NextClaims == Typed /\ ClaimInv /\ [Next]_vars => ClaimInv'
<1> SUFFICES ASSUME Typed, ClaimInv, [Next]_vars PROVE ClaimInv'
  OBVIOUS
<1>1. CASE Next
  BY <1>1, RequestClaims, WorkerClaims DEF Next
<1>2. CASE UNCHANGED vars
  BY <1>2 DEF ClaimInv, WholeBatches, ManagerAlone, Registered,
     ClaimsBounded, ClaimsApart, DirtyTwoIsReleased, AdvancePastReleased,
     Released, Active
<1> QED  BY <1>1, <1>2

LEMMA RingInvKeeps ==
    ASSUME Typed, RingInv, [Next]_vars,
           [\A r \in Requests : Reserve(r) => WithinRing(r)]_vars
    PROVE  RingInv'
<1> SUFFICES SlotInv'
  BY NextClaims DEF RingInv
<1>1. CASE UNCHANGED vars
  BY <1>1, StutterSlots DEF RingInv
<1>2. CASE Next /\ \A r \in Requests : Reserve(r) => WithinRing(r)
  BY <1>2, RequestSlots, WorkerSlots DEF Next
<1> QED  BY <1>1, <1>2

(***************************************************************************)
(* A slot that is being written is pending.                                *)
(***************************************************************************)
LEMMA WrittenPlace ==
    ASSUME Typed, NEW r \in Requests, rpc[r] \in {"write", "publish"},
           NEW s \in ChunkStart(r) .. ChunkEnd(r) - 1
    PROVE  /\ LowerBound(at[r]) + s \in Unpublished(r)
           /\ LowerBound(at[r]) + s \in Pending
           /\ LowerBound(LowerBound(at[r]) + s) = LowerBound(at[r])
<1>1. PICK low : low = LowerBound(at[r])
  OBVIOUS
<1>2. PICK n : n = ChunkSize(r)
  OBVIOUS
<1>3. /\ at[r] \in Nat /\ sent[r] \in Nat /\ size[r] \in Nat /\ n \in Nat
      /\ low \in Nat /\ low <= at[r] /\ at[r] + n <= low + BatchSize
      /\ Aligned(low) /\ SlotId(at[r]) = at[r] - low
      /\ sent[r] + n <= size[r]
  BY <1>1, <1>2, RequestNumbers, BatchOfIndex, ChunkFacts
<1>4. s \in at[r] - low .. at[r] - low + n - 1
  BY <1>2, <1>3 DEF ChunkStart, ChunkEnd
<1>5. /\ s \in Nat /\ at[r] <= low + s /\ low + s < at[r] + n
      /\ low + s < low + BatchSize
  BY <1>3, <1>4, Numbers, SMT
<1>6. Unpublished(r) = at[r] .. at[r] + size[r] - sent[r] - 1
  BY DEF Unpublished
<1>7. low + s \in Unpublished(r)
  <2>1. PICK p : p = low + s
    OBVIOUS
  <2>2. p \in Nat /\ at[r] <= p /\ p < at[r] + n
    BY <1>3, <1>5, <2>1, SMT
  <2>3. p \in at[r] .. at[r] + size[r] - sent[r] - 1
    BY <1>3, <2>2, SMT
  <2> QED  BY <1>6, <2>1, <2>3
<1>8. LowerBound(low + s) = low
  <2>1. PICK k : k = LowerBound(low + s)
    OBVIOUS
  <2>2. /\ Aligned(k) /\ k \in Nat /\ k <= low + s
        /\ low + s < k + BatchSize
    BY <1>3, <1>5, <2>1, BatchOfIndex, SMT DEF Aligned
  <2>3. (k < low => k + BatchSize <= low) /\ (low < k => low + BatchSize <= k)
    BY <1>3, <2>2, AlignedApart
  <2> QED  BY <1>3, <1>5, <2>1, <2>2, <2>3, Numbers, SMT
<1> QED  BY <1>1, <1>7, <1>8, PendingMember

(***************************************************************************)
(* What is written is pending, apart from what others write, and in a      *)
(* batch that does not run.                                                *)
(***************************************************************************)
LEMMA InvImpliesIsolation ==
    ASSUME Typed, RingInv PROVE SlotIsolation
<1> DEFINE Place(r, s) == LowerBound(at[r]) + s
<1>1. ASSUME NEW r \in Requests, rpc[r] = "write",
             NEW s \in ChunkStart(r) .. ChunkEnd(r) - 1
      PROVE  /\ Place(r, s) \in Unpublished(r) /\ Place(r, s) \in Pending
             /\ LowerBound(Place(r, s)) = LowerBound(at[r])
  BY <1>1, WrittenPlace
<1> HIDE DEF Place
<1>2. ASSUME NEW r \in Requests, NEW q \in Requests, r # q,
             rpc[r] = "write", rpc[q] = "write",
             NEW e \in WriteRange(r) \cap WriteRange(q)
      PROVE  FALSE
  <2>1. PICK s : /\ s \in ChunkStart(r) .. ChunkEnd(r) - 1
                 /\ s \in ChunkStart(q) .. ChunkEnd(q) - 1
                 /\ ChunkBatch(r) = ChunkBatch(q)
    BY <1>2 DEF WriteRange
  <2>2. PICK k : k = LowerBound(at[r])
    OBVIOUS
  <2>3. PICK l : l = LowerBound(at[q])
    OBVIOUS
  <2>4. k \in Window /\ l \in Window
    BY <1>1, <1>2, <2>1, <2>2, <2>3, PendingBatch DEF RingInv
  <2>5. BatchId(k) = BatchId(l)
    <3>1. at[r] \in Nat /\ at[q] \in Nat
      BY RequestNumbers
    <3> QED  BY <2>1, <2>2, <2>3, <3>1, BatchOfIndex DEF ChunkBatch
  <2>6. k = l
    BY <2>4, <2>5, WindowMember, Numbers, SameBatchInWindow
  <2>7. Place(r, s) = Place(q, s)
    BY <2>2, <2>3, <2>6 DEF Place
  <2> QED  BY <1>1, <1>2, <2>1, <2>7 DEF RingInv, SlotInv, PendingApart
<1>3. ASSUME NEW r \in Requests, rpc[r] = "write",
             NEW x \in Workers, xpc[x] = "run", BatchId(idx[x]) = ChunkBatch(r)
      PROVE  FALSE
  <2>1. x \in Executors /\ Active(x)
    BY <1>3 DEF RingInv, ClaimInv, ManagerAlone, Workers, Active
  <2>2. idx[x] \in Window
    BY <2>1, HeldBatch DEF RingInv
  <2>3. at[r] \in Unpublished(r) /\ at[r] \in Nat
    <3>1. sent[r] < size[r] /\ Unpublished(r) = at[r] .. at[r] + size[r] - sent[r] - 1
      BY <1>3 DEF RingInv, SlotInv, ChunkProgress, Unpublished
    <3> QED  BY <3>1, RequestNumbers, SMT
  <2>4. PICK k : k = LowerBound(at[r])
    OBVIOUS
  <2>5. /\ k \in Window
        /\ Active(x) /\ idx[x] = k => xpc[x] \notin {"run", "reset"}
    BY <2>3, <2>4, PendingMember, PendingBatch DEF RingInv
  <2>6. BatchId(k) = BatchId(idx[x])
    BY <1>3, <2>3, <2>4, BatchOfIndex DEF ChunkBatch
  <2>7. k = idx[x]
    BY <2>2, <2>5, <2>6, WindowMember, Numbers, SameBatchInWindow
  <2> QED  BY <1>3, <2>1, <2>5, <2>7
<1> QED  BY <1>2, <1>3 DEF SlotIsolation

(***************************************************************************)
(* As long as no call reserves beyond the ring, the reserved slots are a   *)
(* writer's own, and a batch runs only when every one of them is written   *)
(* (reserved_slots, written_slots and seal_current_batch).                 *)
(***************************************************************************)
THEOREM SlotsIsolated == Spec /\ ReservesWithinRing => []SlotIsolation
<1>1. Init => RingInv
  BY InitClaims, InitSlots DEF RingInv
<1>2. Typed /\ RingInv => SlotIsolation
  BY InvImpliesIsolation
<1>3. Typed /\ RingInv /\ [Next]_vars
        /\ [\A r \in Requests : Reserve(r) => WithinRing(r)]_vars => RingInv'
  BY RingInvKeeps
<1> QED  BY <1>1, <1>2, <1>3, TypedInvariant, PTL DEF Spec, ReservesWithinRing

-------------------------------------------------------------------------------
(***************************************************************************)
(* Calls of one row: the first slot, which `infer` compares with the tail, *)
(* is the last one too, and the tail can only have moved on since.         *)
(***************************************************************************)
RoomChecked == \A r \in Requests : rpc[r] = "reserve" => at[r] < tail + RingSize

LEMMA NextRoomChecked ==
    Typed /\ ClaimInv /\ RoomChecked /\ [Next]_vars => RoomChecked'
<1> SUFFICES ASSUME Typed, ClaimInv, RoomChecked, [Next]_vars,
                    NEW r \in Requests, rpc'[r] = "reserve"
             PROVE  at'[r] < tail' + RingSize
  BY DEF RoomChecked
<1>1. ASSUME NEW q \in Requests, RequestStep(q)
      PROVE  at'[r] < tail + RingSize
  <2>1. CASE CheckFull(q) /\ q = r
    <3>1. ~IsFull(at[r], tail) /\ at'[r] = at[r] /\ at[r] \in Nat
      BY <2>1 DEF CheckFull, Typed, TypeOK
    <3> QED  BY <3>1, Numbers, SMT DEF IsFull
  <2>2. CASE ~(CheckFull(q) /\ q = r)
    <3> DEFINE Same == rpc[r] = "reserve" /\ at'[r] = at[r]
    <3>1. LoadHead(q) \/ CheckFull(q) \/ Reserve(q) \/ WriteChunk(q) => Same
      BY <2>2 DEF LoadHead, CheckFull, Reserve, WriteChunk, Typed, TypeOK
    <3>2. Publish(q) \/ NotifyExecutor(q) \/ Collect(q) => Same
      BY DEF Publish, NotifyExecutor, NextChunk, Collect, Typed, TypeOK
    <3> QED  BY <1>1, <3>1, <3>2 DEF RequestStep, RoomChecked
  <2> QED  BY <2>1, <2>2
<1>2. ASSUME NEW x \in Workers, WorkerStep(x)
      PROVE  /\ rpc[r] = "reserve" /\ at'[r] = at[r]
             /\ tail' = tail \/ tail' = HigherBound(tail)
  <2>1. LoadExecutorHead(x) \/ CheckRoom(x) \/ Listen(x) \/ Claim(x)
           => UNCHANGED <<requestVars, tail>>
    BY DEF LoadExecutorHead, CheckRoom, Listen, Claim
  <2>2. AwaitFirst(x) \/ Peek(x) \/ DeadlineExpires(x) \/ AwaitFull(x)
           => UNCHANGED <<requestVars, tail>>
    BY DEF AwaitFirst, Peek, DeadlineExpires, AwaitFull
  <2>3. Seal(x) \/ SpinWritten(x) \/ Finish(x) \/ Warmup(x) \/ ResetBatch(x)
           => UNCHANGED <<requestVars, tail>>
    BY DEF Seal, SpinWritten, Finish, Warmup, ResetBatch
  <2>4. LoadTail(x) \/ CheckHead(x) \/ TakeDirty(x) => UNCHANGED <<requestVars, tail>>
    BY DEF LoadTail, CheckHead, TakeDirty
  <2>5. AdvanceTail(x) => /\ UNCHANGED requestVars
                          /\ tail' = tail \/ tail' = HigherBound(tail)
    BY DEF AdvanceTail
  <2> QED  BY <1>2, <2>1, <2>2, <2>3, <2>4, <2>5 DEF WorkerStep
<1>3. tail < HigherBound(tail) /\ HigherBound(tail) \in Nat
  BY Numbers, HigherBoundFacts
<1>4. CASE \E q \in Requests : RequestStep(q)
  <2>1. tail' = tail
    BY <1>4, RequestFrame DEF ClaimInv
  <2> QED  BY <1>1, <1>4, <2>1
<1>5. CASE \E x \in Workers : WorkerStep(x)
  <2>1. /\ rpc[r] = "reserve" /\ at'[r] = at[r]
        /\ tail' = tail \/ tail' = HigherBound(tail)
    BY <1>2, <1>5
  <2>2. at[r] < tail + RingSize /\ at[r] \in Nat
    BY <2>1 DEF RoomChecked, Typed, TypeOK
  <2>3. CASE tail' = tail
    BY <2>1, <2>2, <2>3
  <2>4. CASE tail' = HigherBound(tail)
    <3>1. PICK h : h = HigherBound(tail)
      OBVIOUS
    <3>2. at[r] < h + RingSize
      BY <1>3, <2>2, <3>1, Numbers, SMT
    <3> QED  BY <2>1, <2>4, <3>1, <3>2
  <2> QED  BY <2>1, <2>3, <2>4
<1>6. CASE UNCHANGED vars
  BY <1>6 DEF RoomChecked
<1> QED  BY <1>4, <1>5, <1>6 DEF Next

\* Calls of one row stay within the lap.
LEMMA OneRowReserves ==
    ASSUME ReqSizes = {1}
    PROVE  Spec => ReservesWithinRing
<1>1. Init => ClaimInv /\ RoomChecked
  <2>1. Init => RoomChecked
    BY DEF Init, RoomChecked
  <2> QED  BY <2>1, InitClaims
<1>2. Typed /\ ClaimInv /\ RoomChecked /\ [Next]_vars => ClaimInv' /\ RoomChecked'
  BY NextClaims, NextRoomChecked
<1>3. Typed /\ RoomChecked /\ [Next]_vars
         => [\A r \in Requests : Reserve(r) => WithinRing(r)]_vars
  <2> SUFFICES ASSUME Typed, RoomChecked, NEW r \in Requests
               PROVE  WithinRing(r)
    OBVIOUS
  <2>1. size[r] = 1 /\ at[r] \in Nat
    BY DEF Typed, TypeOK
  <2> QED  BY <2>1, Numbers, SMT DEF RoomChecked, WithinRing
<1> QED
  BY <1>1, <1>2, <1>3, TypedInvariant, PTL DEF Spec, ReservesWithinRing

(***************************************************************************)
(* One-row calls never share a slot and never write into a batch that      *)
(* runs, whatever the ring, the executors and their order of finishing.    *)
(***************************************************************************)
THEOREM OneRowSlotsIsolated ==
    ASSUME ReqSizes = {1}
    PROVE  Spec => []SlotIsolation
BY OneRowReserves, SlotsIsolated, PTL
===============================================================================
