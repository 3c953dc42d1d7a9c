------------------------------ MODULE RingWord ------------------------------
(***************************************************************************)
(* The same indices as RingIndex in machine words: usize arithmetic wraps  *)
(* at WordSize (2^64 in the code), ids are masks of the word, and order is *)
(* decided by comparing a wrapped distance with HALF_RANGE.                *)
(***************************************************************************)
EXTENDS RingIndex

CONSTANT WordSize   \* number of values of a usize

HALF_RANGE == (WordSize - 1) \div 2

\* Both powers of two, so the masks of a wrapped index are those of the index;
\* and half of the range of a usize is more than a ring.
ASSUME WordSizeAssumption ==
    WordSize \in Nat /\ WordSize % RingSize = 0 /\ RingSize < HALF_RANGE

Word(index) == index % WordSize

WrappingAdd(a, b) == (a + b) % WordSize
WrappingSub(a, b) == (a - b) % WordSize

WordBatchId(w) == (w % RingSize) \div BatchSize
WordSlotId(w)  == w % BatchSize

WordLowerBound(w)  == WrappingSub(w, WordSlotId(w))
WordHigherBound(w) == WrappingAdd(WordLowerBound(w), BatchSize)

\* The full checks of `infer` and `execute_on_batch`.
WordIsFull(position, tail) == WrappingSub(position, tail) >= RingSize

\* Fault: the words are compared as if they never wrapped.
PlainBelow(a, b) == a < b

\* `dist > 0 && dist < HALF_RANGE`: head is still below the higher bound.
WordBelow(a, b) ==
    LET dist == WrappingSub(b, a) IN dist > 0 /\ dist < HALF_RANGE

\* `wrapping_sub < HALF_RANGE`: the seal assertion and the tail's head check.
WordAtLeast(a, b) == WrappingSub(a, b) < HALF_RANGE
==============================================================================
