------------------------------ MODULE RingIndex ------------------------------
(***************************************************************************)
(* The index arithmetic of the SuperTensor ring (RingBufferIndex and       *)
(* PaddedAtomic in tensor/supertensor.rs).                                 *)
(*                                                                         *)
(* head, executor_head and tail are absolute indices that only grow; an    *)
(* index is turned into a batch and a slot of that batch with masks.       *)
(* Indices are natural numbers here: the code's usize wraps after 2^64     *)
(* slots, and its comparisons against HALF_RANGE are then those of the     *)
(* unbounded numbers as long as two indices are less than 2^63 apart.      *)
(***************************************************************************)
EXTENDS Integers

CONSTANTS BatchSize,  \* slots of a batch (`batch_size` of the model's config)
          Capacity    \* batches of the ring (`capacity` of the model's config)

ASSUME BatchSizeAssumption == BatchSize \in Nat \ {0}
ASSUME CapacityAssumption  == Capacity \in Nat \ {0}

RingSize == Capacity * BatchSize

BatchIds == 0 .. Capacity - 1
SlotIds  == 0 .. BatchSize - 1

BatchId(index) == (index % RingSize) \div BatchSize
SlotId(index)  == index % BatchSize

LowerBound(index)  == index - SlotId(index)
HigherBound(index) == LowerBound(index) + BatchSize

\* The index of the first slot of a batch.
Aligned(index) == index \in Nat /\ SlotId(index) = 0

(***************************************************************************)
(* `position.wrapping_sub(tail) >= capacity * batch_size`: a position read *)
(* before the tail overtook it wraps to a huge distance.                   *)
(***************************************************************************)
IsFull(position, tailIndex) ==
    \/ position < tailIndex
    \/ position - tailIndex >= RingSize
==============================================================================
