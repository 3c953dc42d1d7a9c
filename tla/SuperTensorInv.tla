--------------------------- MODULE SuperTensorInv ---------------------------
(***************************************************************************)
(* The inductive invariants of SuperTensor, in four sections: the claims   *)
(* (what the three indices, the claims of the workers and the `dirty`      *)
(* flags have to agree on for the tail never to pass a batch in use), the  *)
(* slots (who may still write which), the answers (which cells a call was  *)
(* promised, and the rows its chunks took from them) and an idle model     *)
(* (who still has to be woken, and how far the tail may lag behind).       *)
(***************************************************************************)
EXTENDS SuperTensor

\* A request has published at most the rows it carries.
SentBounded == \A r \in Requests : sent[r] <= size[r]

\* Executors and the tail move by whole batches.
WholeBatches ==
    /\ Aligned(executorHead) /\ Aligned(tail)
    /\ \A x \in Workers : Aligned(seen[x]) /\ Aligned(idx[x])

(***************************************************************************)
(* Until the model is registered, its manager is alone: no request came,   *)
(* no executor runs, and both heads move together.  The manager takes part *)
(* in nothing but warmups and moves of the tail.                           *)
(***************************************************************************)
ManagerAlone ==
    /\ xpc[Manager] \in {"idle", "reset", "move", "move_head", "take",
                         "advance"}
    /\ ~Registered => /\ head = executorHead
                      /\ \A r \in Requests : rpc[r] = "new"
                      /\ \A x \in Executors : xpc[x] = "idle"

\* Batches in the hands of a worker lie between the tail and executorHead; a
\* tail that was loaded is never ahead of the real one.
ClaimsBounded ==
    /\ tail <= executorHead
    /\ \A x \in Workers :
        /\ Active(x) => tail <= idx[x] /\ idx[x] + BatchSize <= executorHead
        /\ xpc[x] \in {"move_head", "take", "advance"} => seen[x] <= tail
    /\ \A x \in Executors :
        /\ Active(x) => idx[x] + BatchSize <= tail + RingSize
        /\ xpc[x] = "claim" => seen[x] + BatchSize <= tail + RingSize

\* No two workers hold the same batch of the same lap.
ClaimsApart ==
    \A x, y \in Workers :
        x # y /\ Active(x) /\ Active(y) => idx[x] # idx[y]

\* The batch at index i was claimed and its worker has let it go.
Released(i) ==
    /\ i < executorHead
    /\ \A x \in Workers : Active(x) => idx[x] # i

\* In the lap of the tail, a batch marked 2 really is released.
DirtyTwoIsReleased ==
    \A i \in tail .. tail + RingSize - 1 :
        Aligned(i) /\ dirty[BatchId(i)] = 2 => Released(i)

\* Whoever is about to move the tail on has taken the mark of a released batch.
AdvancePastReleased ==
    \A x \in Workers :
        xpc[x] = "advance" /\ seen[x] = tail =>
            dirty[BatchId(tail)] # 2 /\ Released(tail)

ClaimInv ==
    /\ WholeBatches /\ ManagerAlone /\ ClaimsBounded /\ ClaimsApart
    /\ DirtyTwoIsReleased /\ AdvancePastReleased
-------------------------------------------------------------------------------
(***************************************************************************)
(* The inductive invariant behind SlotIsolation: where the rows are that   *)
(* were reserved and not published yet, and how they and `written_slots`   *)
(* account for every slot of a batch up to head or to its sealing.         *)
(***************************************************************************)

\* The indices r reserved and has not published yet.
Unpublished(r) ==
    LET first == IF rpc[r] = "notify" THEN at[r] + ChunkSize(r) ELSE at[r]
    IN  IF rpc[r] \in {"write", "publish", "notify", "error"}
        THEN first .. at[r] + size[r] - sent[r] - 1 ELSE {}

BatchRange(i) == i .. i + BatchSize - 1
Pending       == UNION {Unpublished(r) : r \in Requests}
PendingIn(i)  == Pending \cap BatchRange(i)

\* Slots of the batch at index i that lie below head.
FilledTo(i) == IF head <= i THEN 0
               ELSE IF head >= i + BatchSize THEN BatchSize ELSE head - i

\* The batches of the lap that begins at the tail.
Window == {i \in tail .. tail + RingSize - 1 : Aligned(i)}

\* How far a request is with its rows.
ChunkProgress ==
    \A r \in Requests :
        /\ rpc[r] \in {"new", "check", "retry", "reserve", "ring_full"}
            => sent[r] = 0
        /\ rpc[r] \in {"write", "publish", "notify"} => sent[r] < size[r]
        /\ rpc[r] = "wait" => sent[r] = size[r]

\* Head stays between the tail and one lap above it, but for the warmups.
HeadInRing ==
    /\ tail <= head
    /\ head <= tail + RingSize \/ head <= executorHead
    /\ \A x \in Workers :
        xpc[x] \in {"take", "advance"} => HigherBound(seen[x]) < head

\* What is not published lies below head, and within the lap of the tail.
PendingInRing ==
    \A r \in Requests : \A i \in Unpublished(r) :
        tail <= i /\ i < head /\ i < tail + RingSize

PendingApart ==
    \A r, q \in Requests : r # q => Unpublished(r) \cap Unpublished(q) = {}

Sealed(x) == xpc[x] \in {"spin", "run", "reset"}

\* Head has left every batch that is sealed or released.
SealedBelowHead ==
    /\ \A x \in Workers : Sealed(x) => /\ idx[x] + BatchSize <= head
                                       /\ xpc[x] = "spin" => open[x] <= BatchSize
    /\ \A i \in 0 .. executorHead :
        Aligned(i) /\ Released(i) => i + BatchSize <= head

\* A released batch is empty, and so are all before the first request.
ReleasedIsEmpty ==
    /\ \A i \in Window : Released(i) => /\ writtenSlots[BatchId(i)] = 0
                                        /\ PendingIn(i) = {}
    /\ (\A r \in Requests : rpc[r] = "new") =>
            \A b \in BatchIds : writtenSlots[b] = 0

\* Published and pending slots together are the slots below head, or those
\* the sealing left; a batch that runs has no pending slot.
SlotsAddUp ==
    \A i \in Window : ~Released(i) =>
        LET reserved == writtenSlots[BatchId(i)] + Cardinality(PendingIn(i)) IN
        /\ \A x \in Workers : Active(x) /\ idx[x] = i =>
            /\ xpc[x] = "spin" => reserved = BatchSize - open[x]
            /\ xpc[x] \in {"run", "reset"} => PendingIn(i) = {}
        /\ (\A x \in Workers : Sealed(x) => idx[x] # i) => reserved = FilledTo(i)

SlotInv ==
    /\ ChunkProgress /\ HeadInRing /\ PendingInRing /\ PendingApart
    /\ SealedBelowHead /\ ReleasedIsEmpty /\ SlotsAddUp

RingInv == ClaimInv /\ SlotInv
-------------------------------------------------------------------------------
(***************************************************************************)
(* The inductive invariant behind NoOrphanReservation and OwnAnswer: which *)
(* output cells exist, and where the rows of a reservation are until its   *)
(* caller has taken them.                                                  *)
(***************************************************************************)

NewHasNone == \A r \in Requests : rpc[r] = "new" => resv[r] = <<>>

\* The executor of a batch about to be reset has left its output.
ResetHasOutput ==
    \A x \in Executors : xpc[x] = "reset" =>
        \E cell \in outputs : /\ cell.batch = BatchId(idx[x])
                              /\ cell.gen = state[BatchId(idx[x])].gen

\* A BatchState whose cell is set is replaced already, or about to be.
CellsOfPast ==
    \A cell \in outputs :
        /\ cell.gen <= state[cell.batch].gen
        /\ cell.gen = state[cell.batch].gen =>
            \E x \in Executors : xpc[x] = "reset" /\ BatchId(idx[x]) = cell.batch

CellInv == NewHasNone /\ ResetHasOutput /\ CellsOfPast /\ NoOrphanReservation

\* The timer of a batch runs only once its slot 0 was reserved and written.
DeadlineOnce ==
    \A i \in Window : state[BatchId(i)].deadline =>
        /\ ~Released(i) /\ i < head
        /\ \A r \in Requests : i \in Unpublished(r) => at[r] = i /\ rpc[r] # "write"

\* The slots of e hold the rows of r from number first on.
RowsAt(rows, r, e, first) ==
    \A s \in e.start .. e.end - 1 : rows[s] = <<r, first + s - e.start>>

ChunkCopied ==
    \A r \in Requests : rpc[r] = "publish" =>
        \A s \in ChunkStart(r) .. ChunkEnd(r) - 1 :
            buffer[ChunkBatch(r)][s] = <<r, sent[r] + s - ChunkStart(r)>>

(***************************************************************************)
(* The rows of a reservation are in the cell of its BatchState, and before *)
(* that cell is set in the buffer, where nobody reserves their slots.      *)
(***************************************************************************)
RowsHeld(r, e, first) ==
    /\ \A cell \in outputs : cell.batch = e.batch /\ cell.gen = e.gen =>
            RowsAt(cell.rows, r, e, first)
    /\ e.gen <= state[e.batch].gen
    /\ e.gen = state[e.batch].gen =>
        /\ RowsAt(buffer[e.batch], r, e, first)
        /\ \A i \in Window : BatchId(i) = e.batch =>
            /\ ~Released(i) /\ i + e.end <= head
            /\ \A s \in e.start .. e.end - 1 : i + s \notin Pending

\* Rows of r for which a reservation was made.
Taken(r) == IF rpc[r] = "notify" THEN sent[r] + ChunkSize(r) ELSE sent[r]

\* The answer and the reservations left cover the taken rows, in order.
RowsInOrder(r) ==
    \E first \in [1 .. Len(resv[r]) + 1 -> 0 .. size[r]] :
        /\ first[1] = Len(answer[r])
        /\ first[Len(resv[r]) + 1] = Taken(r)
        /\ \A k \in 1 .. Len(resv[r]) :
            /\ first[k + 1] = first[k] + resv[r][k].end - resv[r][k].start
            /\ RowsHeld(r, resv[r][k], first[k])

AnswersInOrder ==
    \A r \in Requests :
        /\ RowsInOrder(r)
        /\ \A k \in 1 .. Len(answer[r]) : answer[r][k] = <<<<r, k - 1>>, 0>>
        /\ rpc[r] = "ok" => sent[r] = size[r] /\ resv[r] = <<>>

AnswerInv == CellInv /\ DeadlineOnce /\ ChunkCopied /\ AnswersInOrder
-------------------------------------------------------------------------------
(***************************************************************************)
(* The inductive invariant behind IdleModelServes, for one executor: a row *)
(* that opens a batch is announced, and the tail lags behind executorHead  *)
(* by no more than the batches that are not finished.                      *)
(***************************************************************************)

\* Nobody was woken yet by the rows of the batch at index i.
Unawakened(i) ==
    i >= executorHead \/ \E x \in Executors : xpc[x] = "await_first" /\ idx[x] = i

\* The first row of a batch has left its permit, or somebody still has to
\* write it or to announce it.
FirstRowAnnounced ==
    \A i \in Window : i < head /\ Unawakened(i) =>
        \/ state[BatchId(i)].permit
        \/ i \in Pending
        \/ \E r \in Requests : rpc[r] = "notify" /\ at[r] = i

\* A call that failed has none of its rows pending, if they can be copied.
ErrorsPublished ==
    InputSupported => \A r \in Requests : rpc[r] = "error" => sent[r] = size[r]

WakeInv == FirstRowAnnounced /\ ErrorsPublished

Moving(x) == xpc[x] \in {"move", "move_head", "take", "advance"}
Busy(x)   == Active(x) \/ Moving(x)

\* A worker that moves the tail is the only one to do so.
TailLoadedIsTail ==
    \A x \in Workers : xpc[x] \in {"move_head", "take", "advance"} => seen[x] = tail

\* A released batch keeps its mark until the tail moves over it.
MarksKept ==
    \A i \in Window : Released(i) =>
        \/ dirty[BatchId(i)] = 2
        \/ i = tail /\ \E x \in Workers : xpc[x] = "advance"

\* The tail follows executorHead to the batch that head is in.
TailFollows ==
    /\ executorHead <= tail + 2 * BatchSize
    /\ (\A x \in Workers : ~Busy(x)) => executorHead <= tail + BatchSize

\* The executor finds room at once and claims the newest batch.
ClaimsNewest ==
    /\ \A x \in Workers : Active(x) => idx[x] + BatchSize = executorHead
    /\ \A x \in Executors :
        /\ xpc[x] \notin {"listen", "asleep"}
        /\ xpc[x] \in {"check", "claim"} => seen[x] = executorHead

TailInv == TailLoadedIsTail /\ MarksKept /\ TailFollows /\ ClaimsNewest
==============================================================================
