------------------------- MODULE SuperTensorService -------------------------
(***************************************************************************)
(* The SuperTensor seen from outside: the mapping under which it           *)
(* implements BatchService, its gauges, and its decisions taken in machine *)
(* words.                                                                  *)
(***************************************************************************)
EXTENDS SuperTensorInv, RingWord

\* A call is accepted by the compare-and-exchange of head.
ServiceStatus(r) ==
    CASE rpc[r] \in {"new", "check", "retry", "reserve"} -> "new"
      [] rpc[r] = "ring_full" -> "refused"
      [] rpc[r] = "error"     -> "failed"
      [] rpc[r] = "ok"        -> "ok"
      [] OTHER                -> "accepted"

\* A row stays in its slot after its run: the first cell that has it counts.
CellsWith(row) == {cell \in outputs : \E s \in SlotIds : cell.rows[s] = row}

FirstCell(row) ==
    CHOOSE cell \in CellsWith(row) :
        \A other \in CellsWith(row) : cell.gen <= other.gen

RowsRun ==
    (UNION {{cell.rows[s] : s \in SlotIds} : cell \in outputs}) \ {NoRow}

Statuses == [r \in Requests |-> ServiceStatus(r)]
Verdicts == [row \in RowsRun |-> FirstCell(row).ok]

Replies ==
    [r \in Requests |-> IF rpc[r] = "ok"
                        THEN [k \in DOMAIN answer[r] |-> answer[r][k][1]]
                        ELSE <<>>]

Service == INSTANCE BatchService WITH
    rows <- size, status <- Statuses, ran <- Verdicts, reply <- Replies

(***************************************************************************)
(* The ring, its indices, its notifications and its reuse of memory keep   *)
(* the promise of BatchService for a model whose input type can be copied  *)
(* and whose rows have one element: whole calls are accepted, each row is  *)
(* run once in a batch of at most BatchSize, and the answers of `infer`    *)
(* follow from the runs of the caller's own rows.                          *)
(***************************************************************************)
ImplementsBatchService == Service!Spec
-------------------------------------------------------------------------------
(***************************************************************************)
(* The inductive invariant behind ImplementsBatchService: where the rows   *)
(* of a call can be found, and which cell is the first that has them.      *)
(***************************************************************************)

\* Rows of r that were copied into the ring.
Copied(r) ==
    IF rpc[r] \in {"publish", "notify"} THEN sent[r] + ChunkSize(r) ELSE sent[r]

\* The row in a slot, if it is one of r, is among the first n of r.
Among(row, r, n) == row # NoRow /\ row[1] = r => row[2] < n

\* No row is in the ring before it was copied, or in a cell before it was
\* published.
KnownRows ==
    \A r \in Requests :
        /\ \A b \in BatchIds, s \in SlotIds : Among(buffer[b][s], r, Copied(r))
        /\ \A cell \in outputs, s \in SlotIds : Among(cell.rows[s], r, Taken(r))

\* A row is in the buffers and the cells of one batch only.
PlacedOnce ==
    /\ \A b, c \in BatchIds : \A s, t \in SlotIds :
        buffer[b][s] # NoRow /\ buffer[b][s] = buffer[c][t] => b = c
    /\ \A cell \in outputs, b \in BatchIds : \A s, t \in SlotIds :
        buffer[b][s] # NoRow /\ buffer[b][s] = cell.rows[t] => cell.batch = b

\* Every other cell that has the row is of a later run of the same batch.
IsFirst(cell, row) ==
    /\ cell \in CellsWith(row)
    /\ \A other \in CellsWith(row) :
        other.batch = cell.batch /\ (other = cell \/ cell.gen < other.gen)

FirstCells == \A row \in RowsRun : \E cell \in outputs : IsFirst(cell, row)

\* The cell of a reservation is the first that has its rows; until it is set
\* they are in none.
FirstForReserved(e) ==
    /\ e.start < e.end
    /\ \A cell \in outputs, s \in e.start .. e.end - 1 :
        /\ cell.batch = e.batch /\ cell.gen = e.gen => IsFirst(cell, cell.rows[s])
        /\ e.gen = state[e.batch].gen /\ cell \in CellsWith(buffer[e.batch][s])
            => cell.batch = e.batch /\ cell.gen = e.gen

ReservedRows ==
    \A r \in Requests : \A k \in 1 .. Len(resv[r]) : FirstForReserved(resv[r][k])

\* The rows a caller has outputs of ran well.
AnsweredRows ==
    \A r \in Requests : \A k \in 1 .. Len(answer[r]) :
        \E cell \in outputs : cell.ok /\ IsFirst(cell, <<r, k - 1>>)

ServiceInv ==
    /\ KnownRows /\ PlacedOnce /\ FirstCells /\ ReservedRows /\ AnsweredRows

-------------------------------------------------------------------------------
(***************************************************************************)
(* The inductive invariant behind WordDecisionsAgree, on top of RingInv:   *)
(* how far apart two indices can be that the code compares.                *)
(***************************************************************************)

\* An index that was loaded is never ahead of the one it was loaded from.
LoadsBehind ==
    /\ \A r \in Requests : rpc[r] = "check" => at[r] <= head
    /\ \A x \in Workers : xpc[x] = "check" => seen[x] <= executorHead

\* Executors claim within one lap of the tail; the tail follows the warmups,
\* which find the mark of the batch before the one they used.
WarmupsInRing ==
    IF Registered THEN executorHead <= tail + RingSize
    ELSE LET pc     == xpc[Manager]
             newest == executorHead - BatchSize
             two    == newest = tail + BatchSize
         IN  /\ newest <= tail + BatchSize
             /\ pc = "idle" => newest <= tail
             /\ pc = "reset" => idx[Manager] = newest
             /\ pc \in {"move_head", "take", "advance"} => seen[Manager] = tail
             /\ pc \in {"take", "advance"} => two
             /\ two /\ pc \in {"move", "move_head", "take"}
                    => dirty[BatchId(tail)] = 2
             /\ Capacity > 1 =>
                 /\ two /\ pc = "reset" => dirty[BatchId(tail)] = 2
                 /\ tail < executorHead /\ pc # "reset"
                        => dirty[BatchId(newest)] = 2

WordInv == LoadsBehind /\ WarmupsInRing

\* What the proofs of SuperTensor carry along, in one piece.
SuperTensorInvariant == RingInv /\ AnswerInv /\ ServiceInv /\ WordInv
-------------------------------------------------------------------------------
\* metrics_snapshot: slots between the tail and head, at most the whole ring.
\* It loads the tail first: a tail that moves meanwhile makes it larger.
InflightGauge == IF head - tail < RingSize THEN head - tail ELSE RingSize

\* Rows in the ring that no run has answered yet.
UnansweredRows ==
    {row \in Requests \X (0 .. RingSize) :
        /\ ServiceStatus(row[1]) \in {"accepted", "failed"}
        /\ row[2] < size[row[1]] /\ row \notin RowsRun}

(***************************************************************************)
(* "Total slots in the pipeline (queued + executing)": the inflight gauge  *)
(* of metrics_snapshot counts every row that waits for its run, whatever   *)
(* tail and head are doing when it is taken.  It may count more: the batch *)
(* head stands behind keeps its slots until the next one is opened.        *)
(***************************************************************************)
GaugeSeesWaitingRows == Cardinality(UnansweredRows) <= InflightGauge
-------------------------------------------------------------------------------
Laps == 0 .. (WordSize \div RingSize) - 1

\* The decisions of one request or worker, for a ring that made `lap` laps.
RequestAgrees(r, lap) ==
    LET W(index) == Word(index + lap * RingSize) IN
    /\ rpc[r] = "check" =>
        IsFull(at[r], tail) = WordIsFull(W(at[r]), W(tail))
    /\ rpc[r] = "write" =>
        /\ ChunkBatch(r) = WordBatchId(W(at[r]))
        /\ ChunkStart(r) = WordSlotId(W(at[r]))
        /\ HigherBound(at[r]) - at[r] =
               WrappingSub(WordHigherBound(W(at[r])), W(at[r]))

WorkerAgrees(x, lap) ==
    LET W(index) == Word(index + lap * RingSize) IN
    /\ xpc[x] = "check" =>
        IsFull(seen[x], tail) = WordIsFull(W(seen[x]), W(tail))
    /\ xpc[x] \in {"peek", "seal"} =>
        LET higher == WordHigherBound(W(idx[x])) IN
        /\ (head < HigherBound(idx[x])) = WordBelow(W(head), higher)
        /\ OpenSlots(x) > 0 => OpenSlots(x) = WrappingSub(higher, W(head))
    /\ xpc[x] = "seal" =>
        (head >= LowerBound(idx[x]))
            = WordAtLeast(W(head), WordLowerBound(W(idx[x])))
    /\ xpc[x] = "move_head" =>
        StillOpen(seen[x]) = WordAtLeast(WordHigherBound(W(seen[x])), W(head))

\* No thread sleeps between a load and its use while the index it loaded goes
\* on by most of the range of a usize.
LoadsAreRecent ==
    /\ \A r \in Requests :
        rpc[r] = "check" => tail - at[r] <= WordSize - RingSize
    /\ \A x \in Workers :
        /\ xpc[x] = "check" => tail - seen[x] <= WordSize - RingSize
        /\ xpc[x] = "move_head" =>
            head - HigherBound(seen[x]) <= WordSize - HALF_RANGE

(***************************************************************************)
(* Indices that wrapped decide like indices that never do: in every state  *)
(* the protocol reaches, on every lap of the usize range, each comparison  *)
(* against HALF_RANGE or the ring size, and each mask, gives what the      *)
(* unbounded indices give.                                                 *)
(***************************************************************************)
WordDecisionsAgree ==
    \A lap \in Laps : /\ \A r \in Requests : RequestAgrees(r, lap)
                      /\ \A x \in Workers : WorkerAgrees(x, lap)
==============================================================================
