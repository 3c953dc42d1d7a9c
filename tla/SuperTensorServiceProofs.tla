---------------------- MODULE SuperTensorServiceProofs ----------------------
(***************************************************************************)
(* The SuperTensor seen from outside, for every instance: the ring keeps   *)
(* the promise of BatchService, the inflight gauge misses no row that      *)
(* waits for its run, and machine words decide like indices that never     *)
(* wrap.                                                                   *)
(***************************************************************************)
EXTENDS SuperTensorAnswers, SuperTensorService, DataLemmas

USE DEF ringVars, trackerVars, requestVars, workerVars, vars

(***************************************************************************)
(* Rows, cells and their counts.                                           *)
(***************************************************************************)

LEMMA RowParts ==
    ASSUME NEW row \in Rows, row # NoRow
    PROVE  /\ row \in Requests \X Nat /\ row = <<row[1], row[2]>>
           /\ row[1] \in Requests /\ row[2] \in Nat
BY DEF Rows

LEMMA RowNotNone ==
    ASSUME NEW q, NEW i PROVE <<q, i>> # NoRow
BY DEF NoRow

LEMMA BufferRow ==
    ASSUME Typed, NEW b \in BatchIds, NEW s \in SlotIds
    PROVE  buffer[b][s] \in Rows
BY DEF Typed, TypeOK

LEMMA CellParts ==
    ASSUME Typed, NEW cell \in outputs
    PROVE  /\ cell.batch \in BatchIds /\ cell.gen \in Nat /\ cell.ok \in BOOLEAN
           /\ cell.rows \in [SlotIds -> Rows]
BY DEF Typed, TypeOK, OutputCell

LEMMA ChosenFirst ==
    ASSUME NEW C, NEW cell \in C, \A other \in C : other.gen \in Nat,
           \A other \in C : other = cell \/ cell.gen < other.gen
    PROVE  (CHOOSE c \in C : \A other \in C : c.gen <= other.gen) = cell
<1>1. \A other \in C : cell.gen <= other.gen
  OBVIOUS
<1>2. PICK d : d = CHOOSE c \in C : \A other \in C : c.gen <= other.gen
  OBVIOUS
<1>3. d \in C /\ \A other \in C : d.gen <= other.gen
  BY <1>1, <1>2
<1>4. d = cell
  BY <1>3
<1> QED  BY <1>2, <1>4

\* The first cell of a row is the one FirstCell chooses, now and after a step.
LEMMA FirstIsFirst ==
    ASSUME NEW cell, NEW row
    PROVE  /\ Typed /\ IsFirst(cell, row) => FirstCell(row) = cell
           /\ Typed' /\ IsFirst(cell, row)' => FirstCell(row)' = cell
<1>1. ASSUME Typed, IsFirst(cell, row) PROVE FirstCell(row) = cell
  <2>1. /\ cell \in CellsWith(row)
        /\ \A other \in CellsWith(row) : other = cell \/ cell.gen < other.gen
        /\ \A other \in CellsWith(row) : other.gen \in Nat
    BY <1>1, CellParts DEF IsFirst, CellsWith
  <2> QED  BY <2>1, ChosenFirst DEF FirstCell
<1>2. ASSUME Typed', IsFirst(cell, row)' PROVE FirstCell(row)' = cell
  <2>1. /\ cell \in CellsWith(row)'
        /\ \A other \in CellsWith(row)' : other = cell \/ cell.gen < other.gen
    BY <1>2 DEF IsFirst
  <2>2. \A other \in CellsWith(row)' : other.gen \in Nat
    BY <1>2 DEF CellsWith, Typed, TypeOK, OutputCell
  <2> QED  BY <2>1, <2>2, ChosenFirst DEF FirstCell
<1> QED  BY <1>1, <1>2

LEMMA RowsOfCells ==
    ASSUME NEW cells, NEW row
    PROVE  row \in (UNION {{cell.rows[s] : s \in SlotIds} : cell \in cells}) \ {NoRow}
             <=> /\ row # NoRow
                 /\ \E cell \in cells : \E s \in SlotIds : cell.rows[s] = row
<1> DEFINE U == UNION {{cell.rows[s] : s \in SlotIds} : cell \in cells}
<1>1. row \in U <=> \E cell \in cells : \E s \in SlotIds : row = cell.rows[s]
  OBVIOUS
<1> HIDE DEF U
<1> QED  BY <1>1

LEMMA RunRow ==
    ASSUME NEW row
    PROVE  /\ row \in RowsRun <=> row # NoRow /\ \E cell : cell \in CellsWith(row)
           /\ row \in RowsRun' <=> row # NoRow /\ \E cell : cell \in CellsWith(row)'
<1>1. row \in RowsRun
        <=> /\ row # NoRow
            /\ \E cell \in outputs : \E s \in SlotIds : cell.rows[s] = row
  BY RowsOfCells DEF RowsRun
<1>2. row \in RowsRun'
        <=> /\ row # NoRow
            /\ \E cell \in outputs' : \E s \in SlotIds : cell.rows[s] = row
  BY RowsOfCells DEF RowsRun
<1> QED  BY <1>1, <1>2 DEF CellsWith

LEMMA RunRowType ==
    ASSUME Typed, NEW row \in RowsRun
    PROVE  row \in Rows /\ row # NoRow
<1>1. PICK cell : cell \in CellsWith(row)
  BY RunRow
<1>2. row # NoRow
  BY RunRow
<1> QED  BY <1>1, <1>2, CellParts DEF CellsWith

LEMMA CopiedNumbers ==
    ASSUME Typed, SlotInv, NEW r \in Requests
    PROVE  /\ Copied(r) \in Nat /\ Taken(r) \in Nat
           /\ Taken(r) <= Copied(r) /\ Copied(r) <= size[r]
           /\ Copied(r) > 0 => rpc[r] \notin {"new", "check", "retry", "reserve",
                                               "ring_full"}
           /\ rpc[r] # "publish" => Taken(r) = Copied(r)
<1>1. /\ sent[r] \in Nat /\ size[r] \in Nat /\ sent[r] <= size[r]
      /\ ChunkSize(r) \in Nat /\ sent[r] + ChunkSize(r) <= size[r]
  BY RequestNumbers, ChunkFacts
<1>2. rpc[r] \in {"new", "check", "retry", "reserve", "ring_full"} => sent[r] = 0
  BY DEF SlotInv, ChunkProgress
<1> QED  BY <1>1, <1>2, SMT DEF Copied, Taken

(***************************************************************************)
(* How many rows of a request are copied and taken: only a copy adds to    *)
(* the first, only a publication to the second.                            *)
(***************************************************************************)
LEMMA RequestCounts ==
    ASSUME Typed, SlotInv, NEW r \in Requests, RequestStep(r)
    PROVE  /\ \A q \in Requests :
                /\ Copied(q)' \in Nat /\ Copied(q) <= Copied(q)'
                /\ Taken(q)' \in Nat /\ Taken(q) <= Taken(q)'
           /\ WriteChunk(r) /\ InputSupported
                => /\ Copied(r) = sent[r] /\ Copied(r)' = sent[r] + ChunkSize(r)
           /\ Publish(r) => Taken(r) = sent[r] /\ Taken(r)' = sent[r] + ChunkSize(r)
<1>1. /\ sent[r] \in Nat /\ ChunkSize(r) \in Nat
      /\ \A q \in Requests : Copied(q) \in Nat /\ Taken(q) \in Nat
  BY RequestNumbers, CopiedNumbers
<1>2. \A q \in Requests \ {r} : Copied(q)' = Copied(q) /\ Taken(q)' = Taken(q)
  <2> SUFFICES ASSUME NEW q \in Requests \ {r}
               PROVE  Copied(q)' = Copied(q) /\ Taken(q)' = Taken(q)
    OBVIOUS
  <2>1. /\ rpc'[q] = rpc[q] /\ sent'[q] = sent[q] /\ at'[q] = at[q]
        /\ size' = size
    BY RequestCellFrame
  <2>2. ChunkSize(q)' = ChunkSize(q)
    BY <2>1, OthersKept
  <2> QED  BY <2>1, <2>2 DEF Copied, Taken
<1>3. CASE LoadHead(r) \/ CheckFull(r) \/ Reserve(r) \/ Collect(r)
  <2>1. /\ rpc[r] \notin {"write", "publish", "notify"} /\ sent' = sent
        /\ rpc'[r] \notin {"publish", "notify"}
    BY <1>3 DEF LoadHead, CheckFull, Reserve, Collect, Typed, TypeOK
  <2>2. Copied(r)' = Copied(r) /\ Taken(r)' = Taken(r)
    BY <2>1 DEF Copied, Taken
  <2>3. ~WriteChunk(r) /\ ~Publish(r)
    BY <2>1 DEF WriteChunk, Publish
  <2> QED  BY <1>1, <1>2, <2>2, <2>3
<1>4. CASE WriteChunk(r)
  <2>1. /\ rpc[r] = "write" /\ sent' = sent /\ at' = at /\ size' = size
        /\ rpc'[r] = IF InputSupported THEN "publish" ELSE "error"
    BY <1>4 DEF WriteChunk, Typed, TypeOK
  <2>2. ChunkSize(r)' = ChunkSize(r)
    BY <2>1 DEF ChunkSize
  <2>3. /\ Taken(r)' = Taken(r) /\ Copied(r) = sent[r]
        /\ Copied(r)' = IF InputSupported THEN sent[r] + ChunkSize(r) ELSE sent[r]
    BY <2>1, <2>2 DEF Copied, Taken
  <2>4. ~Publish(r)
    BY <2>1 DEF Publish
  <2> QED  BY <1>1, <1>2, <2>3, <2>4
<1>5. CASE Publish(r) \/ NotifyExecutor(r)
  <2>1. rpc[r] \in {"publish", "notify"} /\ size' = size
    BY <1>5 DEF Publish, NotifyExecutor
  <2>2. \/ /\ rpc'[r] = "notify" /\ Publish(r) /\ sent' = sent /\ at' = at
        \/ /\ rpc'[r] \in {"wait", "write"}
           /\ sent'[r] = sent[r] + ChunkSize(r)
    BY <1>5 DEF Publish, NotifyExecutor, NextChunk, Typed, TypeOK
  <2>3. sent' = sent /\ at' = at => ChunkSize(r)' = ChunkSize(r)
    BY <2>1 DEF ChunkSize
  <2>4. /\ Copied(r)' = Copied(r) /\ Taken(r)' = sent[r] + ChunkSize(r)
        /\ Taken(r) = IF rpc[r] = "publish" THEN sent[r] ELSE sent[r] + ChunkSize(r)
    BY <2>1, <2>2, <2>3 DEF Copied, Taken
  <2>5. ~WriteChunk(r) /\ (Publish(r) => rpc[r] = "publish")
    BY <2>1 DEF WriteChunk, Publish
  <2> QED  BY <1>1, <1>2, <2>1, <2>4, <2>5
<1> QED  BY <1>3, <1>4, <1>5 DEF RequestStep

LEMMA UnmovedCounts ==
    ASSUME UNCHANGED requestVars, NEW q \in Requests
    PROVE  Copied(q)' = Copied(q) /\ Taken(q)' = Taken(q)
<1>1. ChunkSize(q)' = ChunkSize(q)
  BY DEF ChunkSize
<1> QED  BY <1>1 DEF Copied, Taken

\* A reservation and the rows it stands for.
LEMMA HeldRows ==
    ASSUME Typed, AnswersInOrder, NEW r \in Requests, NEW k \in 1 .. Len(resv[r])
    PROVE  \E first \in Nat :
               /\ RowsHeld(r, resv[r][k], first)
               /\ first + resv[r][k].end - resv[r][k].start <= size[r]
               /\ k = 1 => first = Len(answer[r])
<1>1. PICK f \in [1 .. Len(resv[r]) + 1 -> 0 .. size[r]] :
        /\ f[1] = Len(answer[r])
        /\ \A j \in 1 .. Len(resv[r]) :
            /\ f[j + 1] = f[j] + resv[r][j].end - resv[r][j].start
            /\ RowsHeld(r, resv[r][j], f[j])
  BY DEF AnswersInOrder, RowsInOrder
<1>2. /\ Len(resv[r]) \in Nat /\ size[r] \in Nat
  BY HeldReservation, RequestNumbers
<1>3. k \in 1 .. Len(resv[r]) + 1 /\ k + 1 \in 1 .. Len(resv[r]) + 1
  BY <1>2, SMT
<1>4. f[k] \in 0 .. size[r] /\ f[k + 1] \in 0 .. size[r]
  BY <1>1, <1>3
<1>5. /\ f[k + 1] = f[k] + resv[r][k].end - resv[r][k].start
      /\ RowsHeld(r, resv[r][k], f[k])
  BY <1>1
<1> QED  BY <1>1, <1>2, <1>4, <1>5, SMT

-------------------------------------------------------------------------------
(***************************************************************************)
(* A copy is the only thing a request does to the buffers; the rows it     *)
(* puts there were nowhere before.                                         *)
(***************************************************************************)
LEMMA WrittenRow ==
    ASSUME Typed, SlotInv, NEW r \in Requests, RequestStep(r),
           NEW b \in BatchIds, NEW s \in SlotIds, buffer'[b][s] # buffer[b][s]
    PROVE  /\ b = ChunkBatch(r)
           /\ \E i \in Nat : /\ buffer'[b][s] = <<r, i>>
                             /\ Copied(r) <= i /\ i < Copied(r)'
<1>1. WriteChunk(r) /\ InputSupported
  BY DEF RequestStep, LoadHead, CheckFull, Reserve, WriteChunk, Publish,
         NotifyExecutor, Collect
<1>2. buffer' = [buffer EXCEPT ![ChunkBatch(r)] = CopiedRows(r)]
  BY <1>1 DEF WriteChunk
<1>3. /\ b = ChunkBatch(r) /\ buffer'[b][s] = CopiedRows(r)[s]
  BY <1>2, ChunkFacts DEF Typed, TypeOK
<1>4. CopiedRows(r)[s] = IF s \in ChunkStart(r) .. ChunkEnd(r) - 1
                         THEN <<r, sent[r] + s - ChunkStart(r)>>
                         ELSE buffer[ChunkBatch(r)][s]
  BY DEF CopiedRows
<1>5. s \in ChunkStart(r) .. ChunkEnd(r) - 1
  BY <1>3, <1>4
<1>6. /\ ChunkStart(r) \in Nat /\ ChunkSize(r) \in Nat /\ sent[r] \in Nat
      /\ ChunkEnd(r) = ChunkStart(r) + ChunkSize(r)
  BY ChunkFacts, RequestNumbers DEF SlotIds, ChunkEnd
<1>7. Copied(r) = sent[r] /\ Copied(r)' = sent[r] + ChunkSize(r)
  BY <1>1, RequestCounts
<1>8. PICK i : i = sent[r] + s - ChunkStart(r)
  OBVIOUS
<1>9. i \in Nat /\ Copied(r) <= i /\ i < Copied(r)'
  BY <1>5, <1>6, <1>7, <1>8, SMT
<1> QED  BY <1>3, <1>4, <1>5, <1>8, <1>9

LEMMA RequestPlaces ==
    ASSUME Typed, SlotInv, KnownRows, PlacedOnce, NEW r \in Requests,
           RequestStep(r)
    PROVE  KnownRows' /\ PlacedOnce'
<1>1. outputs' = outputs
  BY RequestCellFrame
<1>2. ASSUME NEW row \in Rows, NEW q \in Requests
      PROVE  /\ Among(row, q, Copied(q)) => Among(row, q, Copied(q)')
             /\ Among(row, q, Taken(q)) => Among(row, q, Taken(q)')
  <2>1. /\ Copied(q) \in Nat /\ Taken(q) \in Nat
        /\ Copied(q) <= Copied(q)' /\ Taken(q) <= Taken(q)'
        /\ Copied(q)' \in Nat /\ Taken(q)' \in Nat
    BY CopiedNumbers, RequestCounts
  <2>2. row # NoRow => row[2] \in Nat
    BY RowParts
  <2> QED  BY <2>1, <2>2, SMT DEF Among
<1>3. ASSUME NEW q \in Requests, NEW b \in BatchIds, NEW s \in SlotIds
      PROVE  Among(buffer'[b][s], q, Copied(q)')
  <2>1. CASE buffer'[b][s] = buffer[b][s]
    BY <1>2, <2>1, BufferRow DEF KnownRows
  <2>2. CASE buffer'[b][s] # buffer[b][s]
    <3>1. PICK i \in Nat : buffer'[b][s] = <<r, i>> /\ i < Copied(r)'
      BY <2>2, WrittenRow
    <3> QED  BY <3>1 DEF Among
  <2> QED  BY <2>1, <2>2
<1>4. ASSUME NEW q \in Requests, NEW cell \in outputs, NEW s \in SlotIds
      PROVE  Among(cell.rows[s], q, Taken(q)')
  BY <1>2, CellParts DEF KnownRows
<1>5. KnownRows'
  BY <1>1, <1>3, <1>4 DEF KnownRows, Among
<1>6. ASSUME NEW b \in BatchIds, NEW s \in SlotIds, NEW i \in Nat,
             buffer'[b][s] = <<r, i>>, Copied(r) <= i
      PROVE  /\ \A c \in BatchIds, t \in SlotIds : buffer[c][t] # <<r, i>>
             /\ \A cell \in outputs, t \in SlotIds : cell.rows[t] # <<r, i>>
  <2>1. <<r, i>> # NoRow /\ <<r, i>>[1] = r /\ <<r, i>>[2] = i
    BY RowNotNone
  <2>2. ~(i < Copied(r)) /\ ~(i < Taken(r))
    BY <1>6, CopiedNumbers, SMT
  <2> QED  BY <2>1, <2>2 DEF KnownRows, Among
<1>7. ASSUME NEW b \in BatchIds, NEW c \in BatchIds,
             NEW s \in SlotIds, NEW t \in SlotIds,
             buffer'[b][s] # NoRow, buffer'[b][s] = buffer'[c][t]
      PROVE  b = c
  <2>1. CASE buffer'[b][s] = buffer[b][s] /\ buffer'[c][t] = buffer[c][t]
    <3>1. buffer[b][s] # NoRow /\ buffer[b][s] = buffer[c][t]
      BY <1>7, <2>1
    <3> QED  BY ONLY <3>1, PlacedOnce DEF PlacedOnce
  <2>2. CASE buffer'[b][s] # buffer[b][s]
    <3>1. PICK i \in Nat : buffer'[b][s] = <<r, i>> /\ Copied(r) <= i
      BY <2>2, WrittenRow
    <3>2. buffer'[c][t] # buffer[c][t]
      BY <1>6, <1>7, <3>1
    <3> QED  BY <2>2, <3>2, WrittenRow
  <2>3. CASE buffer'[c][t] # buffer[c][t]
    <3>1. PICK i \in Nat : buffer'[c][t] = <<r, i>> /\ Copied(r) <= i
      BY <2>3, WrittenRow
    <3>2. buffer'[b][s] # buffer[b][s]
      BY <1>6, <1>7, <3>1
    <3> QED  BY <2>3, <3>2, WrittenRow
  <2> QED  BY <2>1, <2>2, <2>3
<1>8. ASSUME NEW cell \in outputs, NEW b \in BatchIds,
             NEW s \in SlotIds, NEW t \in SlotIds,
             buffer'[b][s] # NoRow, buffer'[b][s] = cell.rows[t]
      PROVE  cell.batch = b
  <2>1. CASE buffer'[b][s] = buffer[b][s]
    <3>1. buffer[b][s] # NoRow /\ buffer[b][s] = cell.rows[t]
      BY <1>8, <2>1
    <3> QED  BY ONLY <3>1, PlacedOnce DEF PlacedOnce
  <2>2. CASE buffer'[b][s] # buffer[b][s]
    <3>1. PICK i \in Nat : buffer'[b][s] = <<r, i>> /\ Copied(r) <= i
      BY <2>2, WrittenRow
    <3> QED  BY <1>6, <1>8, <3>1
  <2> QED  BY <2>1, <2>2
<1>9. PlacedOnce'
  BY <1>1, <1>7, <1>8 DEF PlacedOnce
<1> QED  BY <1>5, <1>9

-------------------------------------------------------------------------------
(***************************************************************************)
(* The end of a run: one more cell, with the rows of the batch.            *)
(***************************************************************************)

\* The cell a run leaves is the last one of its batch.
LastCell(cell, b) ==
    /\ cell.batch = b /\ cell.gen = state[b].gen /\ cell.rows = buffer[b]
    /\ cell.gen \in Nat /\ cell.ok \in BOOLEAN /\ cell \notin outputs
    /\ \A other \in outputs : other.batch = b => other.gen < cell.gen

LEMMA FinishCell ==
    ASSUME Typed, ClaimInv, CellInv, NEW x \in Workers, Finish(x)
    PROVE  /\ x \in Executors /\ xpc[x] = "run" /\ BatchId(idx[x]) \in BatchIds
           /\ UNCHANGED <<ringVars, buffer, state, requestVars>>
           /\ \E cell : /\ LastCell(cell, BatchId(idx[x]))
                        /\ outputs' = outputs \cup {cell}
<1>1. PICK ok \in Outcomes : outputs' = outputs \cup RunResult(BatchId(idx[x]), ok)
  BY FinishFacts
<1>2. PICK b : b = BatchId(idx[x])
  OBVIOUS
<1>3. PICK cell : cell = [batch |-> b, gen |-> state[b].gen, ok |-> ok,
                          rows |-> buffer[b]]
  OBVIOUS
<1>4. b \in BatchIds
  BY <1>2, Numbers, BatchIdInRange
<1>5. outputs' = outputs \cup {cell}
  BY <1>1, <1>2, <1>3 DEF RunResult
<1>6. /\ cell.batch = b /\ cell.gen = state[b].gen /\ cell.rows = buffer[b]
      /\ cell.ok \in BOOLEAN /\ cell.gen \in Nat
  BY <1>3, <1>4, GenNat, ModelAssumption
<1>7. \A other \in outputs : other.batch = b => other.gen < cell.gen
  BY <1>2, <1>6, FinishFacts
<1>8. cell \notin outputs
  BY <1>6, <1>7, SMT
<1> QED  BY <1>2, <1>4, <1>5, <1>6, <1>7, <1>8, FinishFacts DEF LastCell

\* The rows of a batch that runs have all been published.
LEMMA RunningTaken ==
    ASSUME Typed, RingInv, ChunkCopied, KnownRows, PlacedOnce,
           NEW x \in Executors, xpc[x] = "run",
           NEW s \in SlotIds, NEW q \in Requests
    PROVE  Among(buffer[BatchId(idx[x])][s], q, Taken(q))
<1>1. PICK b : b = BatchId(idx[x])
  OBVIOUS
<1>2. /\ x \in Workers /\ Active(x) /\ idx[x] \in Window /\ idx[x] \in Nat
      /\ Aligned(idx[x]) /\ b \in BatchIds
  BY <1>1, HeldBatch, BatchIdInRange DEF Active, RingInv
<1> SUFFICES ASSUME buffer[b][s] # NoRow, buffer[b][s][1] = q
             PROVE  buffer[b][s][2] < Taken(q)
  BY <1>1 DEF Among
<1>3. PICK i \in Nat : buffer[b][s] = <<q, i>>
  BY <1>2, BufferRow, RowParts
<1>4. i < Copied(q)
  <2>1. Among(buffer[b][s], q, Copied(q))
    BY <1>2 DEF KnownRows
  <2> QED  BY <1>3, <2>1 DEF Among
<1>5. CASE rpc[q] # "publish"
  BY <1>3, <1>4, <1>5, CopiedNumbers DEF RingInv
<1>6. CASE rpc[q] = "publish"
  <2>1. /\ Taken(q) = sent[q] /\ Copied(q) = sent[q] + ChunkSize(q)
        /\ ChunkEnd(q) = ChunkStart(q) + ChunkSize(q)
    BY <1>6 DEF Taken, Copied, ChunkEnd
  <2>2. /\ sent[q] \in Nat /\ ChunkSize(q) \in Nat /\ ChunkStart(q) \in Nat
        /\ at[q] \in Nat /\ ChunkBatch(q) \in BatchIds /\ ChunkEnd(q) <= BatchSize
    BY RequestNumbers, ChunkFacts DEF SlotIds
  <2> SUFFICES ASSUME sent[q] <= i PROVE FALSE
    BY <1>3, <2>1, <2>2, SMT
  <2>3. PICK t : t = ChunkStart(q) + i - sent[q]
    OBVIOUS
  <2>4. /\ t \in ChunkStart(q) .. ChunkEnd(q) - 1 /\ t \in SlotIds
        /\ sent[q] + t - ChunkStart(q) = i
    BY <1>4, <2>1, <2>2, <2>3, BatchSizeAssumption, SMT DEF SlotIds
  <2>5. buffer[ChunkBatch(q)][t] = <<q, i>>
    BY <1>6, <2>4 DEF ChunkCopied
  <2>6. ChunkBatch(q) = b
    <3>1. /\ buffer[b][s] # NoRow /\ buffer[b][s] = buffer[ChunkBatch(q)][t]
          /\ ChunkBatch(q) \in BatchIds /\ t \in SlotIds
      BY <1>3, <2>2, <2>4, <2>5
    <3> QED  BY ONLY <1>2, <3>1, PlacedOnce, s \in SlotIds DEF PlacedOnce
  <2>7. PICK low : low = LowerBound(at[q])
    OBVIOUS
  <2>8. low + t \in Pending /\ LowerBound(low + t) = low
    BY <1>6, <2>4, <2>7, WrittenPlace
  <2>9. low \in Window /\ idx[x] # low
    BY <1>2, <2>8, PendingBatch DEF RingInv
  <2>10. Aligned(low) /\ BatchId(low) = b
    BY <2>2, <2>6, <2>7, BatchOfIndex DEF ChunkBatch
  <2> QED  BY <1>1, <1>2, <2>9, <2>10, WindowMember, Numbers, SameBatchInWindow
<1> QED  BY <1>5, <1>6

LEMMA FinishPlaces ==
    ASSUME Typed, RingInv, CellInv, ChunkCopied, KnownRows, PlacedOnce,
           NEW x \in Workers, Finish(x)
    PROVE  KnownRows' /\ PlacedOnce'
<1>1. PICK b : b = BatchId(idx[x])
  OBVIOUS
<1>2. /\ x \in Executors /\ xpc[x] = "run" /\ b \in BatchIds
      /\ UNCHANGED <<buffer, requestVars>>
  BY <1>1, FinishCell DEF RingInv
<1>3. PICK n : LastCell(n, b) /\ outputs' = outputs \cup {n}
  BY <1>1, FinishCell DEF RingInv
<1>4. \A q \in Requests : Copied(q)' = Copied(q) /\ Taken(q)' = Taken(q)
  BY <1>2, UnmovedCounts
<1>5. ASSUME NEW q \in Requests, NEW cell \in outputs', NEW s \in SlotIds
      PROVE  Among(cell.rows[s], q, Taken(q))
  <2>1. CASE cell \in outputs
    BY <2>1 DEF KnownRows
  <2>2. CASE cell = n
    BY <1>1, <1>2, <1>3, <2>2, RunningTaken DEF LastCell
  <2> QED  BY <1>3, <2>1, <2>2
<1>6. KnownRows'
  BY <1>2, <1>4, <1>5 DEF KnownRows, Among
<1>7. ASSUME NEW cell \in outputs', NEW c \in BatchIds,
             NEW s \in SlotIds, NEW t \in SlotIds,
             buffer[c][s] # NoRow, buffer[c][s] = cell.rows[t]
      PROVE  cell.batch = c
  <2>1. CASE cell \in outputs
    BY ONLY <1>7, <2>1, PlacedOnce DEF PlacedOnce
  <2>2. CASE cell = n
    <3>1. buffer[c][s] = buffer[b][t] /\ cell.batch = b
      BY <1>3, <1>7, <2>2 DEF LastCell
    <3> QED  BY ONLY <1>2, <1>7, <3>1, PlacedOnce DEF PlacedOnce
  <2> QED  BY <1>3, <2>1, <2>2
<1>8. PlacedOnce'
  BY <1>2, <1>7 DEF PlacedOnce
<1> QED  BY <1>6, <1>8

-------------------------------------------------------------------------------
(***************************************************************************)
(* First cells stay first: a later cell with the same row is of a later    *)
(* run of the same batch.                                                  *)
(***************************************************************************)
LEMMA CellMember ==
    ASSUME NEW cell, NEW row
    PROVE  cell \in CellsWith(row)
             <=> cell \in outputs /\ \E s \in SlotIds : cell.rows[s] = row
BY DEF CellsWith

LEMMA SameCells ==
    ASSUME outputs' = outputs, NEW row
    PROVE  /\ CellsWith(row)' = CellsWith(row)
           /\ \A cell : IsFirst(cell, row)' <=> IsFirst(cell, row)
<1>1. CellsWith(row)' = CellsWith(row)
  BY DEF CellsWith
<1> QED  BY <1>1 DEF IsFirst

LEMMA KeptCells ==
    ASSUME outputs' = outputs, FirstCells PROVE FirstCells'
<1>1. \A row : row \in RowsRun' <=> row \in RowsRun
  BY SameCells, RunRow
<1>2. \A row \in RowsRun : \E cell \in outputs : IsFirst(cell, row)
  BY DEF FirstCells
<1> QED  BY <1>1, <1>2, SameCells DEF FirstCells

LEMMA KeptAnswers ==
    ASSUME outputs' = outputs, answer' = answer, AnsweredRows PROVE AnsweredRows'
<1>1. \A r \in Requests : \A k \in 1 .. Len(answer[r]) :
        \E cell \in outputs : cell.ok /\ IsFirst(cell, <<r, k - 1>>)
  BY DEF AnsweredRows
<1> QED  BY <1>1, SameCells DEF AnsweredRows

LEMMA FinishFirst ==
    ASSUME Typed, PlacedOnce, NEW b \in BatchIds, NEW n, LastCell(n, b),
           outputs' = outputs \cup {n}, NEW row, row # NoRow
    PROVE  /\ \A cell : IsFirst(cell, row) => IsFirst(cell, row)'
           /\ CellsWith(row) = {} /\ (\E s \in SlotIds : buffer[b][s] = row)
                => IsFirst(n, row)'
           /\ \A cell : cell \in CellsWith(row)'
                <=> \/ cell \in CellsWith(row)
                    \/ cell = n /\ \E s \in SlotIds : buffer[b][s] = row
<1>1. \A cell : cell \in CellsWith(row)'
        <=> \/ cell \in CellsWith(row)
            \/ cell = n /\ \E s \in SlotIds : buffer[b][s] = row
  <2>1. \A cell : cell \in CellsWith(row)'
          <=> cell \in outputs' /\ \E s \in SlotIds : cell.rows[s] = row
    BY DEF CellsWith
  <2> QED  BY <2>1, CellMember DEF LastCell
<1>2. ASSUME NEW cell, IsFirst(cell, row) PROVE IsFirst(cell, row)'
  <2>1. cell \in CellsWith(row) /\ cell \in outputs
    BY <1>2, CellMember DEF IsFirst
  <2>2. ASSUME \E s \in SlotIds : buffer[b][s] = row
        PROVE  n.batch = cell.batch /\ cell.gen < n.gen
    <3>1. PICK s, t \in SlotIds : buffer[b][s] = row /\ cell.rows[t] = row
      BY <2>1, <2>2, CellMember
    <3>2. buffer[b][s] # NoRow /\ buffer[b][s] = cell.rows[t]
      BY <3>1
    <3>3. cell.batch = b
      BY ONLY <2>1, <3>1, <3>2, PlacedOnce, b \in BatchIds DEF PlacedOnce
    <3> QED  BY <2>1, <3>3 DEF LastCell
  <2>3. \A other \in CellsWith(row) :
            other.batch = cell.batch /\ (other = cell \/ cell.gen < other.gen)
    BY <1>2 DEF IsFirst
  <2>4. \A other \in CellsWith(row)' :
            other.batch = cell.batch /\ (other = cell \/ cell.gen < other.gen)
    BY <1>1, <2>2, <2>3
  <2>5. cell \in CellsWith(row)'
    BY <1>1, <2>1
  <2> QED  BY <2>4, <2>5 DEF IsFirst
<1>3. ASSUME CellsWith(row) = {}, \E s \in SlotIds : buffer[b][s] = row
      PROVE  IsFirst(n, row)'
  <2>1. n \in CellsWith(row)' /\ \A other \in CellsWith(row)' : other = n
    BY <1>1, <1>3
  <2> QED  BY <2>1 DEF IsFirst
<1> QED  BY <1>1, <1>2, <1>3

LEMMA FinishFirstCells ==
    ASSUME Typed, PlacedOnce, FirstCells, AnsweredRows, NEW b \in BatchIds,
           NEW n, LastCell(n, b), outputs' = outputs \cup {n}, buffer' = buffer,
           UNCHANGED answer
    PROVE  FirstCells' /\ AnsweredRows'
<1>1. ASSUME NEW row, row \in RowsRun'
      PROVE  \E cell \in outputs' : IsFirst(cell, row)'
  <2>1. row # NoRow /\ \E cell : cell \in CellsWith(row)'
    BY <1>1, RunRow
  <2>2. CASE row \in RowsRun
    <3>1. PICK cell \in outputs : IsFirst(cell, row)
      BY <2>2 DEF FirstCells
    <3> QED  BY <2>1, <3>1, FinishFirst
  <2>3. CASE row \notin RowsRun
    <3>1. CellsWith(row) = {}
      BY <2>1, <2>3, RunRow, CellMember
    <3>2. \E s \in SlotIds : buffer[b][s] = row
      BY <2>1, <3>1, FinishFirst
    <3> QED  BY <2>1, <3>1, <3>2, FinishFirst
  <2> QED  BY <2>2, <2>3
<1>2. ASSUME NEW r \in Requests, NEW k \in 1 .. Len(answer[r])
      PROVE  \E cell \in outputs' : cell.ok /\ IsFirst(cell, <<r, k - 1>>)'
  <2>1. PICK cell \in outputs : cell.ok /\ IsFirst(cell, <<r, k - 1>>)
    BY DEF AnsweredRows
  <2>2. IsFirst(cell, <<r, k - 1>>)'
    BY <2>1, RowNotNone, FinishFirst
  <2> QED  BY <2>1, <2>2
<1>3. FirstCells'
  BY <1>1 DEF FirstCells
<1>4. AnsweredRows'
  BY <1>2 DEF AnsweredRows
<1> QED  BY <1>3, <1>4

-------------------------------------------------------------------------------
(***************************************************************************)
(* A reservation stays on the first cell of its rows.                      *)
(***************************************************************************)
LEMMA HeldFirst ==
    ASSUME Typed, AnswersInOrder, ReservedRows, NEW q \in Requests,
           NEW k \in 1 .. Len(resv[q]), NEW e, e = resv[q][k]
    PROVE  /\ e \in Reservation /\ FirstForReserved(e)
           /\ \E first \in Nat : RowsHeld(q, e, first)
<1>1. e \in Reservation
  BY HeldReservation
<1>2. FirstForReserved(e)
  BY DEF ReservedRows
<1> QED  BY <1>1, <1>2, HeldRows

\* As long as no cell is set.
LEMMA ReservedKept ==
    ASSUME Typed, NEW q, NEW e \in Reservation, NEW first \in Nat,
           RowsHeld(q, e, first), RowsHeld(q, e, first)',
           FirstForReserved(e), outputs' = outputs,
           state[e.batch].gen <= state'[e.batch].gen,
           state'[e.batch].gen \in Nat
    PROVE  FirstForReserved(e)'
<1>1. /\ e.batch \in BatchIds /\ e.gen \in Nat /\ state[e.batch].gen \in Nat
      /\ e.gen <= state[e.batch].gen
  BY ReservationNumbers, GenNat DEF RowsHeld
<1>2. e.gen = state'[e.batch].gen => e.gen = state[e.batch].gen
  BY <1>1, SMT
<1>3. ASSUME NEW s \in e.start .. e.end - 1, e.gen = state'[e.batch].gen
      PROVE  buffer'[e.batch][s] = buffer[e.batch][s]
  <2>1. RowsAt(buffer[e.batch], q, e, first) /\ RowsAt(buffer'[e.batch], q, e, first)
    BY <1>2, <1>3 DEF RowsHeld
  <2> QED  BY <2>1 DEF RowsAt
<1>4. ASSUME NEW cell \in outputs, NEW s \in e.start .. e.end - 1
      PROVE  /\ cell.batch = e.batch /\ cell.gen = e.gen
                  => IsFirst(cell, cell.rows[s])'
             /\ e.gen = state'[e.batch].gen
                  /\ (\E t \in SlotIds : cell.rows[t] = buffer'[e.batch][s])
                  => cell.batch = e.batch /\ cell.gen = e.gen
  <2>1. /\ cell.batch = e.batch /\ cell.gen = e.gen => IsFirst(cell, cell.rows[s])
        /\ e.gen = state[e.batch].gen /\ cell \in CellsWith(buffer[e.batch][s])
             => cell.batch = e.batch /\ cell.gen = e.gen
    BY DEF FirstForReserved
  <2> QED  BY <1>2, <1>3, <2>1, SameCells, CellMember
<1>5. e.start < e.end
  BY DEF FirstForReserved
<1> QED  BY <1>4, <1>5 DEF FirstForReserved, CellsWith

\* When a cell is set.
LEMMA ReservedRun ==
    ASSUME Typed, PlacedOnce, NEW q, NEW e \in Reservation, NEW first \in Nat,
           RowsHeld(q, e, first), FirstForReserved(e),
           NEW b \in BatchIds, NEW n, LastCell(n, b),
           outputs' = outputs \cup {n}, UNCHANGED <<buffer, state>>
    PROVE  FirstForReserved(e)'
<1>1. /\ e.batch \in BatchIds /\ e.gen \in Nat /\ state[e.batch].gen \in Nat
      /\ \A s \in e.start .. e.end - 1 : s \in SlotIds
  BY ReservationNumbers, GenNat
<1>2. ASSUME NEW s \in e.start .. e.end - 1, e.gen = state[e.batch].gen,
             NEW row, row = buffer[e.batch][s]
      PROVE  /\ row # NoRow
             /\ \A t \in SlotIds : buffer[b][t] = row => e.batch = b
             /\ \A cell \in CellsWith(row) : cell.batch = e.batch /\ cell.gen = e.gen
  <2>1. RowsAt(buffer[e.batch], q, e, first)
    BY <1>2 DEF RowsHeld
  <2>2. row # NoRow
    BY <1>2, <2>1, RowNotNone DEF RowsAt
  <2>3. ASSUME NEW t \in SlotIds, buffer[b][t] = row
        PROVE  e.batch = b
    <3>1. /\ buffer[b][t] # NoRow /\ buffer[b][t] = buffer[e.batch][s]
          /\ s \in SlotIds
      BY <1>1, <1>2, <2>2, <2>3
    <3> QED  BY ONLY <1>1, <3>1, PlacedOnce, b \in BatchIds DEF PlacedOnce
  <2>4. \A cell \in CellsWith(row) : cell.batch = e.batch /\ cell.gen = e.gen
    BY <1>2, CellMember DEF FirstForReserved
  <2> QED  BY <2>2, <2>3, <2>4
<1>3. ASSUME NEW cell \in outputs', NEW s \in e.start .. e.end - 1,
             e.gen = state[e.batch].gen,
             \E t \in SlotIds : cell.rows[t] = buffer[e.batch][s]
      PROVE  cell.batch = e.batch /\ cell.gen = e.gen
  <2>1. PICK row : row = buffer[e.batch][s]
    OBVIOUS
  <2>2. CASE cell \in outputs
    BY <1>2, <1>3, <2>1, <2>2, CellMember
  <2>3. CASE cell = n
    BY <1>2, <1>3, <2>1, <2>3 DEF LastCell
  <2> QED  BY <2>2, <2>3
<1>4. ASSUME NEW cell \in outputs', NEW s \in e.start .. e.end - 1,
             cell.batch = e.batch, cell.gen = e.gen
      PROVE  IsFirst(cell, cell.rows[s])'
  <2>1. PICK row : row = cell.rows[s]
    OBVIOUS
  <2>2. CASE cell \in outputs
    <3>1. IsFirst(cell, row)
      BY <1>4, <2>1, <2>2 DEF FirstForReserved
    <3>2. row # NoRow
      BY <1>4, <2>1, <2>2, RowNotNone DEF RowsHeld, RowsAt
    <3>3. IsFirst(cell, row)'
      BY <3>1, <3>2, FinishFirst
    <3> QED  BY <2>1, <3>3
  <2>3. CASE cell = n
    <3>1. e.batch = b /\ e.gen = state[e.batch].gen /\ row = buffer[e.batch][s]
      BY <1>4, <2>1, <2>3 DEF LastCell
    <3>2. row # NoRow /\ \A other \in CellsWith(row) : other.batch = b /\ other.gen = n.gen
      BY <1>2, <1>4, <2>3, <3>1
    <3>3. CellsWith(row) = {}
      <4> SUFFICES ASSUME NEW other \in CellsWith(row) PROVE FALSE
        OBVIOUS
      <4>1. other \in outputs /\ other.gen < n.gen
        BY <3>2, CellMember DEF LastCell
      <4> QED  BY <3>2, <4>1, SMT DEF LastCell
    <3>4. IsFirst(n, row)'
      BY <1>1, <3>1, <3>2, <3>3, FinishFirst
    <3> QED  BY <2>1, <2>3, <3>4
  <2> QED  BY <2>2, <2>3
<1>5. e.start < e.end
  BY DEF FirstForReserved
<1> QED  BY <1>3, <1>4, <1>5 DEF FirstForReserved, CellsWith

\* A new reservation: its rows are in no cell yet.
LEMMA ReservedNew ==
    ASSUME Typed, SlotInv, KnownRows, NEW r \in Requests, NEW e \in Reservation,
           NEW first \in Nat, RowsHeld(r, e, first)', Taken(r) <= first,
           e.start < e.end, outputs' = outputs
    PROVE  FirstForReserved(e)'
<1>1. ASSUME NEW cell \in outputs, NEW s \in SlotIds, NEW i \in Nat, first <= i
      PROVE  cell.rows[s] # <<r, i>>
  <2>1. Taken(r) \in Nat /\ ~(i < Taken(r))
    BY <1>1, CopiedNumbers, SMT
  <2>2. Among(cell.rows[s], r, Taken(r))
    BY DEF KnownRows
  <2>3. <<r, i>> # NoRow /\ <<r, i>>[1] = r /\ <<r, i>>[2] = i
    BY RowNotNone
  <2> QED  BY <2>1, <2>2, <2>3 DEF Among
<1>2. /\ e.start \in Nat /\ e.end \in Nat
      /\ \A s \in e.start .. e.end - 1 : s \in SlotIds /\ s \in Nat
  BY ReservationNumbers
<1>3. \A s \in e.start .. e.end - 1 :
        first + s - e.start \in Nat /\ first <= first + s - e.start
  BY <1>2, SMT
<1>4. ASSUME NEW cell \in outputs, NEW s \in e.start .. e.end - 1
      PROVE  /\ ~(cell.batch = e.batch /\ cell.gen = e.gen)
             /\ e.gen = state'[e.batch].gen
                  => \A t \in SlotIds : cell.rows[t] # buffer'[e.batch][s]
  <2>1. cell.batch = e.batch /\ cell.gen = e.gen
            => cell.rows[s] = <<r, first + s - e.start>>
    BY DEF RowsHeld, RowsAt
  <2>2. e.gen = state'[e.batch].gen
            => buffer'[e.batch][s] = <<r, first + s - e.start>>
    BY DEF RowsHeld, RowsAt
  <2> QED  BY <1>1, <1>2, <1>3, <2>1, <2>2
<1> QED  BY <1>4 DEF FirstForReserved, CellsWith

\* The reservations of a request are those it had, but for the one a
\* publication adds.
LEMMA ReservationFrom ==
    ASSUME Typed, NEW r \in Requests, RequestStep(r),
           NEW q \in Requests, NEW k \in 1 .. Len(resv'[q])
    PROVE  \/ \E j \in 1 .. Len(resv[q]) : resv'[q][k] = resv[q][j]
           \/ /\ q = r /\ Publish(r)
              /\ resv'[q][k] = [batch |-> ChunkBatch(r),
                                gen |-> state[ChunkBatch(r)].gen,
                                start |-> ChunkStart(r), end |-> ChunkEnd(r)]
<1>1. CASE resv'[q] = resv[q]
  BY <1>1
<1>2. CASE q = r /\ resv[r] # <<>> /\ resv'[r] = Tail(resv[r])
  <2>1. PICK s : s = resv[r] /\ s \in Seq(Reservation) /\ s # <<>>
    BY <1>2, HeldReservation
  <2>2. k \in 1 .. Len(Tail(s))
    BY <1>2, <2>1
  <2>3. k + 1 \in 1 .. Len(s) /\ Tail(s)[k] = s[k + 1]
    BY <2>1, <2>2, SMT
  <2> QED  BY <1>2, <2>1, <2>3
<1>3. CASE q = r /\ Publish(r)
  <2>1. PICK s, e : /\ s = resv[r] /\ s \in Seq(Reservation)
                    /\ e = [batch |-> ChunkBatch(r), gen |-> state[ChunkBatch(r)].gen,
                            start |-> ChunkStart(r), end |-> ChunkEnd(r)]
    BY HeldReservation
  <2>2. resv'[r] = Append(s, e)
    BY <1>3, <2>1 DEF Publish, Typed, TypeOK
  <2>3. k \in 1 .. Len(Append(s, e))
    BY <1>3, <2>2
  <2>4. Append(s, e)[k] = e \/ (k \in 1 .. Len(s) /\ Append(s, e)[k] = s[k])
    BY <2>1, <2>3, SMT
  <2> QED  BY <1>3, <2>1, <2>2, <2>4
<1>4. \/ resv'[q] = resv[q]
      \/ q = r /\ resv[r] # <<>> /\ resv'[r] = Tail(resv[r])
      \/ q = r /\ Publish(r)
  <2>1. CASE q # r
    BY <2>1, RequestCellFrame
  <2>2. CASE q = r
    BY <2>2 DEF RequestStep, LoadHead, CheckFull, Reserve, WriteChunk,
                NotifyExecutor, Collect, Typed, TypeOK
  <2> QED  BY <2>1, <2>2
<1> QED  BY <1>1, <1>2, <1>3, <1>4

\* The cell a caller collects from, and what it adds to the answer.
LEMMA CollectCell ==
    ASSUME Typed, AnswersInOrder, NEW r \in Requests, Collect(r)
    PROVE  \E cell \in outputs, e \in Reservation, first \in Nat :
            /\ 1 \in 1 .. Len(resv[r]) /\ e = resv[r][1]
            /\ cell.batch = e.batch /\ cell.gen = e.gen
            /\ RowsAt(cell.rows, r, e, first)
            /\ first = Len(answer[r]) /\ first + e.end - e.start <= size[r]
            /\ \/ /\ cell.ok /\ rpc'[r] \in {"ok", "wait"}
                  /\ Len(answer'[r]) = first + e.end - e.start
               \/ /\ ~cell.ok /\ rpc'[r] = "error" /\ answer' = answer
<1>1. PICK s, e, a : s = resv[r] /\ e = Head(s) /\ a = answer[r]
  OBVIOUS
<1>2. /\ s \in Seq(Reservation) /\ s # <<>> /\ a \in Seq(Rows \X Nat)
      /\ e \in Reservation /\ e = s[1] /\ 1 \in 1 .. Len(s)
  <2>1. s \in Seq(Reservation) /\ s # <<>> /\ a \in Seq(Rows \X Nat)
    BY <1>1, HeldReservation DEF Collect, Typed, TypeOK
  <2> QED  BY <1>1, <2>1, SMT
<1>3. PICK cell \in outputs :
        /\ cell.batch = e.batch /\ cell.gen = e.gen
        /\ \/ /\ cell.ok /\ rpc'[r] \in {"ok", "wait"}
              /\ answer'[r] = a \o SliceOf(cell, e.start, e.end)
           \/ /\ ~cell.ok /\ rpc'[r] = "error" /\ answer' = answer
  BY <1>1 DEF Collect, Typed, TypeOK
<1>4. PICK first \in Nat : /\ RowsHeld(r, e, first) /\ first = Len(a)
                           /\ first + e.end - e.start <= size[r]
  BY <1>1, <1>2, HeldRows
<1>5. RowsAt(cell.rows, r, e, first)
  BY <1>3, <1>4 DEF RowsHeld
<1>6. Len(a \o SliceOf(cell, e.start, e.end)) = first + e.end - e.start
  <2>1. PICK d : d = SliceOf(cell, e.start, e.end)
    OBVIOUS
  <2>2. d \in Seq(Rows \X Nat)
    <3>1. cell \in OutputCell
      BY DEF Typed, TypeOK
    <3> QED  BY <1>2, <2>1, <3>1, SliceTyped
  <2>3. e.start \in Nat /\ e.end \in Nat /\ e.start <= e.end
    BY <1>2, ReservationNumbers
  <2>4. DOMAIN d = 1 .. e.end - e.start
    BY <2>1 DEF SliceOf
  <2>5. Len(d) = e.end - e.start
    BY <2>2, <2>3, <2>4, SMT
  <2>6. Len(a \o d) = Len(a) + Len(d)
    BY <1>2, <2>2, SMT
  <2> QED  BY <1>4, <2>1, <2>3, <2>5, <2>6, SMT
<1> QED  BY <1>1, <1>2, <1>3, <1>4, <1>5, <1>6

-------------------------------------------------------------------------------
(***************************************************************************)
(* The invariant is kept.                                                  *)
(***************************************************************************)
LEMMA RequestService ==
    ASSUME Typed, RingInv, CellInv, ChunkCopied, AnswersInOrder, ServiceInv,
           NEW r \in Requests, RequestStep(r)
    PROVE  ServiceInv'
<1>1. KnownRows' /\ PlacedOnce'
  BY RequestPlaces DEF RingInv, ServiceInv
<1>2. outputs' = outputs /\ \A b \in BatchIds : state'[b].gen = state[b].gen
  BY RequestCellFrame
<1>3. FirstCells'
  BY <1>2, KeptCells DEF ServiceInv
<1>4. ASSUME NEW q \in Requests, NEW k \in 1 .. Len(resv'[q]), NEW e, e = resv'[q][k]
      PROVE  FirstForReserved(e)'
  <2>1. CASE \E j \in 1 .. Len(resv[q]) : e = resv[q][j]
    <3>1. PICK j \in 1 .. Len(resv[q]) : e = resv[q][j]
      BY <2>1
    <3>2. e \in Reservation /\ FirstForReserved(e)
      BY <3>1, HeldFirst DEF ServiceInv
    <3>3. PICK first \in Nat : RowsHeld(q, e, first)
      BY <3>1, HeldFirst DEF ServiceInv
    <3>4. RowsHeld(q, e, first)'
      BY <3>2, <3>3, RequestHolds
    <3>5. /\ state[e.batch].gen \in Nat /\ state'[e.batch].gen = state[e.batch].gen
      BY <1>2, <3>2, ReservationNumbers, GenNat
    <3> QED  BY <1>2, <3>2, <3>3, <3>4, <3>5, ReservedKept
  <2>2. CASE /\ q = r /\ Publish(r)
             /\ e = [batch |-> ChunkBatch(r), gen |-> state[ChunkBatch(r)].gen,
                     start |-> ChunkStart(r), end |-> ChunkEnd(r)]
    <3>1. PICK first : first = sent[r]
      OBVIOUS
    <3>2. first \in Nat /\ Taken(r) = first /\ e \in Reservation
      BY <2>2, <3>1, RequestNumbers, RequestCounts, ReservationTyped DEF RingInv
    <3>3. RowsHeld(r, e, first)'
      BY <2>2, <3>1, PublishedRows
    <3>4. e.start < e.end
      <4>1. sent[r] < size[r]
        BY <2>2 DEF Publish, RingInv, SlotInv, ChunkProgress
      <4>2. e.start = ChunkStart(r) /\ e.end = ChunkStart(r) + ChunkSize(r)
        BY <2>2 DEF ChunkEnd
      <4>3. ChunkStart(r) \in Nat /\ ChunkSize(r) \in Nat /\ ChunkSize(r) > 0
        BY <4>1, RequestNumbers, ChunkFacts DEF SlotIds
      <4> QED  BY <4>2, <4>3, SMT
    <3>5. Taken(r) <= first
      BY <3>2
    <3> QED  BY <1>2, <3>2, <3>3, <3>4, <3>5, ReservedNew DEF RingInv, ServiceInv
  <2> QED  BY <1>4, <2>1, <2>2, ReservationFrom
<1>5. ReservedRows'
  BY <1>4 DEF ReservedRows
<1>6. ASSUME NEW q \in Requests, NEW k \in 1 .. Len(answer'[q])
      PROVE  \E cell \in outputs : cell.ok /\ IsFirst(cell, <<q, k - 1>>)
  <2>1. CASE answer'[q] = answer[q]
    BY <1>6, <2>1 DEF ServiceInv, AnsweredRows
  <2>2. CASE answer'[q] # answer[q]
    <3>1. q = r /\ Collect(r)
      <4>1. q = r
        BY <2>2, RequestCellFrame
      <4> QED  BY <2>2, <4>1 DEF RequestStep, LoadHead, CheckFull, Reserve,
                  WriteChunk, Publish, NotifyExecutor
    <3>2. PICK cell \in outputs, e \in Reservation, first \in Nat :
            /\ 1 \in 1 .. Len(resv[r]) /\ e = resv[r][1]
            /\ cell.batch = e.batch /\ cell.gen = e.gen /\ cell.ok
            /\ RowsAt(cell.rows, r, e, first)
            /\ first = Len(answer[r]) /\ Len(answer'[r]) = first + e.end - e.start
      BY <2>2, <3>1, CollectCell
    <3>3. e.start \in Nat /\ e.end \in Nat
      BY ReservationNumbers
    <3>4. CASE k \in 1 .. Len(answer[r])
      BY <3>1, <3>4 DEF ServiceInv, AnsweredRows
    <3>5. CASE k \notin 1 .. Len(answer[r])
      <4>1. PICK s : s = e.start + (k - 1 - first)
        OBVIOUS
      <4>2. /\ s \in e.start .. e.end - 1 /\ first + s - e.start = k - 1
        <5>1. k \in 1 .. first + e.end - e.start /\ k \notin 1 .. first
          BY <1>6, <3>1, <3>2, <3>5
        <5> QED  BY <3>3, <4>1, <5>1, SMT
      <4>3. cell.rows[s] = <<r, k - 1>>
        BY <3>2, <4>2 DEF RowsAt
      <4>4. FirstForReserved(e)
        BY <3>2, HeldFirst DEF ServiceInv
      <4>5. IsFirst(cell, cell.rows[s])
        BY <3>2, <4>2, <4>4 DEF FirstForReserved
      <4> QED  BY <3>1, <3>2, <4>3, <4>5
    <3> QED  BY <3>4, <3>5
  <2> QED  BY <2>1, <2>2
<1>7. AnsweredRows'
  BY <1>2, <1>6, SameCells DEF AnsweredRows
<1> QED  BY <1>1, <1>3, <1>5, <1>7 DEF ServiceInv

LEMMA WorkerService ==
    ASSUME Typed, RingInv, CellInv, ChunkCopied, AnswersInOrder, ServiceInv,
           NEW x \in Workers, WorkerStep(x)
    PROVE  ServiceInv'
<1>1. UNCHANGED <<requestVars, buffer>>
  BY WorkerCellFrame DEF RingInv, ClaimInv
<1>2. CASE Finish(x)
  <2>1. PICK b : b = BatchId(idx[x])
    OBVIOUS
  <2>2. b \in BatchIds /\ state' = state
    BY <1>2, <2>1, FinishCell DEF RingInv
  <2>3. PICK n : LastCell(n, b) /\ outputs' = outputs \cup {n}
    BY <1>2, <2>1, FinishCell DEF RingInv
  <2>4. KnownRows' /\ PlacedOnce'
    BY <1>2, FinishPlaces DEF ServiceInv
  <2>5. FirstCells' /\ AnsweredRows'
    BY <1>1, <2>2, <2>3, FinishFirstCells DEF ServiceInv
  <2>6. ASSUME NEW q \in Requests, NEW k \in 1 .. Len(resv[q]), NEW e, e = resv[q][k]
        PROVE  FirstForReserved(e)'
    <3>1. e \in Reservation /\ FirstForReserved(e)
      BY <2>6, HeldFirst DEF ServiceInv
    <3>2. PICK first \in Nat : RowsHeld(q, e, first)
      BY <2>6, HeldFirst DEF ServiceInv
    <3> QED  BY <1>1, <2>2, <2>3, <3>1, <3>2, ReservedRun DEF ServiceInv
  <2>7. ReservedRows'
    BY <1>1, <2>6 DEF ReservedRows
  <2> QED  BY <2>4, <2>5, <2>7 DEF ServiceInv
<1>3. CASE ~Finish(x)
  <2>1. outputs' = outputs
    BY <1>3, WorkerCellFrame, ResetFacts DEF RingInv, ClaimInv
  <2>2. ASSUME NEW b \in BatchIds
        PROVE  state'[b].gen \in Nat /\ state[b].gen <= state'[b].gen
    <3>1. state[b].gen \in Nat
      BY GenNat
    <3>2. CASE ResetBatch(x)
      <4>1. \/ b = BatchId(idx[x]) /\ state'[b].gen = state[b].gen + 1
            \/ state'[b].gen = state[b].gen
        BY <3>2, ResetFacts
      <4> QED  BY <3>1, <4>1, SMT
    <3>3. CASE ~ResetBatch(x)
      <4>1. state'[b].gen = state[b].gen
        BY <1>3, <3>3, WorkerCellFrame DEF RingInv, ClaimInv
      <4> QED  BY <3>1, <4>1, SMT
    <3> QED  BY <3>2, <3>3
  <2>3. \A q \in Requests : Copied(q)' = Copied(q) /\ Taken(q)' = Taken(q)
    BY <1>1, UnmovedCounts
  <2>4. KnownRows' /\ PlacedOnce'
    <3>1. KnownRows'
      BY <1>1, <2>1, <2>3 DEF ServiceInv, KnownRows, Among
    <3> QED  BY <1>1, <2>1, <3>1 DEF ServiceInv, PlacedOnce
  <2>5. FirstCells' /\ AnsweredRows'
    BY <1>1, <2>1, KeptCells, KeptAnswers DEF ServiceInv
  <2>6. ASSUME NEW q \in Requests, NEW k \in 1 .. Len(resv[q]), NEW e, e = resv[q][k]
        PROVE  FirstForReserved(e)'
    <3>1. e \in Reservation /\ FirstForReserved(e)
      BY <2>6, HeldFirst DEF ServiceInv
    <3>2. PICK first \in Nat : RowsHeld(q, e, first)
      BY <2>6, HeldFirst DEF ServiceInv
    <3>3. RowsHeld(q, e, first)'
      BY <3>1, <3>2, WorkerHolds
    <3>4. e.batch \in BatchIds
      BY <3>1, ReservationNumbers
    <3> QED  BY <2>1, <2>2, <3>1, <3>2, <3>3, <3>4, ReservedKept
  <2>7. ReservedRows'
    BY <1>1, <2>6 DEF ReservedRows
  <2> QED  BY <2>4, <2>5, <2>7 DEF ServiceInv
<1> QED  BY <1>2, <1>3

LEMMA InitService == Init => ServiceInv
<1> SUFFICES ASSUME Init PROVE ServiceInv
  OBVIOUS
<1>1. /\ outputs = {} /\ \A r \in Requests : resv[r] = <<>> /\ answer[r] = <<>>
      /\ \A b \in BatchIds, s \in SlotIds : buffer[b][s] = NoRow
  BY DEF Init
<1>2. KnownRows /\ PlacedOnce
  BY <1>1 DEF KnownRows, PlacedOnce, Among
<1>3. FirstCells
  BY <1>1, RunRow, CellMember DEF FirstCells
<1>4. \A k : k \notin 1 .. 0
  BY SMT
<1>5. ReservedRows /\ AnsweredRows
  BY <1>1, <1>4 DEF ReservedRows, AnsweredRows
<1> QED  BY <1>2, <1>3, <1>5 DEF ServiceInv

LEMMA NextService ==
    ASSUME Typed, RingInv, CellInv, ChunkCopied, AnswersInOrder, ServiceInv,
           [Next]_vars
    PROVE  ServiceInv'
<1>1. CASE Next
  BY <1>1, RequestService, WorkerService DEF Next
<1>2. CASE UNCHANGED vars
  <2>1. /\ UNCHANGED <<requestVars, trackerVars>>
    BY <1>2
  <2>2. \A q \in Requests : Copied(q)' = Copied(q) /\ Taken(q)' = Taken(q)
    BY <2>1, UnmovedCounts
  <2>3. KnownRows' /\ PlacedOnce'
    <3>1. KnownRows'
      BY <2>1, <2>2 DEF ServiceInv, KnownRows, Among
    <3> QED  BY <2>1, <3>1 DEF ServiceInv, PlacedOnce
  <2>4. FirstCells' /\ AnsweredRows'
    BY <2>1, KeptCells, KeptAnswers DEF ServiceInv
  <2>5. ASSUME NEW q \in Requests, NEW k \in 1 .. Len(resv[q]), NEW e, e = resv[q][k]
        PROVE  FirstForReserved(e)'
    <3>1. FirstForReserved(e)
      BY <2>5, HeldFirst DEF ServiceInv
    <3> QED  BY <2>1, <3>1, SameCells DEF FirstForReserved, CellsWith
  <2>6. ReservedRows'
    BY <2>1, <2>5 DEF ReservedRows
  <2> QED  BY <2>3, <2>4, <2>6 DEF ServiceInv
<1> QED  BY <1>1, <1>2

\* All that is known of a state of the ring.
RingFacts ==
    /\ Typed /\ RingInv /\ CellInv /\ ChunkCopied /\ AnswersInOrder
    /\ OwnAnswer /\ ServiceInv

LEMMA RingFactsHold ==
    ASSUME RowWidth = 1
    PROVE  Spec /\ ReservesWithinRing => []RingFacts
<1>1. Init => ChunkCopied /\ AnswersInOrder /\ ServiceInv
  BY InitAnswers, InitService
<1>2. /\ Typed /\ RingInv /\ CellInv /\ DeadlineOnce /\ ChunkCopied
      /\ AnswersInOrder /\ ServiceInv /\ [Next]_vars
      => ChunkCopied' /\ AnswersInOrder' /\ ServiceInv'
  BY NextAnswers, NextService
<1>3. /\ Typed /\ RingInv /\ CellInv /\ ChunkCopied /\ AnswersInOrder
      /\ ServiceInv
      => RingFacts
  BY InvImpliesOwnAnswer DEF RingFacts
<1>4. Spec /\ ReservesWithinRing => [](RingInv /\ CellInv /\ DeadlineOnce)
  BY ReservesWithinRingKeeps
<1> QED  BY <1>1, <1>2, <1>3, <1>4, TypedInvariant, PTL DEF Spec

-------------------------------------------------------------------------------
(***************************************************************************)
(* The steps of the ring as steps of BatchService.                         *)
(***************************************************************************)

\* Nothing happens to the rows that were run as long as no cell is set.
LEMMA SameVerdicts ==
    ASSUME RingFacts, Typed', outputs' = outputs
    PROVE  Verdicts' = Verdicts
<1>1. RowsRun' = RowsRun
  <2>1. \A row : row \in RowsRun' <=> row \in RowsRun
    BY SameCells, RunRow
  <2> QED  BY <2>1
<1>2. ASSUME NEW row \in RowsRun PROVE FirstCell(row)' = FirstCell(row)
  <2>1. PICK cell \in outputs : IsFirst(cell, row)
    BY DEF RingFacts, ServiceInv, FirstCells
  <2>2. IsFirst(cell, row)'
    BY <2>1, SameCells
  <2> QED  BY <2>1, <2>2, FirstIsFirst DEF RingFacts
<1>3. Verdicts' = [row \in RowsRun' |-> FirstCell(row)'.ok]
  BY DEF Verdicts
<1> QED  BY <1>1, <1>2, <1>3 DEF Verdicts

\* A request changes its own status, and its reply when it is answered.
LEMMA RequestMapped ==
    ASSUME RingFacts, Typed', NEW r \in Requests, RequestStep(r)
    PROVE  /\ size' = size /\ Verdicts' = Verdicts
           /\ Statuses' = [Statuses EXCEPT ![r] = ServiceStatus(r)']
           /\ rpc'[r] # "ok" => Replies' = Replies
           /\ rpc'[r] = "ok" => Replies' = [Replies EXCEPT ![r] =
                                    [k \in DOMAIN answer'[r] |-> answer'[r][k][1]]]
<1>1. /\ UNCHANGED <<outputs, size>>
      /\ \A q \in Requests \ {r} : rpc'[q] = rpc[q] /\ answer'[q] = answer[q]
  BY RequestCellFrame DEF RingFacts
<1>2. Verdicts' = Verdicts
  BY <1>1, SameVerdicts
<1>3. \A q \in Requests \ {r} : ServiceStatus(q)' = ServiceStatus(q)
  BY <1>1 DEF ServiceStatus
<1>4. Statuses' = [Statuses EXCEPT ![r] = ServiceStatus(r)']
  <2>1. Statuses' = [q \in Requests |-> ServiceStatus(q)']
    BY DEF Statuses
  <2> QED  BY <1>3, <2>1 DEF Statuses
<1>5. rpc[r] # "ok"
  BY DEF RequestStep, LoadHead, CheckFull, Reserve, WriteChunk, Publish,
         NotifyExecutor, Collect
<1>6. PICK f : f = [q \in Requests |->
                        IF rpc'[q] = "ok"
                        THEN [k \in DOMAIN answer'[q] |-> answer'[q][k][1]]
                        ELSE <<>>]
  OBVIOUS
<1>7. Replies' = f
  BY <1>6 DEF Replies
<1>8. Replies[r] = <<>>
  BY <1>5 DEF Replies
<1>9. \A q \in Requests \ {r} : f[q] = Replies[q]
  BY <1>1, <1>6 DEF Replies
<1>10. /\ f = [q \in Requests |-> f[q]] /\ Replies = [q \in Requests |-> Replies[q]]
  BY <1>6 DEF Replies
<1>11. rpc'[r] # "ok" => f = Replies
  BY <1>6, <1>8, <1>9, <1>10
<1>12. rpc'[r] = "ok" => f = [Replies EXCEPT ![r] =
                                [k \in DOMAIN answer'[r] |-> answer'[r][k][1]]]
  BY <1>6, <1>9, <1>10
<1> QED  BY <1>1, <1>2, <1>4, <1>7, <1>11, <1>12

Mapped == <<size, Statuses, Verdicts, Replies>>

\* A request is accepted or refused, answered, or fails.
LEMMA CheckFullMapped ==
    ASSUME RingFacts, Typed', NEW r \in Requests, RequestStep(r), CheckFull(r)
    PROVE  Service!Decide(r) \/ UNCHANGED Mapped
<1>1. /\ rpc[r] = "check" /\ rpc'[r] \in {"ring_full", "reserve"}
  BY DEF CheckFull, RingFacts, Typed, TypeOK
<1>2. /\ size' = size /\ Verdicts' = Verdicts /\ Replies' = Replies
      /\ Statuses' = [Statuses EXCEPT ![r] = ServiceStatus(r)']
  BY <1>1, RequestMapped
<1>3. Statuses = [q \in Requests |-> ServiceStatus(q)] /\ ServiceStatus(r) = "new"
  BY <1>1 DEF Statuses, ServiceStatus
<1>4. CASE rpc'[r] = "ring_full"
  <2>1. ServiceStatus(r)' = "refused"
    BY <1>4 DEF ServiceStatus
  <2>2. Service!Decide(r)
    BY <1>2, <1>3, <2>1 DEF Service!Decide
  <2> QED  BY <2>2
<1>5. CASE rpc'[r] = "reserve"
  <2>1. ServiceStatus(r)' = "new"
    BY <1>5 DEF ServiceStatus
  <2>2. Statuses' = Statuses
    BY <1>2, <1>3, <2>1
  <2> QED  BY <1>2, <2>2 DEF Mapped
<1> QED  BY <1>1, <1>4, <1>5

LEMMA ReserveMapped ==
    ASSUME RingFacts, Typed', NEW r \in Requests, RequestStep(r), Reserve(r)
    PROVE  Service!Decide(r) \/ UNCHANGED Mapped
<1>1. /\ rpc[r] = "reserve" /\ rpc'[r] \in {"write", "retry"}
  BY DEF Reserve, RingFacts, Typed, TypeOK
<1>2. /\ size' = size /\ Verdicts' = Verdicts /\ Replies' = Replies
      /\ Statuses' = [Statuses EXCEPT ![r] = ServiceStatus(r)']
  BY <1>1, RequestMapped
<1>3. Statuses = [q \in Requests |-> ServiceStatus(q)] /\ ServiceStatus(r) = "new"
  BY <1>1 DEF Statuses, ServiceStatus
<1>4. CASE rpc'[r] = "write"
  <2>1. ServiceStatus(r)' = "accepted"
    BY <1>4 DEF ServiceStatus
  <2>2. Service!Decide(r)
    BY <1>2, <1>3, <2>1 DEF Service!Decide
  <2> QED  BY <2>2
<1>5. CASE rpc'[r] = "retry"
  <2>1. ServiceStatus(r)' = "new"
    BY <1>5 DEF ServiceStatus
  <2>2. Statuses' = Statuses
    BY <1>2, <1>3, <2>1
  <2> QED  BY <1>2, <2>2 DEF Mapped
<1> QED  BY <1>1, <1>4, <1>5

\* The other steps of a request before it waits cannot be told from outside.
LEMMA QuietMapped ==
    ASSUME InputSupported, RingFacts, Typed', NEW r \in Requests, RequestStep(r),
           LoadHead(r) \/ WriteChunk(r) \/ Publish(r) \/ NotifyExecutor(r)
    PROVE  UNCHANGED Mapped
<1>1. \/ /\ rpc[r] \in {"new", "retry"} /\ rpc'[r] = "check"
      \/ /\ rpc[r] \in {"write", "publish", "notify"}
         /\ rpc'[r] \in {"write", "publish", "notify", "wait"}
  BY DEF LoadHead, WriteChunk, Publish, NotifyExecutor, NextChunk, RingFacts,
         Typed, TypeOK
<1>2. /\ size' = size /\ Verdicts' = Verdicts /\ Replies' = Replies
      /\ Statuses' = [Statuses EXCEPT ![r] = ServiceStatus(r)']
  BY <1>1, RequestMapped
<1>3. ServiceStatus(r)' = ServiceStatus(r)
  BY <1>1 DEF ServiceStatus
<1>4. Statuses' = Statuses
  BY <1>2, <1>3 DEF Statuses
<1> QED  BY <1>2, <1>4 DEF Mapped

LEMMA CollectMapped ==
    ASSUME RowWidth = 1, RingFacts, RingFacts', NEW r \in Requests,
           RequestStep(r), Collect(r)
    PROVE  Service!Reply(r) \/ Service!Fail(r) \/ UNCHANGED Mapped
<1>1. /\ rpc[r] = "wait" /\ rpc'[r] \in {"ok", "wait", "error"}
      /\ UNCHANGED <<outputs, state, buffer>> /\ Typed'
  BY DEF Collect, RingFacts, Typed, TypeOK
<1>2. /\ size' = size /\ Verdicts' = Verdicts
      /\ Statuses' = [Statuses EXCEPT ![r] = ServiceStatus(r)']
      /\ rpc'[r] # "ok" => Replies' = Replies
      /\ rpc'[r] = "ok" => Replies' = [Replies EXCEPT ![r] =
                              [k \in DOMAIN answer'[r] |-> answer'[r][k][1]]]
  BY <1>1, RequestMapped
<1>3. /\ Statuses = [q \in Requests |-> ServiceStatus(q)]
      /\ ServiceStatus(r) = "accepted"
  BY <1>1 DEF Statuses, ServiceStatus
<1>4. ASSUME NEW row, NEW cell, IsFirst(cell, row), row # NoRow
      PROVE  row \in DOMAIN Verdicts /\ Verdicts[row] = cell.ok
  <2>1. row \in RowsRun
    BY <1>4, RunRow DEF IsFirst
  <2>2. FirstCell(row) = cell
    BY <1>4, FirstIsFirst DEF RingFacts
  <2> QED  BY <2>1, <2>2 DEF Verdicts
<1>5. CASE rpc'[r] = "wait"
  <2>1. ServiceStatus(r)' = "accepted"
    BY <1>5 DEF ServiceStatus
  <2>2. Statuses' = Statuses /\ Replies' = Replies
    BY <1>2, <1>3, <1>5, <2>1
  <2> QED  BY <1>2, <2>2 DEF Mapped
<1>6. CASE rpc'[r] = "error"
  <2>1. PICK cell \in outputs, e \in Reservation, first \in Nat :
          /\ 1 \in 1 .. Len(resv[r]) /\ e = resv[r][1]
          /\ cell.batch = e.batch /\ cell.gen = e.gen
          /\ RowsAt(cell.rows, r, e, first)
          /\ first + e.end - e.start <= size[r] /\ ~cell.ok
    BY <1>6, CollectCell DEF RingFacts
  <2>2. e.start < e.end /\ FirstForReserved(e)
    BY <2>1, HeldFirst DEF RingFacts, ServiceInv, FirstForReserved
  <2>3. e.start \in Nat /\ e.end \in Nat /\ size[r] \in Nat
    BY ReservationNumbers, RequestNumbers DEF RingFacts
  <2>4. /\ e.start \in e.start .. e.end - 1 /\ first < size[r]
        /\ first + e.start - e.start = first
    BY <2>1, <2>2, <2>3, SMT
  <2>5. cell.rows[e.start] = <<r, first>>
    BY <2>1, <2>4 DEF RowsAt
  <2>6. IsFirst(cell, <<r, first>>)
    BY <2>1, <2>2, <2>4, <2>5 DEF FirstForReserved
  <2>7. <<r, first>> \in DOMAIN Verdicts /\ ~Verdicts[<<r, first>>]
    BY <1>4, <2>1, <2>6, RowNotNone
  <2>8. <<r, first>> \in Service!RowsOf(r)
    BY <2>3, <2>4, SMT DEF Service!RowsOf
  <2>9. ServiceStatus(r)' = "failed"
    BY <1>6 DEF ServiceStatus
  <2>10. Service!Fail(r)
    BY <1>2, <1>3, <1>6, <2>7, <2>8, <2>9 DEF Service!Fail
  <2> QED  BY <2>10
<1>7. CASE rpc'[r] = "ok"
  <2>1. size[r] \in Nat
    BY RequestNumbers DEF RingFacts
  <2>2. answer'[r] = Expected(r)'
    BY <1>7 DEF RingFacts, OwnAnswer
  <2>3. DOMAIN answer'[r] = 1 .. size[r]
    <3>1. size[r] * RowWidth = size[r]
      BY <2>1, SMT
    <3>2. DOMAIN answer'[r] = 1 .. size'[r] * RowWidth
      BY <2>2 DEF Expected
    <3> QED  BY <1>2, <3>1, <3>2
  <2>4. 1 .. Len(answer'[r]) = 1 .. size[r]
    <3>1. answer'[r] \in Seq(Rows \X Nat)
      BY <1>1 DEF Typed, TypeOK
    <3> QED  BY <2>3, <3>1, SMT
  <2>5. ASSUME NEW k \in 1 .. size[r]
        PROVE  /\ answer'[r][k][1] = <<r, k - 1>>
               /\ <<r, k - 1>> \in DOMAIN Verdicts /\ Verdicts[<<r, k - 1>>]
    <3>1. answer'[r][k] = <<<<r, k - 1>>, 0>>
      BY <2>4 DEF RingFacts, AnswersInOrder
    <3>2. PICK cell \in outputs : cell.ok /\ IsFirst(cell, <<r, k - 1>>)'
      BY <1>1, <2>4 DEF RingFacts, ServiceInv, AnsweredRows
    <3>3. IsFirst(cell, <<r, k - 1>>)
      BY <1>1, <3>2, SameCells
    <3> QED  BY <1>4, <3>1, <3>2, <3>3, RowNotNone
  <2>6. ASSUME NEW w \in Service!RowsOf(r)
        PROVE  w \in DOMAIN Verdicts /\ Verdicts[w]
    <3>1. PICK i \in 0 .. size[r] - 1 : w = <<r, i>>
      BY DEF Service!RowsOf
    <3>2. i + 1 \in 1 .. size[r] /\ (i + 1) - 1 = i
      BY <2>1, SMT
    <3> QED  BY <2>5, <3>1, <3>2
  <2>7. Replies' = [Replies EXCEPT ![r] = [i \in 1 .. size[r] |-> <<r, i - 1>>]]
    BY <1>2, <1>7, <2>3, <2>5
  <2>8. ServiceStatus(r)' = "ok"
    BY <1>7 DEF ServiceStatus
  <2>9. Service!Reply(r)
    BY <1>2, <1>3, <2>6, <2>7, <2>8 DEF Service!Reply
  <2> QED  BY <2>9
<1> QED  BY <1>1, <1>5, <1>6, <1>7

\* A row that was copied and not yet run is one BatchService may run.
LEMMA CopiedPending ==
    ASSUME RingFacts, NEW q \in Requests, NEW i \in Nat, i < Copied(q),
           <<q, i>> \notin RowsRun
    PROVE  <<q, i>> \in Service!Pending
<1>1. /\ Copied(q) \in Nat /\ Copied(q) <= size[q] /\ size[q] \in Nat
      /\ Copied(q) > 0
         => rpc[q] \notin {"new", "check", "retry", "reserve", "ring_full"}
  BY CopiedNumbers, RequestNumbers DEF RingFacts, RingInv
<1>2. rpc[q] \notin {"new", "check", "retry", "reserve", "ring_full"}
  BY <1>1, SMT
<1>3. Statuses[q] \notin {"new", "refused"}
  BY <1>2 DEF Statuses, ServiceStatus
<1>4. <<q, i>> \in Service!RowsOf(q)
  BY <1>1, SMT DEF Service!RowsOf
<1>5. <<q, i>> \notin DOMAIN Verdicts
  BY DEF Verdicts
<1> QED  BY <1>3, <1>4, <1>5 DEF Service!Pending

\* The rows a run is the first to answer fit in one batch.
LEMMA AtMostOneBatch ==
    ASSUME NEW f \in [SlotIds -> Rows], NEW B, \A row \in B : \E s \in SlotIds : f[s] = row
    PROVE  Cardinality(B) <= BatchSize
<1>1. IsFiniteSet(SlotIds) /\ Cardinality(SlotIds) = BatchSize
  BY FS_Interval, BatchSizeAssumption, SMT DEF SlotIds
<1>2. PICK I : I = {f[s] : s \in SlotIds}
  OBVIOUS
<1>3. f \in Surjection(SlotIds, I)
  BY <1>2 DEF Surjection
<1>4. IsFiniteSet(I) /\ Cardinality(I) <= Cardinality(SlotIds)
  BY <1>1, <1>3, FS_Surjection
<1>5. B \subseteq I
  BY <1>2
<1>6. IsFiniteSet(B) /\ Cardinality(B) <= Cardinality(I)
  BY <1>4, <1>5, FS_Subset
<1>7. /\ Cardinality(B) \in Nat /\ Cardinality(I) \in Nat /\ BatchSize \in Nat
  BY <1>4, <1>6, FS_CardinalityType, BatchSizeAssumption
<1> QED  BY <1>1, <1>4, <1>6, <1>7, SMT

\* The end of a run answers the rows of its batch that no run answered yet.
LEMMA FinishMapped ==
    ASSUME RingFacts, Typed', NEW x \in Workers, Finish(x)
    PROVE  Service!RunBatch \/ UNCHANGED Mapped
<1>0. Typed /\ RingInv /\ ClaimInv /\ CellInv /\ ChunkCopied /\ ServiceInv
  BY DEF RingFacts, RingInv
<1>1. PICK b : b = BatchId(idx[x])
  OBVIOUS
<1>2. b \in BatchIds /\ UNCHANGED <<buffer, requestVars>>
  BY <1>0, <1>1, FinishCell
<1>3. PICK n : LastCell(n, b) /\ outputs' = outputs \cup {n}
  BY <1>0, <1>1, FinishCell
<1>4. PlacedOnce /\ KnownRows /\ FirstCells
  BY <1>0 DEF ServiceInv
<1>5. UNCHANGED <<size, Statuses, Replies>>
  BY <1>2 DEF Statuses, ServiceStatus, Replies
<1>6. PICK B : B = {row \in RowsRun' : row \notin RowsRun}
  OBVIOUS
<1>7. RowsRun \subseteq RowsRun' /\ RowsRun' = RowsRun \cup B
  <2>1. ASSUME NEW row \in RowsRun PROVE row \in RowsRun'
    <3>1. row # NoRow /\ \E cell : cell \in CellsWith(row)
      BY RunRow
    <3>2. \E cell : cell \in CellsWith(row)'
      BY <1>2, <1>3, <1>4, <1>0, <3>1, FinishFirst
    <3> QED  BY <3>1, <3>2, RunRow
  <2> QED  BY <1>6, <2>1
<1>8. ASSUME NEW row \in RowsRun
      PROVE  FirstCell(row)' = FirstCell(row)
  <2>1. PICK cell : IsFirst(cell, row)
    BY <1>4 DEF FirstCells
  <2>2. row # NoRow
    BY RunRow
  <2>3. IsFirst(cell, row)'
    BY <1>0, <1>2, <1>3, <1>4, <2>1, <2>2, FinishFirst
  <2> QED  BY <1>0, <2>1, <2>3, FirstIsFirst
<1>9. ASSUME NEW row \in B
      PROVE  /\ \E s \in SlotIds : buffer[b][s] = row
             /\ FirstCell(row)' = n
             /\ row \in Service!Pending
  <2>1. row \notin RowsRun /\ row \in RowsRun'
    BY <1>6
  <2>2. row # NoRow /\ \E cell : cell \in CellsWith(row)'
    BY <2>1, RunRow
  <2>3. CellsWith(row) = {}
    BY <2>1, <2>2, RunRow
  <2>4. \E s \in SlotIds : buffer[b][s] = row
    BY <1>0, <1>2, <1>3, <1>4, <2>2, <2>3, FinishFirst
  <2>5. IsFirst(n, row)'
    BY <1>0, <1>2, <1>3, <1>4, <2>2, <2>3, <2>4, FinishFirst
  <2>6. FirstCell(row)' = n
    BY <2>5, FirstIsFirst
  <2>7. row \in Rows
    BY <1>0, <1>2, <2>4, BufferRow
  <2>8. PICK q \in Requests, i \in Nat : row = <<q, i>>
    BY <2>2, <2>7, RowParts
  <2>9. i < Copied(q)
    <3>1. row[1] = q /\ row[2] = i
      BY <2>8
    <3>2. Among(row, q, Copied(q))
      BY <1>2, <1>4, <2>4 DEF KnownRows
    <3> QED  BY <2>2, <3>1, <3>2 DEF Among
  <2>10. row \in Service!Pending
    BY <2>1, <2>8, <2>9, CopiedPending
  <2> QED  BY <2>4, <2>6, <2>10
<1>10. Verdicts' = [row \in RowsRun \cup B |->
                       IF row \in B THEN n.ok ELSE Verdicts[row]]
  <2>1. Verdicts' = [row \in RowsRun' |-> FirstCell(row)'.ok]
    BY DEF Verdicts
  <2>2. ASSUME NEW row \in RowsRun \cup B
        PROVE  FirstCell(row)'.ok = IF row \in B THEN n.ok ELSE Verdicts[row]
    BY <1>8, <1>9 DEF Verdicts
  <2> QED  BY <1>7, <2>1, <2>2
<1>11. DOMAIN Verdicts = RowsRun /\ DOMAIN Verdicts' = RowsRun \cup B
  BY <1>10 DEF Verdicts
<1>12. CASE B = {}
  <2>1. Verdicts' = Verdicts
    BY <1>10, <1>12 DEF Verdicts
  <2> QED  BY <1>5, <2>1 DEF Mapped
<1>13. CASE B # {}
  <2>1. DOMAIN Verdicts' # DOMAIN Verdicts
    BY <1>6, <1>11, <1>13
  <2>2. B \in SUBSET Service!Pending
    BY <1>9
  <2>3. Cardinality(B) <= BatchSize
    <3>1. buffer[b] \in [SlotIds -> Rows]
      BY <1>0, <1>2 DEF Typed, TypeOK
    <3>2. \A row \in B : \E s \in SlotIds : buffer[b][s] = row
      BY <1>9
    <3> QED  BY <3>1, <3>2, AtMostOneBatch
  <2>4. n.ok \in BOOLEAN
    BY <1>3 DEF LastCell
  <2>5. Service!RunBatch
    BY <1>5, <1>10, <1>11, <1>13, <2>1, <2>2, <2>3, <2>4
    DEF Service!RunBatch, Service!Cardinality, Cardinality
  <2> QED  BY <2>5
<1> QED  BY <1>12, <1>13

\* Nothing else an executor or the manager does can be told from outside.
LEMMA WorkerMapped ==
    ASSUME RingFacts, Typed', NEW x \in Workers, WorkerStep(x)
    PROVE  Service!RunBatch \/ UNCHANGED Mapped
<1>1. CASE Finish(x)
  BY <1>1, FinishMapped
<1>2. CASE ~Finish(x)
  <2>1. Typed /\ ManagerAlone
    BY DEF RingFacts, RingInv, ClaimInv
  <2>2. UNCHANGED requestVars /\ outputs' = outputs
    BY <1>2, <2>1, WorkerCellFrame, ResetFacts
  <2>3. Verdicts' = Verdicts
    BY <2>2, SameVerdicts
  <2>4. UNCHANGED <<size, Statuses, Replies>>
    BY <2>2 DEF Statuses, ServiceStatus, Replies
  <2> QED  BY <2>3, <2>4 DEF Mapped
<1> QED  BY <1>1, <1>2

LEMMA InitMapped == Init => Service!Init
<1> SUFFICES ASSUME Init PROVE Service!Init
  OBVIOUS
<1>1. /\ outputs = {} /\ size \in [Requests -> ReqSizes]
      /\ \A r \in Requests : rpc[r] = "new"
  BY DEF Init
<1>2. RowsRun = {}
  BY <1>1, RunRow, CellMember
<1>3. Verdicts = <<>>
  BY <1>2 DEF Verdicts
<1>4. Statuses = [r \in Requests |-> "new"]
  BY <1>1 DEF Statuses, ServiceStatus
<1>5. Replies = [r \in Requests |-> <<>>]
  BY <1>1 DEF Replies
<1> QED  BY <1>1, <1>3, <1>4, <1>5 DEF Service!Init

LEMMA NextMapped ==
    ASSUME RowWidth = 1, InputSupported, RingFacts, RingFacts', [Next]_vars
    PROVE  [Service!Next]_Service!vars
<1>0. Typed'
  BY DEF RingFacts
<1>1. ASSUME NEW r \in Requests, RequestStep(r)
      PROVE  \/ Service!Decide(r) \/ Service!Reply(r) \/ Service!Fail(r)
             \/ UNCHANGED Mapped
  BY <1>0, <1>1, CheckFullMapped, ReserveMapped, QuietMapped, CollectMapped
  DEF RequestStep
<1>2. CASE UNCHANGED vars
  <2>1. UNCHANGED <<outputs, requestVars>>
    BY <1>2
  <2>2. Verdicts' = Verdicts
    BY <1>0, <2>1, SameVerdicts
  <2>3. UNCHANGED <<size, Statuses, Replies>>
    BY <2>1 DEF Statuses, ServiceStatus, Replies
  <2> QED  BY <2>2, <2>3 DEF Service!vars
<1>3. CASE Next
  <2>1. \/ Service!RunBatch \/ UNCHANGED Mapped
        \/ \E r \in Requests : \/ Service!Decide(r) \/ Service!Reply(r)
                               \/ Service!Fail(r)
    BY <1>0, <1>1, <1>3, WorkerMapped DEF Next
  <2> QED  BY <2>1 DEF Service!Next, Service!vars, Mapped
<1> QED  BY <1>2, <1>3

(***************************************************************************)
(* What `infer` promises its callers: a model on this ring refuses or      *)
(* accepts calls as a whole, runs each row once in a batch of at most      *)
(* BatchSize rows, and answers each call from the runs of its own rows,    *)
(* for any number of calls, executors, batches and slots, while no call    *)
(* reserves more than the ring has free and rows have one element.         *)
(***************************************************************************)
THEOREM RingImplementsBatchService ==
    ASSUME RowWidth = 1, InputSupported
    PROVE  Spec /\ ReservesWithinRing => ImplementsBatchService
<1>1. Init => Service!Init
  BY InitMapped
<1>2. RingFacts /\ RingFacts' /\ [Next]_vars => [Service!Next]_Service!vars
  BY NextMapped
<1>3. Spec /\ ReservesWithinRing => []RingFacts
  BY RingFactsHold
<1> QED  BY <1>1, <1>2, <1>3, PTL DEF Spec, ImplementsBatchService, Service!Spec

(***************************************************************************)
(* The same with no condition on the run, when a call brings one row.      *)
(***************************************************************************)
THEOREM OneRowRingImplementsBatchService ==
    ASSUME RowWidth = 1, InputSupported, ReqSizes = {1}
    PROVE  Spec => ImplementsBatchService
BY OneRowReserves, RingImplementsBatchService, PTL

-------------------------------------------------------------------------------
(***************************************************************************)
(* The gauge.  A row no run has answered has an index of its own between   *)
(* the tail and head: where it will be copied to, or where it lies.        *)
(***************************************************************************)
RowAt(row, j) ==
    \/ /\ j \in Unpublished(row[1])
       /\ row[2] = sent[row[1]] + j - at[row[1]]
    \/ /\ j \notin Pending /\ j < head
       /\ \E i \in Window, s \in SlotIds :
            j = i + s /\ buffer[BatchId(i)][s] = row

\* A row its request has published lies in the batch of a reservation.
LEMMA TakenRow ==
    ASSUME RingFacts, NEW r \in Requests, NEW k \in Nat, k < Taken(r),
           <<r, k>> \notin RowsRun
    PROVE  \E j : RowAt(<<r, k>>, j)
<1>0. Typed
  BY DEF RingFacts
<1>1. PICK f \in [1 .. Len(resv[r]) + 1 -> 0 .. size[r]] :
        /\ f[1] = Len(answer[r])
        /\ f[Len(resv[r]) + 1] = Taken(r)
        /\ \A j \in 1 .. Len(resv[r]) :
            /\ f[j + 1] = f[j] + resv[r][j].end - resv[r][j].start
            /\ RowsHeld(r, resv[r][j], f[j])
  BY DEF RingFacts, AnswersInOrder, RowsInOrder
<1>2. PICK n \in Nat : n = Len(resv[r])
  BY <1>0, HeldReservation
<1>3. ~(k < Len(answer[r]))
  <2> SUFFICES ASSUME k < Len(answer[r]) PROVE FALSE
    OBVIOUS
  <2>1. answer[r] \in Seq(Rows \X Nat)
    BY <1>0 DEF Typed, TypeOK
  <2>2. k + 1 \in 1 .. Len(answer[r]) /\ (k + 1) - 1 = k
    BY <2>1
  <2>3. PICK cell \in outputs : IsFirst(cell, <<r, (k + 1) - 1>>)
    BY <2>2 DEF RingFacts, ServiceInv, AnsweredRows
  <2>4. cell \in CellsWith(<<r, k>>)
    BY <2>2, <2>3 DEF IsFirst
  <2> QED  BY <2>4, RunRow, RowNotNone
<1>4. PICK m \in 1 .. n : f[m] <= k /\ k < f[m + 1]
  <2> DEFINE T == {j \in 1 .. n + 1 : k < f[j]}
  <2>1. T \subseteq Nat /\ n + 1 \in T
    BY <1>1, <1>2
  <2>2. PICK p \in T : \A j \in T : p <= j
    <3> HIDE DEF T
    <3> QED  BY <2>1, LeastNumber
  <2>3. p \in 1 .. n + 1 /\ k < f[p]
    OBVIOUS
  <2>4. 1 \in 1 .. n + 1 /\ f[1] \in 0 .. size[r] /\ f[1] = Len(answer[r])
    BY <1>1, <1>2
  <2>5. p # 1
    BY <1>3, <2>3, <2>4
  <2>6. p - 1 \in 1 .. n /\ p - 1 \in 1 .. n + 1 /\ (p - 1) + 1 = p
    BY <1>2, <2>3, <2>5
  <2>7. ~(k < f[p - 1])
    <3>1. p - 1 \notin T
      BY <2>2, <2>3
    <3> QED  BY <2>6, <3>1
  <2>8. f[p - 1] \in 0 .. size[r] /\ size[r] \in Nat
    BY <1>0, <1>1, <1>2, <2>6, RequestNumbers
  <2>9. f[p - 1] <= k
    BY <2>7, <2>8
  <2> QED  BY <2>3, <2>6, <2>9
<1>5. PICK e, first, s : /\ e = resv[r][m] /\ first = f[m]
                         /\ s = e.start + k - first
  OBVIOUS
<1>6. /\ e \in Reservation /\ m \in 1 .. Len(resv[r])
      /\ NoOrphanReservation
  BY <1>0, <1>2, <1>5, HeldReservation DEF RingFacts, CellInv
<1>7. /\ e.batch \in BatchIds /\ e.start \in Nat /\ e.end \in Nat
      /\ e.end <= BatchSize
  BY <1>6, BatchSizeAssumption DEF Reservation, SlotIds
<1>8. /\ first \in Nat /\ first <= k /\ k < first + e.end - e.start
      /\ RowsHeld(r, e, first)
  <2>1. m \in 1 .. Len(resv[r]) + 1 /\ size[r] \in Nat
    BY <1>0, <1>2, RequestNumbers
  <2>2. first \in Nat
    <3>1. f[m] \in 0 .. size[r]
      BY <1>1, <2>1
    <3> QED  BY <1>5, <2>1, <3>1
  <2> QED  BY <1>1, <1>4, <1>5, <1>6, <2>2
<1>9. s \in e.start .. e.end - 1 /\ s \in SlotIds /\ first + s - e.start = k
  <2>1. PICK low \in Nat, top \in Nat : low = e.start /\ top = e.end
    BY <1>7
  <2>2. s = low + k - first /\ k < first + top - low /\ top <= BatchSize
    BY <1>5, <1>7, <1>8, <2>1
  <2>3. s \in low .. top - 1 /\ s \in 0 .. BatchSize - 1 /\ first + s - low = k
    BY <1>8, <2>2, BatchSizeAssumption, SMT
  <2> QED  BY <2>1, <2>3 DEF SlotIds
<1>10. ~\E cell \in outputs : cell.batch = e.batch /\ cell.gen = e.gen
  <2> SUFFICES ASSUME NEW cell \in outputs,
                      cell.batch = e.batch, cell.gen = e.gen
               PROVE  FALSE
    OBVIOUS
  <2>1. cell.rows[s] = <<r, k>>
    BY <1>8, <1>9 DEF RowsHeld, RowsAt
  <2>2. cell \in CellsWith(<<r, k>>)
    BY <1>9, <2>1 DEF CellsWith
  <2> QED  BY <2>2, RunRow, RowNotNone
<1>11. e.gen = state[e.batch].gen
  BY <1>0, <1>5, <1>6, <1>10, HeldReservation DEF NoOrphanReservation
<1>12. PICK i \in Window : BatchId(i) = e.batch
  <2>1. Aligned(tail)
    BY DEF RingFacts, RingInv, ClaimInv, WholeBatches
  <2>2. PICK i : /\ Aligned(i) /\ BatchId(i) = e.batch
                 /\ tail <= i /\ i < tail + RingSize
    BY <1>7, <2>1, BatchInEveryLap
  <2> QED  BY <2>1, <2>2, RingSizePositive, SMT DEF Window, Aligned
<1>13. /\ buffer[e.batch][s] = <<r, k>>
       /\ i + e.end <= head /\ i + s \notin Pending
  BY <1>8, <1>9, <1>11, <1>12 DEF RowsHeld, RowsAt
<1>14. i + s < head
  BY <1>0, <1>7, <1>9, <1>12, <1>13, Numbers, SMTT(30) DEF Window, Aligned
<1> QED  BY <1>9, <1>12, <1>13, <1>14 DEF RowAt

\* A row its request has reserved a slot for and not published.
LEMMA PendingRow ==
    ASSUME Typed, NEW r \in Requests, NEW k \in Nat, k < size[r],
           Taken(r) <= k, rpc[r] \in {"write", "publish", "notify", "error"}
    PROVE  \E j : RowAt(<<r, k>>, j)
<1>1. /\ at[r] \in Nat /\ sent[r] \in Nat /\ size[r] \in Nat
      /\ ChunkSize(r) \in Nat
  BY RequestNumbers
<1>2. PICK j : j = at[r] + k - sent[r]
  OBVIOUS
<1>3. j \in Unpublished(r)
  BY <1>1, <1>2, SMT DEF Unpublished, Taken
<1>4. k = sent[r] + j - at[r]
  BY <1>1, <1>2, SMT
<1> QED  BY <1>3, <1>4 DEF RowAt

\* Every index of a row lies in the lap of the tail and below head.
LEMMA RowAtInRing ==
    ASSUME RingFacts, NEW r \in Requests, NEW k \in Nat, NEW j,
           RowAt(<<r, k>>, j)
    PROVE  j \in Nat /\ tail <= j /\ j < head /\ j < tail + RingSize
<1>0. Typed
  BY DEF RingFacts
<1>1. CASE j \in Unpublished(r)
  BY <1>0, <1>1, UnpublishedNat DEF RingFacts, RingInv, SlotInv, PendingInRing
<1>2. CASE j \notin Unpublished(r)
  <2>1. j < head
    BY <1>2 DEF RowAt
  <2>2. PICK i \in Window, s \in SlotIds : j = i + s
    BY <1>2 DEF RowAt
  <2>3. Aligned(i) /\ i \in Nat /\ tail <= i /\ i < tail + RingSize
    BY <1>0, <2>2, Numbers DEF Window, Aligned
  <2>4. Aligned(tail + RingSize)
    BY BatchOfNextLap DEF RingFacts, RingInv, ClaimInv, WholeBatches
  <2>5. i + BatchSize <= tail + RingSize
    BY <2>3, <2>4, AlignedApart
  <2> QED  BY <1>0, <2>1, <2>2, <2>3, <2>5, Numbers, SMT DEF SlotIds
<1> QED  BY <1>1, <1>2

\* An index is that of one row.
LEMMA RowAtUnique ==
    ASSUME RingFacts, NEW r \in Requests, NEW k \in Nat,
           NEW q \in Requests, NEW n \in Nat, NEW j,
           RowAt(<<r, k>>, j), RowAt(<<q, n>>, j)
    PROVE  <<r, k>> = <<q, n>>
<1>1. CASE j \in Pending
  <2>1. /\ j \in Unpublished(r) /\ k = sent[r] + j - at[r]
        /\ j \in Unpublished(q) /\ n = sent[q] + j - at[q]
    BY <1>1 DEF RowAt
  <2>2. r = q
    BY <2>1 DEF RingFacts, RingInv, SlotInv, PendingApart
  <2> QED  BY <2>1, <2>2
<1>2. CASE j \notin Pending
  <2>1. j \notin Unpublished(r) /\ j \notin Unpublished(q)
    BY <1>2 DEF Pending
  <2>2. PICK i \in Window, s \in SlotIds :
            j = i + s /\ buffer[BatchId(i)][s] = <<r, k>>
    BY <2>1 DEF RowAt
  <2>3. PICK h \in Window, t \in SlotIds :
            j = h + t /\ buffer[BatchId(h)][t] = <<q, n>>
    BY <2>1 DEF RowAt
  <2>4. Aligned(i) /\ Aligned(h) /\ i \in Nat /\ h \in Nat
    BY <2>2, <2>3 DEF Window, Aligned
  <2>5. ~(i < h) /\ ~(h < i)
    <3>1. i < h => i + BatchSize <= h
      BY <2>4, AlignedApart
    <3>2. h < i => h + BatchSize <= i
      BY <2>4, AlignedApart
    <3> QED  BY <2>2, <2>3, <2>4, <3>1, <3>2, BatchSizeAssumption, SMT DEF SlotIds
  <2>6. i = h /\ s = t
    BY <2>2, <2>3, <2>4, <2>5, BatchSizeAssumption, SMT DEF SlotIds
  <2> QED  BY <2>2, <2>3, <2>6
<1> QED  BY <1>1, <1>2

LEMMA GaugeCounts ==
    ASSUME RingFacts
    PROVE  GaugeSeesWaitingRows
<1>0. Typed
  BY DEF RingFacts
<1>1. PICK gauge \in Nat : /\ gauge = InflightGauge
                           /\ gauge = IF head - tail < RingSize THEN head - tail
                                      ELSE RingSize
  <2>1. tail <= head
    BY DEF RingFacts, RingInv, SlotInv, HeadInRing
  <2> QED  BY <1>0, <2>1, Numbers DEF InflightGauge
<1>2. PICK Span : Span = tail .. tail + gauge - 1
  OBVIOUS
<1>3. IsFiniteSet(Span) /\ Cardinality(Span) = gauge
  <2>1. PICK low \in Int, top \in Int : low = tail /\ top = tail + gauge - 1
    BY <1>0, <1>1, Numbers
  <2>2. Span = low .. top /\ (IF low > top THEN 0 ELSE top - low + 1) = gauge
    BY <1>0, <1>1, <1>2, <2>1, Numbers, SMT
  <2> QED  BY <2>2, FS_Interval
<1>4. ASSUME NEW row \in UnansweredRows
      PROVE  /\ \E j \in Span : RowAt(row, j)
             /\ \E r \in Requests, k \in Nat : row = <<r, k>>
  <2>1. PICK r \in Requests, k \in 0 .. RingSize : row = <<r, k>>
    BY DEF UnansweredRows
  <2>2. /\ ServiceStatus(r) \in {"accepted", "failed"}
        /\ k < size[r] /\ row \notin RowsRun /\ k \in Nat
    BY <1>0, <2>1, Numbers DEF UnansweredRows
  <2>3. rpc[r] \in {"write", "publish", "notify", "wait", "error"}
    <3>1. rpc[r] \in RequestStates
      BY <1>0 DEF Typed, TypeOK
    <3> QED  BY <2>2, <3>1 DEF ServiceStatus, RequestStates
  <2>4. Taken(r) \in Nat /\ (rpc[r] = "wait" => Taken(r) = size[r])
    <3>1. SlotInv
      BY DEF RingFacts, RingInv
    <3>2. Taken(r) \in Nat
      BY <1>0, <3>1, CopiedNumbers
    <3>3. rpc[r] = "wait" => sent[r] = size[r]
      BY <3>1 DEF SlotInv, ChunkProgress
    <3> QED  BY <3>2, <3>3 DEF Taken
  <2>5. PICK j : RowAt(<<r, k>>, j)
    <3>1. CASE k < Taken(r)
      BY <2>1, <2>2, <3>1, TakenRow
    <3>2. CASE ~(k < Taken(r))
      <4>1. Taken(r) <= k /\ size[r] \in Nat
        BY <1>0, <2>2, <2>4, <3>2, RequestNumbers
      <4>2. rpc[r] # "wait"
        BY <2>2, <2>4, <4>1
      <4> QED  BY <1>0, <2>2, <2>3, <4>1, <4>2, PendingRow
    <3> QED  BY <3>1, <3>2
  <2>6. j \in Nat /\ tail <= j /\ j < head /\ j < tail + RingSize
    BY <2>2, <2>5, RowAtInRing
  <2>7. j \in Span
    BY <1>0, <1>1, <1>2, <2>6, Numbers, SMT
  <2> QED  BY <2>1, <2>2, <2>5, <2>7
<1>5. PICK f : f = [row \in UnansweredRows |-> CHOOSE j \in Span : RowAt(row, j)]
  OBVIOUS
<1>6. \A row \in UnansweredRows : f[row] \in Span /\ RowAt(row, f[row])
  BY <1>4, <1>5
<1>7. f \in Injection(UnansweredRows, Span)
  <2>1. ASSUME NEW a \in UnansweredRows, NEW b \in UnansweredRows, f[a] = f[b]
        PROVE  a = b
    <3>1. PICK r \in Requests, k \in Nat : a = <<r, k>>
      BY <1>4
    <3>2. PICK q \in Requests, n \in Nat : b = <<q, n>>
      BY <1>4
    <3>3. RowAt(<<r, k>>, f[a]) /\ RowAt(<<q, n>>, f[a])
      BY <1>6, <2>1, <3>1, <3>2
    <3> QED  BY <3>1, <3>2, <3>3, RowAtUnique
  <2>2. f \in [UnansweredRows -> Span]
    BY <1>5, <1>6
  <2> QED  BY <2>1, <2>2 DEF Injection, IsInjective
<1>8. Cardinality(UnansweredRows) <= Cardinality(Span)
  BY <1>3, <1>7, FS_Injection
<1> QED  BY <1>1, <1>3, <1>8 DEF GaugeSeesWaitingRows

(***************************************************************************)
(* The inflight gauge of metrics_snapshot never misses a row that waits    *)
(* for its run, for every ring, load and interleaving, as long as no call  *)
(* reserves more than the ring has free and rows have one element.         *)
(***************************************************************************)
THEOREM GaugeNeverMissesRows ==
    ASSUME RowWidth = 1
    PROVE  Spec /\ ReservesWithinRing => []GaugeSeesWaitingRows
BY GaugeCounts, RingFactsHold, PTL

(***************************************************************************)
(* The same with no condition on the run, when a call brings one row.      *)
(***************************************************************************)
THEOREM OneRowGaugeNeverMissesRows ==
    ASSUME RowWidth = 1, ReqSizes = {1}
    PROVE  Spec => []GaugeSeesWaitingRows
BY OneRowReserves, GaugeNeverMissesRows, PTL

-------------------------------------------------------------------------------
(***************************************************************************)
(* Indices in machine words.  Index i on lap k is Word(i + k * RingSize):  *)
(* its masks are those of i, and the wrapped distance of two of them is    *)
(* the remainder of their distance.                                        *)
(***************************************************************************)
LEMMA WordNumbers ==
    /\ WordSize \in Nat \ {0} /\ RingSize \in Nat \ {0}
    /\ BatchSize \in Nat \ {0} /\ BatchSize <= RingSize
    /\ HALF_RANGE \in Nat /\ RingSize < HALF_RANGE
    /\ 2 * HALF_RANGE < WordSize
    /\ \E m \in Nat \ {0} : WordSize = m * RingSize
<1>1. /\ WordSize \in Nat /\ RingSize \in Nat \ {0} /\ RingSize < HALF_RANGE
      /\ BatchSize \in Nat \ {0} /\ BatchSize <= RingSize
  BY WordSizeAssumption, RingSizePositive, BatchSizeAssumption
<1>2. HALF_RANGE = (WordSize - 1) \div 2 /\ WordSize - 1 \in Int
  BY <1>1 DEF HALF_RANGE
<1>3. HALF_RANGE \in Int /\ 2 * HALF_RANGE <= WordSize - 1
  BY <1>2, SMT
<1>4. HALF_RANGE \in Nat /\ 2 * HALF_RANGE < WordSize /\ WordSize # 0
  BY <1>1, <1>3, SMT
<1>5. \E m \in Nat \ {0} : WordSize = m * RingSize
  <2>0. WordSize \in Int
    BY <1>1
  <2>1. PICK q \in Int : WordSize = q * RingSize + (WordSize % RingSize)
    BY <1>1, <2>0, Division
  <2>2. WordSize % RingSize = 0
    BY WordSizeAssumption
  <2>3. PICK p \in Int : p = q * RingSize
    BY <1>1
  <2>4. WordSize = q * RingSize
    BY <1>1, <2>1, <2>2, <2>3
  <2>5. q > 0
    BY <1>1, <1>4, <2>4, SMT
  <2> QED  BY <2>4, <2>5
<1> QED  BY <1>1, <1>4, <1>5

LEMMA LapIndex ==
    ASSUME NEW i \in Nat, NEW k \in Nat
    PROVE  i + k * RingSize \in Nat
<1>1. k * RingSize \in Nat
  BY WordNumbers, SMT
<1> QED  BY <1>1

LEMMA WordBatch ==
    ASSUME NEW i \in Nat, NEW k \in Nat
    PROVE  WordBatchId(Word(i + k * RingSize)) = BatchId(i)
<1>1. PICK m \in Nat \ {0} : WordSize = m * RingSize
  BY WordNumbers
<1>2. PICK l \in Nat : l = i + k * RingSize
  BY LapIndex
<1>3. RingSize \in Nat \ {0}
  BY WordNumbers
<1>4. (l % WordSize) % RingSize = l % RingSize
  <2>1. (l % (m * RingSize)) % RingSize = l % RingSize
    <3>1. l \in Int
      OBVIOUS
    <3> QED  BY <1>3, <3>1, RemainderOfRemainder
  <2> QED  BY <1>1, <2>1
<1>5. l % RingSize = i % RingSize
  <2>1. (i + k * RingSize) % RingSize = i % RingSize
    <3>1. i \in Int /\ k \in Int
      OBVIOUS
    <3> QED  BY <1>3, <3>1, RemainderOfShifted
  <2> QED  BY <1>2, <2>1
<1> QED  BY <1>2, <1>4, <1>5 DEF WordBatchId, Word, BatchId

LEMMA WordSlot ==
    ASSUME NEW i \in Nat, NEW k \in Nat
    PROVE  WordSlotId(Word(i + k * RingSize)) = SlotId(i)
<1>1. PICK m \in Nat \ {0} : WordSize = m * RingSize
  BY WordNumbers
<1>2. PICK l \in Nat : l = i + k * RingSize
  BY LapIndex
<1>3. /\ BatchSize \in Nat \ {0} /\ Capacity \in Nat \ {0}
      /\ RingSize = Capacity * BatchSize
  BY BatchSizeAssumption, CapacityAssumption DEF RingSize
<1>4. PICK p \in Nat \ {0} : p = m * Capacity
  BY <1>3, SMT
<1>5. WordSize = p * BatchSize
  BY <1>1, <1>3, <1>4, SMT
<1>6. (l % WordSize) % BatchSize = l % BatchSize
  <2>1. (l % (p * BatchSize)) % BatchSize = l % BatchSize
    <3>1. l \in Int
      OBVIOUS
    <3> QED  BY <1>3, <3>1, RemainderOfRemainder
  <2> QED  BY <1>5, <2>1
<1>7. l % BatchSize = i % BatchSize
  <2>1. PICK c \in Int : c = k * Capacity
    BY <1>3, SMT
  <2>2. l = i + c * BatchSize
    BY <1>2, <1>3, <2>1, SMT
  <2>3. (i + c * BatchSize) % BatchSize = i % BatchSize
    <3>1. i \in Int
      OBVIOUS
    <3> QED  BY <1>3, <3>1, RemainderOfShifted
  <2> QED  BY <2>2, <2>3
<1> QED  BY <1>2, <1>6, <1>7 DEF WordSlotId, Word, SlotId

\* Bounds of a batch.
LEMMA WordBounds ==
    ASSUME NEW i \in Nat, NEW k \in Nat
    PROVE  /\ WordLowerBound(Word(i + k * RingSize))
                  = Word(LowerBound(i) + k * RingSize)
           /\ WordHigherBound(Word(i + k * RingSize))
                  = Word(HigherBound(i) + k * RingSize)
<1>1. PICK l \in Nat : l = i + k * RingSize
  BY LapIndex
<1>2. /\ SlotId(i) \in Nat /\ LowerBound(i) = i - SlotId(i)
      /\ HigherBound(i) = LowerBound(i) + BatchSize
      /\ LowerBound(i) \in Nat /\ BatchSize \in Nat
  BY SlotIdInRange, BatchOfIndex, WordNumbers, HigherBoundFacts DEF LowerBound
<1>3. WordSlotId(Word(l)) = SlotId(i)
  BY <1>1, WordSlot
<1>4. WordLowerBound(Word(l)) = Word(l - SlotId(i))
  <2>1. ((l % WordSize) - SlotId(i)) % WordSize = (l - SlotId(i)) % WordSize
    <3>1. l \in Int /\ SlotId(i) \in Int /\ WordSize \in Nat \ {0}
      BY <1>2, WordNumbers
    <3> QED  BY <3>1, RemainderOfSum
  <2> QED  BY <1>3, <2>1 DEF WordLowerBound, WrappingSub, Word
<1>5. PICK n \in Nat : n = LowerBound(i) + k * RingSize /\ n = l - SlotId(i)
  <2>1. PICK c \in Nat : c = k * RingSize
    BY WordNumbers, SMT
  <2> QED  BY <1>1, <1>2, <2>1
<1>6. WordHigherBound(Word(l)) = Word(n + BatchSize)
  <2>1. ((n % WordSize) + BatchSize) % WordSize = (n + BatchSize) % WordSize
    <3>1. n \in Int /\ BatchSize \in Int /\ WordSize \in Nat \ {0}
      BY <1>2, WordNumbers
    <3> QED  BY <3>1, RemainderOfSum
  <2> QED  BY <1>4, <1>5, <2>1 DEF WordHigherBound, WrappingAdd, Word
<1>7. n + BatchSize = HigherBound(i) + k * RingSize
  <2>1. PICK c \in Nat : c = k * RingSize
    BY WordNumbers, SMT
  <2> QED  BY <1>2, <1>5, <2>1
<1> QED  BY <1>1, <1>4, <1>5, <1>6, <1>7

\* Distances.
LEMMA WordDistance ==
    ASSUME NEW i \in Nat, NEW j \in Nat, NEW k \in Nat
    PROVE  /\ WrappingSub(Word(i + k * RingSize), Word(j + k * RingSize))
                  = (i - j) % WordSize
           /\ 0 <= i - j /\ i - j < WordSize => (i - j) % WordSize = i - j
           /\ i - j < 0 /\ j - i <= WordSize => (i - j) % WordSize = i - j + WordSize
<1>1. PICK c \in Nat : c = k * RingSize
  BY WordNumbers, SMT
<1>2. PICK d \in Int : d = i - j
  OBVIOUS
<1>3. PICK a \in Int, b \in Int : a = i + c /\ b = j + c
  OBVIOUS
<1>4. a - b = d
  BY <1>2, <1>3
<1>5. ((a % WordSize) - (b % WordSize)) % WordSize = (a - b) % WordSize
  BY WordNumbers, RemainderOfSum
<1>6. WrappingSub(Word(a), Word(b)) = d % WordSize
  BY <1>4, <1>5 DEF WrappingSub, Word
<1>7. /\ 0 <= d /\ d < WordSize => d % WordSize = d
      /\ d < 0 /\ -WordSize <= d => d % WordSize = d + WordSize
  BY WordNumbers, SmallRemainder
<1>8. j - i <= WordSize => -WordSize <= d
  BY <1>2, WordNumbers
<1> QED  BY <1>1, <1>2, <1>3, <1>6, <1>7, <1>8

(***************************************************************************)
(* The decisions of the code, for indices that are not too far apart.      *)
(***************************************************************************)
LEMMA FullInWords ==
    ASSUME NEW i \in Nat, NEW t \in Nat, NEW k \in Nat,
           i - t < WordSize, t - i <= WordSize - RingSize
    PROVE  IsFull(i, t) = WordIsFull(Word(i + k * RingSize), Word(t + k * RingSize))
<1>1. PICK d : d = WrappingSub(Word(i + k * RingSize), Word(t + k * RingSize))
  OBVIOUS
<1>2. /\ i >= t => d = i - t
      /\ i < t => d = i - t + WordSize
  BY <1>1, WordDistance, WordNumbers
<1>3. IsFull(i, t) <=> d >= RingSize
  BY <1>2, WordNumbers, SMT DEF IsFull
<1>4. IsFull(i, t) = (d >= RingSize)
  <2>1. IsFull(i, t) \in BOOLEAN
    BY DEF IsFull
  <2>2. (d >= RingSize) \in BOOLEAN
    OBVIOUS
  <2> QED  BY <1>3, <2>1, <2>2
<1> QED  BY <1>1, <1>4 DEF WordIsFull

LEMMA BelowInWords ==
    ASSUME NEW h \in Nat, NEW b \in Nat, NEW k \in Nat,
           b - h <= RingSize, h - b <= WordSize - HALF_RANGE
    PROVE  /\ (h < b) = WordBelow(Word(h + k * RingSize), Word(b + k * RingSize))
           /\ h < b => WrappingSub(Word(b + k * RingSize), Word(h + k * RingSize))
                          = b - h
<1>1. PICK d : d = WrappingSub(Word(b + k * RingSize), Word(h + k * RingSize))
  OBVIOUS
<1>2. /\ b >= h => d = b - h
      /\ b < h => d = b - h + WordSize
  <2>1. /\ d = (b - h) % WordSize
        /\ 0 <= b - h /\ b - h < WordSize => (b - h) % WordSize = b - h
        /\ b - h < 0 /\ h - b <= WordSize => (b - h) % WordSize = b - h + WordSize
    BY <1>1, WordDistance
  <2>2. PICK e : e = (b - h) % WordSize
    OBVIOUS
  <2> QED  BY <2>1, <2>2, WordNumbers
<1>3. h < b <=> d > 0 /\ d < HALF_RANGE
  BY <1>2, WordNumbers, SMT
<1> QED  BY <1>1, <1>2, <1>3 DEF WordBelow

LEMMA AtLeastInWords ==
    ASSUME NEW a \in Nat, NEW b \in Nat, NEW k \in Nat,
           a - b <= RingSize, b - a <= WordSize - HALF_RANGE
    PROVE  (a >= b) = WordAtLeast(Word(a + k * RingSize), Word(b + k * RingSize))
<1>1. PICK d : d = WrappingSub(Word(a + k * RingSize), Word(b + k * RingSize))
  OBVIOUS
<1>2. /\ a >= b => d = a - b
      /\ a < b => d = a - b + WordSize
  <2>1. /\ d = (a - b) % WordSize
        /\ 0 <= a - b /\ a - b < WordSize => (a - b) % WordSize = a - b
        /\ a - b < 0 /\ b - a <= WordSize => (a - b) % WordSize = a - b + WordSize
    BY <1>1, WordDistance
  <2>2. PICK e : e = (a - b) % WordSize
    OBVIOUS
  <2> QED  BY <2>1, <2>2, WordNumbers
<1>3. a >= b <=> d < HALF_RANGE
  BY <1>2, WordNumbers, SMT
<1> QED  BY <1>1, <1>3 DEF WordAtLeast

-------------------------------------------------------------------------------
(***************************************************************************)
(* How far apart the indices are.                                          *)
(***************************************************************************)
LEMMA InitWord == Init => WordInv
<1> SUFFICES ASSUME Init PROVE WordInv
  OBVIOUS
<1>1. LoadsBehind
  BY DEF Init, LoadsBehind
<1>2. Manager \in Workers /\ xpc[Manager] = "idle"
  BY DEF Init, Workers
<1>3. executorHead = 0 /\ tail = 0
  BY DEF Init
<1>4. RingSize \in Nat /\ BatchSize \in Nat /\ BatchSize > 0
  BY RingSizePositive, BatchSizeAssumption
<1>5. WarmupsInRing
  <2>1. PICK newest \in Int : newest = executorHead - BatchSize
    BY <1>3, <1>4
  <2>2. newest < tail /\ newest < tail + BatchSize /\ ~(tail < executorHead)
    BY <1>3, <1>4, <2>1
  <2>3. executorHead <= tail + RingSize
    BY <1>3, <1>4
  <2> QED  BY <1>2, <1>3, <1>4, <2>1, <2>2, <2>3 DEF WarmupsInRing
<1> QED  BY <1>1, <1>5 DEF WordInv

LEMMA RequestWord ==
    ASSUME Typed, Typed', ManagerAlone, WordInv, NEW r \in Requests, RequestStep(r)
    PROVE  WordInv'
<1>1. Registered /\ UNCHANGED <<executorHead, tail, workerVars>>
  BY RequestFrame
<1>2. head <= head'
  <2>1. Reserve(r) => head' = head + size[r] \/ head' = head
    BY DEF Reserve, HeadUnchanged
  <2>2. LoadHead(r) \/ CheckFull(r) \/ WriteChunk(r) => head' = head
    BY DEF LoadHead, CheckFull, WriteChunk
  <2>3. Publish(r) \/ NotifyExecutor(r) \/ Collect(r) => head' = head
    BY DEF Publish, NotifyExecutor, Collect
  <2> QED  BY <2>1, <2>2, <2>3, Numbers, RequestNumbers, SMT DEF RequestStep
<1>3. ASSUME NEW q \in Requests, rpc'[q] = "check"
      PROVE  at'[q] <= head'
  <2>1. CASE LoadHead(r) /\ q = r
    <3>1. at'[q] = head /\ head' = head
      BY <2>1 DEF LoadHead, Typed, TypeOK
    <3> QED  BY <3>1, Numbers
  <2>2. CASE ~(LoadHead(r) /\ q = r)
    <3> DEFINE Same == rpc[q] = "check" /\ at'[q] = at[q]
    <3>1. LoadHead(r) \/ CheckFull(r) \/ Reserve(r) \/ WriteChunk(r) => Same
      BY <1>3, <2>2 DEF LoadHead, CheckFull, Reserve, WriteChunk, Typed, TypeOK
    <3>2. Publish(r) \/ NotifyExecutor(r) => Same
      <4>1. NextChunk(r) => Same
        BY <1>3 DEF NextChunk, Typed, TypeOK
      <4>2. rpc' = [rpc EXCEPT ![r] = "notify"] /\ UNCHANGED at => Same
        BY <1>3 DEF Typed, TypeOK
      <4> QED  BY <4>1, <4>2 DEF Publish, NotifyExecutor
    <3>3. Collect(r) => Same
      BY <1>3 DEF Collect, Typed, TypeOK
    <3>4. at[q] <= head /\ at'[q] = at[q] /\ at[q] \in Nat
      BY <3>1, <3>2, <3>3, RequestNumbers DEF RequestStep, WordInv, LoadsBehind
    <3>5. head' \in Nat /\ head \in Nat
      BY DEF Typed, TypeOK
    <3> QED  BY <1>2, <3>4, <3>5
  <2> QED  BY <2>1, <2>2
<1>4. LoadsBehind'
  BY <1>1, <1>3 DEF WordInv, LoadsBehind
<1>5. WarmupsInRing'
  <2>1. Registered'
    BY <1>1 DEF Registered
  <2> QED  BY <1>1, <2>1 DEF WordInv, WarmupsInRing
<1> QED  BY <1>4, <1>5 DEF WordInv

\* Workers load only the index they are about to use; the heads only grow.
LEMMA WorkerLoads ==
    ASSUME Typed, Typed', LoadsBehind, NEW x \in Workers, WorkerStep(x)
    PROVE  LoadsBehind'
<1>1. UNCHANGED requestVars /\ head <= head' /\ executorHead <= executorHead'
  <2>1. LoadExecutorHead(x) \/ CheckRoom(x) \/ Listen(x) \/ Claim(x)
           => /\ UNCHANGED requestVars /\ head <= head'
              /\ executorHead <= executorHead'
    BY Numbers DEF LoadExecutorHead, CheckRoom, Listen, Claim
  <2>2. AwaitFirst(x) \/ Peek(x) \/ DeadlineExpires(x) \/ AwaitFull(x)
           => /\ UNCHANGED requestVars /\ head <= head'
              /\ executorHead <= executorHead'
    BY Numbers DEF AwaitFirst, Peek, DeadlineExpires, AwaitFull
  <2>3. Seal(x) => /\ UNCHANGED requestVars /\ head <= head'
                   /\ executorHead <= executorHead'
    <3>1. HigherBound(idx[x]) \in Nat
      BY Numbers, HigherBoundFacts
    <3>2. OpenSlots(x) >= 0 /\ OpenSlots(x) \in Int
      BY <3>1, Numbers DEF OpenSlots
    <3> QED  BY <3>2, Numbers DEF Seal
  <2>4. SpinWritten(x) \/ Finish(x) \/ Warmup(x) \/ ResetBatch(x)
           => /\ UNCHANGED requestVars /\ head <= head'
              /\ executorHead <= executorHead'
    BY Numbers DEF SpinWritten, Finish, Warmup, ResetBatch
  <2>5. LoadTail(x) \/ CheckHead(x) \/ TakeDirty(x) \/ AdvanceTail(x)
           => /\ UNCHANGED requestVars /\ head <= head'
              /\ executorHead <= executorHead'
    BY Numbers DEF LoadTail, CheckHead, TakeDirty, AdvanceTail
  <2> QED  BY <2>1, <2>2, <2>3, <2>4, <2>5 DEF WorkerStep
<1>2. ASSUME NEW y \in Workers, xpc'[y] = "check"
      PROVE  seen'[y] <= executorHead'
  <2>1. CASE LoadExecutorHead(x) /\ y = x
    <3>1. seen'[y] = executorHead /\ executorHead' = executorHead
      BY <2>1 DEF LoadExecutorHead, Typed, TypeOK
    <3> QED  BY <3>1, Numbers
  <2>2. CASE ~(LoadExecutorHead(x) /\ y = x)
    <3> DEFINE Same == xpc[y] = "check" /\ seen'[y] = seen[y]
    <3>1. LoadExecutorHead(x) \/ CheckRoom(x) \/ Listen(x) \/ Claim(x) => Same
      BY <1>2, <2>2 DEF LoadExecutorHead, CheckRoom, Listen, Claim, Goto, Typed,
         TypeOK
    <3>2. AwaitFirst(x) \/ Peek(x) \/ DeadlineExpires(x) \/ AwaitFull(x) => Same
      BY <1>2 DEF AwaitFirst, Peek, DeadlineExpires, AwaitFull, Goto, Typed, TypeOK
    <3>3. Seal(x) \/ SpinWritten(x) \/ Finish(x) \/ Warmup(x) \/ ResetBatch(x)
             => Same
      BY <1>2 DEF Seal, SpinWritten, Finish, Warmup, ResetBatch, Goto, Typed, TypeOK
    <3>4. LoadTail(x) \/ CheckHead(x) \/ TakeDirty(x) \/ AdvanceTail(x) => Same
      BY <1>2 DEF LoadTail, CheckHead, TakeDirty, AdvanceTail, Return, Goto, Typed,
         TypeOK
    <3>5. seen[y] <= executorHead /\ seen'[y] = seen[y]
      BY <3>1, <3>2, <3>3, <3>4 DEF WorkerStep, LoadsBehind
    <3>6. executorHead' \in Nat /\ executorHead \in Nat /\ seen[y] \in Nat
      BY DEF Typed, TypeOK
    <3> QED  BY <1>1, <3>5, <3>6
  <2> QED  BY <2>1, <2>2
<1>3. ASSUME NEW q \in Requests, rpc'[q] = "check"
      PROVE  at'[q] <= head'
  <2>1. at[q] <= head /\ at'[q] = at[q] /\ at[q] \in Nat
    BY <1>1, <1>3, RequestNumbers DEF LoadsBehind
  <2>2. head' \in Nat /\ head \in Nat
    BY DEF Typed, TypeOK
  <2> QED  BY <1>1, <2>1, <2>2
<1> QED  BY <1>2, <1>3 DEF LoadsBehind

\* Executors work on a registered model and claim within a lap of the tail.
LEMMA ExecutorWord ==
    ASSUME Typed, Typed', ClaimInv, WarmupsInRing, NEW x \in Executors,
           WorkerStep(x)
    PROVE  WarmupsInRing'
<1>1. /\ Registered /\ x \in Workers /\ x # Manager
      /\ executorHead <= tail + RingSize
  BY ExecutorSeesRegistered, ManagerAssumption
     DEF ClaimInv, WarmupsInRing, Workers
<1>2. Registered'
  <2>1. ManagerAlone'
    BY <1>1, ManagerStaysAlone DEF ClaimInv
  <2>2. Manager \in Workers /\ xpc[Manager] = "idle"
    BY <1>1 DEF Registered, Workers
  <2>3. xpc'[Manager] = "idle"
    <3>1. CASE AdvanceTail(x)
      BY <1>1, <2>2, <3>1 DEF AdvanceTail, Return, Typed, TypeOK
    <3>2. CASE ~AdvanceTail(x)
      <4>1. xpc' = xpc \/ \E pc \in WorkerStates : xpc' = [xpc EXCEPT ![x] = pc]
        BY <3>2 DEF WorkerStep, LoadExecutorHead, CheckRoom, Listen, Claim,
           AwaitFirst, Peek, DeadlineExpires, AwaitFull, Seal, SpinWritten,
           Finish, Warmup, ResetBatch, LoadTail, CheckHead, TakeDirty,
           Goto, Return, WorkerStates
      <4> QED  BY <1>1, <2>2, <4>1 DEF Typed, TypeOK
    <3> QED  BY <3>1, <3>2
  <2>4. executorHead' = executorHead \/ executorHead' = executorHead + BatchSize
    BY DEF WorkerStep, LoadExecutorHead, CheckRoom, Listen, Claim,
       AwaitFirst, Peek, DeadlineExpires, AwaitFull, Seal, SpinWritten,
       Finish, Warmup, ResetBatch, LoadTail, CheckHead, TakeDirty, AdvanceTail
  <2>5. Warmups * BatchSize \in Nat
    BY LoadAssumption, Numbers, SMT
  <2> QED  BY <1>1, <2>3, <2>4, <2>5, Numbers, SMT DEF Registered
<1>3. tail' \in Nat /\ tail <= tail'
  <2>1. tail' = tail \/ (AdvanceTail(x) /\ tail' = HigherBound(tail))
    BY DEF WorkerStep, LoadExecutorHead, CheckRoom, Listen, Claim,
       AwaitFirst, Peek, DeadlineExpires, AwaitFull, Seal, SpinWritten,
       Finish, Warmup, ResetBatch, LoadTail, CheckHead, TakeDirty, AdvanceTail
  <2>2. tail < HigherBound(tail) /\ HigherBound(tail) \in Nat
    BY Numbers, HigherBoundFacts
  <2>3. PICK h \in Nat : h = HigherBound(tail) /\ tail < h
    BY <2>2
  <2> QED  BY <2>1, <2>3, Numbers
<1>4. \/ executorHead' = executorHead
      \/ executorHead' <= tail + RingSize /\ executorHead' \in Nat
  <2>1. CASE Claim(x)
    <3>1. seen[x] + BatchSize <= tail + RingSize
      BY <2>1 DEF Claim, ClaimInv, ClaimsBounded
    <3> QED  BY <2>1, <3>1, Numbers, <1>1 DEF Claim
  <2>2. CASE ~Claim(x)
    BY <1>1, <2>2, ManagerAssumption
       DEF WorkerStep, LoadExecutorHead, CheckRoom, Listen,
       AwaitFirst, Peek, DeadlineExpires, AwaitFull, Seal, SpinWritten,
       Finish, Warmup, ResetBatch, LoadTail, CheckHead, TakeDirty, AdvanceTail
  <2> QED  BY <2>1, <2>2
<1>5. executorHead' <= tail' + RingSize
  <2>1. executorHead' \in Nat /\ executorHead' <= tail + RingSize
    BY <1>1, <1>4, Numbers
  <2> QED  BY <1>3, <2>1, Numbers
<1> QED  BY <1>2, <1>5 DEF WarmupsInRing

\* Neighbouring batches of a ring with several batches differ.
LEMMA NextBatchDiffers ==
    ASSUME NEW i, Aligned(i), Capacity > 1
    PROVE  BatchId(i) # BatchId(i + BatchSize)
<1>1. i \in Nat /\ Aligned(i + BatchSize)
  BY AlignedNext DEF Aligned
<1>2. BatchSize \in Nat /\ BatchSize > 0 /\ BatchSize < RingSize
  <2>1. BatchSize < Capacity * BatchSize
    BY BatchSizeAssumption, CapacityAssumption, SMT
  <2> QED  BY <2>1, BatchSizeAssumption DEF RingSize
<1>3. RingSize \in Nat
  BY RingSizePositive
<1> QED  BY <1>1, <1>2, <1>3, SameBatchInWindow

LEMMA OnlyBatch ==
    ASSUME NEW i \in Nat, NEW j \in Nat, ~(Capacity > 1)
    PROVE  BatchId(i) = BatchId(j)
<1>1. Capacity = 1
  BY CapacityAssumption
<1>2. BatchIds = {0}
  BY <1>1 DEF BatchIds
<1> QED  BY <1>2, BatchIdInRange
(***************************************************************************)
(* The warmups, alone on the ring: each step of the manager.               *)
(***************************************************************************)
LEMMA ManagerWord ==
    ASSUME Typed, Typed', ClaimInv, WarmupsInRing, WorkerStep(Manager)
    PROVE  WarmupsInRing'
<1> DEFINE pc     == xpc[Manager]
           newest == executorHead - BatchSize
           two    == newest = tail + BatchSize
<1>1. /\ Manager \in Workers /\ ~Registered /\ head = executorHead
      /\ \/ Warmup(Manager) \/ ResetBatch(Manager) \/ LoadTail(Manager)
         \/ CheckHead(Manager) \/ TakeDirty(Manager) \/ AdvanceTail(Manager)
  BY ManagerSteps DEF ClaimInv, ManagerAlone, Workers
<1>2. /\ newest <= tail + BatchSize
      /\ pc = "idle" => newest <= tail
      /\ pc = "reset" => idx[Manager] = newest
      /\ pc \in {"move_head", "take", "advance"} => seen[Manager] = tail
      /\ pc \in {"take", "advance"} => two
      /\ two /\ pc \in {"move", "move_head", "take"} => dirty[BatchId(tail)] = 2
      /\ Capacity > 1 =>
          /\ two /\ pc = "reset" => dirty[BatchId(tail)] = 2
          /\ tail < executorHead /\ pc # "reset" => dirty[BatchId(newest)] = 2
  BY <1>1 DEF WarmupsInRing
<1>3. /\ head \in Nat /\ executorHead \in Nat /\ tail \in Nat
      /\ BatchSize \in Nat /\ BatchSize > 0
      /\ RingSize \in Nat /\ RingSize >= BatchSize /\ tail <= executorHead
      /\ Aligned(executorHead) /\ Aligned(tail)
      /\ dirty \in [BatchIds -> 0 .. 2] /\ xpc \in [Workers -> WorkerStates]
      /\ seen \in [Workers -> Nat] /\ idx \in [Workers -> Nat]
  BY Numbers DEF Typed, TypeOK, ClaimInv, ClaimsBounded, WholeBatches
<1>4. HigherBound(tail) = tail + BatchSize /\ BatchId(tail) \in BatchIds
  BY <1>3, HigherBoundFacts, BatchIdInRange DEF Aligned
<1>5. CASE Warmup(Manager)
  <2>1. /\ pc = "idle" /\ executorHead' = executorHead + BatchSize /\ tail' = tail
        /\ idx'[Manager] = executorHead /\ xpc'[Manager] = "reset"
        /\ dirty' = [dirty EXCEPT ![BatchId(executorHead)] = 1]
    BY <1>1, <1>3, <1>5 DEF Warmup, Goto
  <2>2. /\ newest' = executorHead /\ newest' <= tail' + BatchSize
    BY <1>2, <1>3, <2>1
  <2>3. ASSUME Capacity > 1, two'
        PROVE  dirty'[BatchId(tail')] = 2
    <3>1. executorHead = tail + BatchSize
      BY <1>3, <2>1, <2>2, <2>3
    <3>2. newest = tail /\ tail < executorHead
      BY <1>3, <3>1
    <3>3. dirty[BatchId(tail)] = 2
      BY <1>2, <2>1, <2>3, <3>2
    <3>4. BatchId(tail) # BatchId(executorHead)
      BY <1>3, <2>3, <3>1, NextBatchDiffers
    <3> QED  BY <1>3, <1>4, <2>1, <3>3, <3>4
  <2> QED  BY <2>1, <2>2, <2>3 DEF WarmupsInRing, Registered
<1>6. CASE ResetBatch(Manager)
  <2>1. /\ pc = "reset" /\ executorHead' = executorHead /\ tail' = tail
        /\ xpc'[Manager] = "move"
        /\ dirty' = [dirty EXCEPT ![BatchId(newest)] = 2]
    BY <1>1, <1>2, <1>3, <1>6 DEF ResetBatch, Goto
  <2>2. newest \in Nat /\ BatchId(newest) \in BatchIds
    <3>1. newest \in Nat
      BY <1>1, <1>2, <1>3, <2>1
    <3> QED  BY <3>1, BatchIdInRange
  <2>3. dirty'[BatchId(newest)] = 2
    BY <1>3, <2>1, <2>2
  <2>4. ASSUME two PROVE dirty'[BatchId(tail)] = 2
    <3>1. CASE Capacity > 1
      BY <1>2, <1>3, <1>4, <2>1, <2>4, <3>1
    <3>2. CASE ~(Capacity > 1)
      BY <1>3, <2>2, <2>3, <3>2, OnlyBatch
    <3> QED  BY <3>1, <3>2
  <2> QED  BY <1>2, <2>1, <2>3, <2>4 DEF WarmupsInRing, Registered
<1>7. CASE LoadTail(Manager)
  <2>1. /\ pc = "move" /\ UNCHANGED <<executorHead, tail, dirty>>
        /\ xpc'[Manager] = "move_head" /\ seen'[Manager] = tail
    BY <1>1, <1>3, <1>7 DEF LoadTail, Goto
  <2> QED  BY <1>2, <2>1 DEF WarmupsInRing, Registered
<1>8. CASE CheckHead(Manager)
  <2>1. /\ pc = "move_head" /\ UNCHANGED <<executorHead, tail, dirty>>
        /\ seen[Manager] = tail
    BY <1>2, <1>8 DEF CheckHead
  <2>2. CASE StillOpen(seen[Manager])
    <3>1. xpc'[Manager] = "idle"
      BY <1>1, <1>3, <1>8, <2>2 DEF CheckHead, Return
    <3>2. newest <= tail /\ executorHead <= tail + RingSize
      <4>1. tail + BatchSize >= executorHead
        BY <1>1, <1>4, <2>1, <2>2 DEF StillOpen
      <4> QED  BY <1>3, <4>1
    <3> QED  BY <1>2, <2>1, <3>1, <3>2 DEF WarmupsInRing
  <2>3. CASE ~StillOpen(seen[Manager])
    <3>1. xpc'[Manager] = "take" /\ seen' = seen
      BY <1>1, <1>3, <1>8, <2>3 DEF CheckHead, Goto
    <3>2. two
      <4>1. tail + BatchSize < executorHead
        BY <1>1, <1>3, <1>4, <2>1, <2>3 DEF StillOpen
      <4>2. tail + BatchSize + BatchSize <= executorHead
        BY <1>3, <4>1, AlignedNext, AlignedApart
      <4> QED  BY <1>2, <1>3, <4>2
    <3> QED  BY <1>2, <2>1, <3>1, <3>2 DEF WarmupsInRing, Registered
  <2> QED  BY <2>2, <2>3
<1>9. CASE TakeDirty(Manager)
  <2>1. /\ pc = "take" /\ UNCHANGED <<executorHead, tail>>
        /\ seen[Manager] = tail /\ two /\ dirty[BatchId(tail)] = 2
    BY <1>2, <1>9 DEF TakeDirty
  <2>2. /\ xpc'[Manager] = "advance" /\ seen' = seen
        /\ dirty' = [dirty EXCEPT ![BatchId(tail)] = 0]
    BY <1>1, <1>3, <1>9, <2>1 DEF TakeDirty, IsFinished, Goto
  <2>3. ASSUME Capacity > 1, tail < executorHead
        PROVE  dirty'[BatchId(newest)] = 2
    <3>1. BatchId(tail) # BatchId(newest)
      BY <1>3, <2>1, <2>3, NextBatchDiffers
    <3>2. dirty[BatchId(newest)] = 2 /\ BatchId(newest) \in BatchIds
      <4>1. newest \in Nat
        BY <1>3, <2>1
      <4> QED  BY <1>2, <2>1, <2>3, <4>1, BatchIdInRange
    <3> QED  BY <1>3, <2>2, <3>1, <3>2
  <2> QED  BY <1>2, <2>1, <2>2, <2>3 DEF WarmupsInRing, Registered
<1>10. CASE AdvanceTail(Manager)
  <2>1. /\ pc = "advance" /\ UNCHANGED <<executorHead, dirty>>
        /\ seen[Manager] = tail /\ two
    BY <1>2, <1>10 DEF AdvanceTail
  <2>2. xpc'[Manager] = "move" /\ tail' = tail + BatchSize
    BY <1>1, <1>3, <1>4, <1>10, <2>1 DEF AdvanceTail
  <2>3. newest' = newest /\ newest = tail' /\ ~two' /\ newest <= tail' + BatchSize
    BY <1>3, <2>1, <2>2
  <2>4. tail < executorHead
    BY <1>3, <2>1
  <2> QED  BY <1>2, <2>1, <2>2, <2>3, <2>4 DEF WarmupsInRing, Registered
<1> QED  BY <1>1, <1>5, <1>6, <1>7, <1>8, <1>9, <1>10

LEMMA NextWord == Typed /\ Typed' /\ ClaimInv /\ WordInv /\ [Next]_vars => WordInv'
<1> SUFFICES ASSUME Typed, Typed', ClaimInv, WordInv, [Next]_vars PROVE WordInv'
  OBVIOUS
<1>1. CASE \E r \in Requests : RequestStep(r)
  BY <1>1, RequestWord DEF ClaimInv
<1>2. ASSUME NEW x \in Workers, WorkerStep(x) PROVE WordInv'
  <2>1. LoadsBehind'
    BY <1>2, WorkerLoads DEF WordInv
  <2>2. WarmupsInRing'
    BY <1>2, ExecutorWord, ManagerWord DEF WordInv, Workers
  <2> QED  BY <2>1, <2>2 DEF WordInv
<1>3. CASE UNCHANGED vars
  BY <1>3 DEF WordInv, LoadsBehind, WarmupsInRing, Registered
<1> QED  BY <1>1, <1>2, <1>3 DEF Next

-------------------------------------------------------------------------------
(***************************************************************************)
(* The decisions of a state.                                               *)
(***************************************************************************)
LEMMA LapsAreNumbers == Laps \subseteq Nat
<1>1. WordSize \div RingSize \in Int
  BY WordNumbers, SMT
<1> QED  BY <1>1 DEF Laps

\* A registered model keeps both heads within a lap of the tail.
LEMMA HeadsInRing ==
    ASSUME Typed, RingInv, WordInv, Registered
    PROVE  /\ tail <= head /\ head <= tail + RingSize
           /\ executorHead <= tail + RingSize
<1>1. executorHead <= tail + RingSize
  BY DEF WordInv, WarmupsInRing
<1>2. tail <= head /\ (head <= tail + RingSize \/ head <= executorHead)
  BY DEF RingInv, SlotInv, HeadInRing
<1> QED  BY <1>1, <1>2, Numbers

LEMMA RequestDecides ==
    ASSUME Typed, RingInv, WordInv, LoadsAreRecent, NEW r \in Requests,
           NEW lap \in Nat
    PROVE  RequestAgrees(r, lap)
<1> DEFINE W(index) == Word(index + lap * RingSize)
<1>1. rpc[r] # "new" => Registered
  BY DEF RingInv, ClaimInv, ManagerAlone
<1>2. at[r] \in Nat /\ tail \in Nat /\ head \in Nat
  BY Numbers, RequestNumbers
<1>3. ASSUME rpc[r] = "check"
      PROVE  IsFull(at[r], tail) = WordIsFull(W(at[r]), W(tail))
  <2>1. at[r] <= head /\ head <= tail + RingSize
    BY <1>1, <1>3, HeadsInRing DEF WordInv, LoadsBehind
  <2>2. at[r] - tail < WordSize
    BY <1>2, <2>1, WordNumbers
  <2>3. tail - at[r] <= WordSize - RingSize
    BY <1>3 DEF LoadsAreRecent
  <2> QED  BY <1>2, <2>2, <2>3, FullInWords
<1>4. /\ ChunkBatch(r) = WordBatchId(W(at[r]))
      /\ ChunkStart(r) = WordSlotId(W(at[r]))
  BY <1>2, WordBatch, WordSlot DEF ChunkBatch, ChunkStart
<1>5. HigherBound(at[r]) - at[r] = WrappingSub(WordHigherBound(W(at[r])), W(at[r]))
  <2>1. PICK h \in Nat : /\ h = HigherBound(at[r]) /\ at[r] < h
                         /\ h - at[r] <= BatchSize
    <3>1. /\ HigherBound(at[r]) \in Nat /\ at[r] < HigherBound(at[r])
          /\ LowerBound(at[r]) \in Nat /\ LowerBound(at[r]) <= at[r]
          /\ HigherBound(at[r]) = LowerBound(at[r]) + BatchSize
      BY <1>2, HigherBoundFacts, BatchOfIndex
    <3> QED  BY <1>2, <3>1, WordNumbers
  <2>2. WordHigherBound(W(at[r])) = W(h)
    BY <1>2, <2>1, WordBounds
  <2>3. /\ WrappingSub(W(h), W(at[r])) = (h - at[r]) % WordSize
        /\ 0 <= h - at[r] /\ h - at[r] < WordSize
             => (h - at[r]) % WordSize = h - at[r]
    BY <1>2, WordDistance
  <2>4. 0 <= h - at[r] /\ h - at[r] < WordSize
    BY <1>2, <2>1, WordNumbers
  <2> QED  BY <2>1, <2>2, <2>3, <2>4
<1> QED  BY <1>3, <1>4, <1>5 DEF RequestAgrees

LEMMA WorkerDecides ==
    ASSUME Typed, RingInv, WordInv, LoadsAreRecent, NEW x \in Workers,
           NEW lap \in Nat
    PROVE  WorkerAgrees(x, lap)
<1> DEFINE W(index) == Word(index + lap * RingSize)
           higher == WordHigherBound(W(idx[x]))
<1>0. ClaimInv
  BY DEF RingInv
<1>1. /\ head \in Nat /\ tail \in Nat /\ executorHead \in Nat
      /\ seen[x] \in Nat /\ idx[x] \in Nat
  BY Numbers
<1>2. xpc[x] \in {"check", "peek", "seal"} => x \in Executors /\ Registered
  BY <1>0 DEF ClaimInv, ManagerAlone, Workers
<1>3. ASSUME xpc[x] = "check"
      PROVE  IsFull(seen[x], tail) = WordIsFull(W(seen[x]), W(tail))
  <2>1. seen[x] <= executorHead /\ executorHead <= tail + RingSize
    BY <1>2, <1>3, HeadsInRing DEF WordInv, LoadsBehind
  <2>2. seen[x] - tail < WordSize
    BY <1>1, <2>1, WordNumbers
  <2>3. tail - seen[x] <= WordSize - RingSize
    BY <1>3 DEF LoadsAreRecent
  <2> QED  BY <1>1, <2>2, <2>3, FullInWords
<1>4. ASSUME xpc[x] \in {"peek", "seal"}
      PROVE  /\ (head < HigherBound(idx[x])) = WordBelow(W(head), higher)
             /\ OpenSlots(x) > 0 => OpenSlots(x) = WrappingSub(higher, W(head))
             /\ (head >= LowerBound(idx[x]))
                   = WordAtLeast(W(head), WordLowerBound(W(idx[x])))
  <2>1. /\ tail <= head /\ head <= tail + RingSize /\ x \in Executors /\ Active(x)
    BY <1>2, <1>4, HeadsInRing DEF Active
  <2>2. /\ LowerBound(idx[x]) = idx[x] /\ HigherBound(idx[x]) = idx[x] + BatchSize
        /\ idx[x] \in Window
    BY <1>0, <2>1, HeldBatch
  <2>3. tail <= idx[x] /\ idx[x] + BatchSize <= tail + RingSize
    BY <1>0, <1>4, <2>1 DEF ClaimInv, ClaimsBounded
  <2>4. PICK h \in Nat : h = idx[x] + BatchSize
    BY <1>1, WordNumbers
  <2>5. h - head <= RingSize /\ head - h <= WordSize - HALF_RANGE
    BY <1>1, <2>1, <2>3, <2>4, WordNumbers
  <2>6. head - idx[x] <= RingSize /\ idx[x] - head <= WordSize - HALF_RANGE
    BY <1>1, <2>1, <2>3, WordNumbers
  <2>7. higher = W(h) /\ WordLowerBound(W(idx[x])) = W(idx[x])
    BY <1>1, <2>2, <2>4, WordBounds
  <2>8. /\ (head < h) = WordBelow(W(head), W(h))
        /\ head < h => WrappingSub(W(h), W(head)) = h - head
    BY <1>1, <2>5, BelowInWords
  <2>9. (head >= idx[x]) = WordAtLeast(W(head), W(idx[x]))
    BY <1>1, <2>6, AtLeastInWords
  <2>10. OpenSlots(x) = IF head < h THEN h - head ELSE 0
    BY <2>2, <2>4 DEF OpenSlots
  <2> QED  BY <1>1, <2>2, <2>4, <2>7, <2>8, <2>9, <2>10
<1>5. ASSUME xpc[x] = "move_head"
      PROVE  StillOpen(seen[x]) = WordAtLeast(WordHigherBound(W(seen[x])), W(head))
  <2>1. /\ Aligned(seen[x]) /\ seen[x] <= tail /\ tail <= head
    BY <1>0, <1>5 DEF RingInv, SlotInv, HeadInRing, ClaimInv, ClaimsBounded,
                      WholeBatches
  <2>2. PICK h \in Nat : h = HigherBound(seen[x]) /\ h = seen[x] + BatchSize
    BY <1>1, <2>1, HigherBoundFacts, WordNumbers DEF Aligned
  <2>3. h - head <= RingSize
    BY <1>1, <2>1, <2>2, WordNumbers
  <2>4. head - h <= WordSize - HALF_RANGE
    BY <1>5, <2>2 DEF LoadsAreRecent
  <2>5. WordHigherBound(W(seen[x])) = W(h)
    BY <1>1, <2>2, WordBounds
  <2>6. (h >= head) = WordAtLeast(W(h), W(head))
    BY <1>1, <2>3, <2>4, AtLeastInWords
  <2> QED  BY <2>2, <2>5, <2>6 DEF StillOpen
<1> QED  BY <1>3, <1>4, <1>5 DEF WorkerAgrees

(***************************************************************************)
(* Every comparison and every mask of the code takes in machine words the  *)
(* decision it takes for indices that never wrap, on every lap of the      *)
(* usize range, for every ring smaller than HALF_RANGE, as long as no call *)
(* reserves more than the ring has free and no thread sleeps on an index   *)
(* for most of that range.                                                 *)
(***************************************************************************)
THEOREM WordsDecideAlike ==
    Spec /\ ReservesWithinRing /\ []LoadsAreRecent => []WordDecisionsAgree
<1>1. Init => RingInv /\ WordInv
  BY InitClaims, InitSlots, InitWord DEF RingInv
<1>2. Typed /\ RingInv /\ WordInv /\ LoadsAreRecent => WordDecisionsAgree
  BY LapsAreNumbers, RequestDecides, WorkerDecides DEF WordDecisionsAgree
<1>3. Typed /\ Typed' /\ RingInv /\ WordInv /\ [Next]_vars
        /\ [\A r \in Requests : Reserve(r) => WithinRing(r)]_vars
        => RingInv' /\ WordInv'
  BY RingInvKeeps, NextWord DEF RingInv
<1> QED  BY <1>1, <1>2, <1>3, TypedInvariant, PTL DEF Spec, ReservesWithinRing

(***************************************************************************)
(* The same, when a call brings one row, without the condition on it.      *)
(***************************************************************************)
THEOREM OneRowWordsDecideAlike ==
    ASSUME ReqSizes = {1}
    PROVE  Spec /\ []LoadsAreRecent => []WordDecisionsAgree
BY OneRowReserves, WordsDecideAlike, PTL

-------------------------------------------------------------------------------
(***************************************************************************)
(* The invariant that all of these rest on: claims, slots, answers, the    *)
(* runs of each row and the loaded indices, in every state of every ring   *)
(* whose calls reserve no more than it has free.                           *)
(***************************************************************************)
THEOREM RingStaysConsistent ==
    ASSUME RowWidth = 1
    PROVE  Spec /\ ReservesWithinRing => []SuperTensorInvariant
<1>1. Init => WordInv
  BY InitWord
<1>2. Typed /\ Typed' /\ RingInv /\ WordInv /\ [Next]_vars => WordInv'
  BY NextWord DEF RingInv
<1>3. Spec /\ ReservesWithinRing => [](RingInv /\ CellInv /\ DeadlineOnce)
  BY ReservesWithinRingKeeps
<1>4. RingFacts /\ RingInv /\ CellInv /\ DeadlineOnce /\ WordInv
        => SuperTensorInvariant
  BY DEF RingFacts, SuperTensorInvariant, AnswerInv
<1> QED  BY <1>1, <1>2, <1>3, <1>4, RingFactsHold, TypedInvariant, PTL DEF Spec

(***************************************************************************)
(* The same with no condition on the run, when a call brings one row.      *)
(***************************************************************************)
THEOREM OneRowRingStaysConsistent ==
    ASSUME RowWidth = 1, ReqSizes = {1}
    PROVE  Spec => []SuperTensorInvariant
BY OneRowReserves, RingStaysConsistent, PTL
=============================================================================
