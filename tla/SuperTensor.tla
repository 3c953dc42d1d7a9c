----------------------------- MODULE SuperTensor -----------------------------
(***************************************************************************)
(* The SuperTensor of one model (tensor/supertensor.rs): a ring of         *)
(* Capacity batches of BatchSize slots, filled by the request tasks of the *)
(* processing cores, run batch by batch by the executors (one session      *)
(* thread each), and warmed up by the manager before the model is          *)
(* registered.                                                             *)
(*                                                                         *)
(* One action is what a thread does between two accesses to shared state   *)
(* whose order with other threads matters.  Atomics are sequentially       *)
(* consistent and compare_exchange_weak fails only when the value changed, *)
(* which is what the x86-64 build gives.                                   *)
(***************************************************************************)
EXTENDS RingIndex, Sequences, FiniteSets

CONSTANTS Requests,        \* gRPC inference calls, each issued once
          Executors,       \* session threads of the model
          Manager,         \* the model manager thread, which runs the warmups
          ReqSizes,        \* rows a request may carry (dim 0 of its inputs)
          ProcessingCores, \* threads that can be inside `infer` at a time
          Warmups,         \* warmup runs before the model is registered
          RowWidth,        \* elements of one row of the output tensor
          InputSupported,  \* can the model's input element type be copied?
          Outcomes         \* results a run may have: TRUE is Ok, FALSE an Err

ASSUME ManagerAssumption  == Manager \notin Executors
ASSUME ReqSizesAssumption == ReqSizes \subseteq Nat \ {0}
ASSUME LoadAssumption     == ProcessingCores \in Nat /\ Warmups \in Nat
ASSUME ModelAssumption    == /\ RowWidth \in Nat \ {0}
                             /\ InputSupported \in BOOLEAN
                             /\ Outcomes \subseteq BOOLEAN

VARIABLES
    head,          \* next slot a request reserves
    executorHead,  \* first slot of the next batch an executor claims
    tail,          \* first slot of the oldest batch not given back
    buffer,        \* input_tensors: the row each slot of each batch holds
    dirty,         \* trackers[b].dirty: 0 free, 1 in use, 2 finished
    writtenSlots,  \* trackers[b].written_slots
    state,         \* trackers[b].state: the current BatchState of each batch
    outputs,       \* output cells set so far, each of one BatchState
    rpc,           \* where each request is
    size,          \* rows of each request
    at,            \* current_head of the request inside `infer`
    sent,          \* rows already published (input_start)
    resv,          \* its WriteReservations, oldest first
    answer,        \* output elements handed to its caller
    xpc,           \* where each worker is
    seen,          \* index the worker loaded and has not yet used
    idx,           \* current_executor_idx of the worker
    open,          \* remaining_open_slots of the batch being sealed
    panicked       \* "none", or the assertion that aborted the process

ringVars    == <<head, executorHead, tail>>
trackerVars == <<buffer, dirty, writtenSlots, state, outputs>>
requestVars == <<rpc, size, at, sent, resv, answer>>
workerVars  == <<xpc, seen, idx, open>>
vars == <<ringVars, trackerVars, requestVars, workerVars, panicked>>

Workers == Executors \cup {Manager}

\* Row i of request r is <<r, i>>; a slot that was never written holds NoRow.
NoRow == <<>>
Rows  == (Requests \X Nat) \cup {NoRow}

BatchState  == [deadline : BOOLEAN, permit : BOOLEAN, gen : Nat]
Reservation == {e \in [batch : BatchIds, gen : Nat, start : SlotIds,
                       end : 0 .. BatchSize] : e.start <= e.end}
OutputCell  == [batch : BatchIds, gen : Nat, ok : BOOLEAN,
                rows : [SlotIds -> Rows]]

RequestStates == {"new", "check", "retry", "reserve", "write", "publish",
                  "notify", "wait", "ok", "ring_full", "error"}
WorkerStates  == {"idle", "check", "listen", "asleep", "claim", "await_first",
                  "peek", "await_full", "seal", "spin", "run", "reset",
                  "move", "move_head", "take", "advance"}

Init ==
    /\ head = 0 /\ executorHead = 0 /\ tail = 0
    /\ buffer       = [b \in BatchIds |-> [s \in SlotIds |-> NoRow]]
    /\ dirty        = [b \in BatchIds |-> 0]
    /\ writtenSlots = [b \in BatchIds |-> 0]
    /\ state = [b \in BatchIds |->
                    [deadline |-> FALSE, permit |-> FALSE, gen |-> 0]]
    /\ outputs = {}
    /\ rpc    = [r \in Requests |-> "new"]
    /\ size \in [Requests -> ReqSizes]
    /\ at     = [r \in Requests |-> 0]
    /\ sent   = [r \in Requests |-> 0]
    /\ resv   = [r \in Requests |-> <<>>]
    /\ answer = [r \in Requests |-> <<>>]
    /\ xpc  = [x \in Workers |-> "idle"]
    /\ seen = [x \in Workers |-> 0]
    /\ idx  = [x \in Workers |-> 0]
    /\ open = [x \in Workers |-> 0]
    /\ panicked = "none"

-------------------------------------------------------------------------------
(***************************************************************************)
(* The request side: `infer`, `insert_tensors_at`, `get_data`.             *)
(***************************************************************************)

\* The model is put in the served map only after its last warmup returned.
Registered == executorHead >= Warmups * BatchSize /\ xpc[Manager] = "idle"

\* `infer` never awaits: a core is busy with one request until it returns.
Inside(r) == rpc[r] \in {"check", "retry", "reserve", "write", "publish",
                         "notify"}
CoreIsFree == Cardinality({r \in Requests : Inside(r)}) < ProcessingCores

\* Rows of r that fit in the batch it is writing to.
ChunkSize(r) ==
    LET left == size[r] - sent[r]
        room == HigherBound(at[r]) - at[r]
    IN  IF left < room THEN left ELSE room

ChunkBatch(r) == BatchId(at[r])
ChunkStart(r) == SlotId(at[r])
ChunkEnd(r)   == ChunkStart(r) + ChunkSize(r)

LoadHead(r) ==
    /\ \/ rpc[r] = "new" /\ Registered /\ CoreIsFree
       \/ rpc[r] = "retry"
    /\ at'  = [at EXCEPT ![r] = head]
    /\ rpc' = [rpc EXCEPT ![r] = "check"]
    /\ UNCHANGED <<ringVars, trackerVars, size, sent, resv, answer,
                   workerVars, panicked>>

CheckFull(r) ==
    /\ rpc[r] = "check"
    /\ rpc' = [rpc EXCEPT ![r] = IF IsFull(at[r], tail) THEN "ring_full"
                                                        ELSE "reserve"]
    /\ UNCHANGED <<ringVars, trackerVars, size, at, sent, resv, answer,
                   workerVars, panicked>>

\* Fault: head is stored without comparing it with the loaded value.
AlwaysUnchanged(r) == rpc[r] = "reserve"

HeadUnchanged(r) == head = at[r]

\* The compare-and-exchange of head; when it fails, start over.
Reserve(r) ==
    /\ rpc[r] = "reserve"
    /\ IF HeadUnchanged(r)
       THEN /\ head' = at[r] + size[r]
            /\ rpc'  = [rpc EXCEPT ![r] = "write"]
       ELSE /\ head' = head
            /\ rpc'  = [rpc EXCEPT ![r] = "retry"]
    /\ UNCHANGED <<executorHead, tail, trackerVars, size, at, sent, resv,
                   answer, workerVars, panicked>>

\* Fault: input_start is not carried over to the next chunk.
RowsFromStart(r) ==
    [s \in SlotIds |->
        IF s \in ChunkStart(r) .. ChunkEnd(r) - 1
        THEN <<r, s - ChunkStart(r)>>
        ELSE buffer[ChunkBatch(r)][s]]

\* The batch's buffer once the current chunk of r has been copied into it.
CopiedRows(r) ==
    [s \in SlotIds |->
        IF s \in ChunkStart(r) .. ChunkEnd(r) - 1
        THEN <<r, sent[r] + s - ChunkStart(r)>>
        ELSE buffer[ChunkBatch(r)][s]]

\* Copy the rows; the writer of slot 0 opens the batch and starts its timer.
WriteChunk(r) ==
    LET b == ChunkBatch(r) IN
    /\ rpc[r] = "write"
    /\ IF ~InputSupported
       THEN /\ rpc' = [rpc EXCEPT ![r] = "error"]
            /\ UNCHANGED <<trackerVars, panicked>>
       ELSE /\ buffer' = [buffer EXCEPT ![b] = CopiedRows(r)]
            /\ rpc' = [rpc EXCEPT ![r] = "publish"]
            /\ IF ChunkStart(r) = 0
               THEN /\ dirty' = [dirty EXCEPT ![b] = 1]
                    /\ state' = [state EXCEPT ![b].deadline = TRUE]
                    /\ panicked' = IF state[b].deadline
                                   THEN "deadline_set_twice" ELSE "none"
               ELSE UNCHANGED <<dirty, state, panicked>>
            /\ UNCHANGED <<writtenSlots, outputs>>
    /\ UNCHANGED <<ringVars, size, at, sent, resv, answer, workerVars>>

\* Fault: only a full batch wakes its executor.
NotifyWhenFull(r) == ChunkEnd(r) = BatchSize

\* The writers of the first and of the last slot wake the executor.
MustNotify(r) == ChunkStart(r) = 0 \/ ChunkEnd(r) = BatchSize

\* r is done with its chunk: it goes on with the next batch, or waits.
NextChunk(r) ==
    LET sentNow == sent[r] + ChunkSize(r) IN
    /\ sent' = [sent EXCEPT ![r] = sentNow]
    /\ at'   = [at EXCEPT ![r] = IF sentNow = size[r] THEN @
                                 ELSE HigherBound(@)]
    /\ rpc'  = [rpc EXCEPT ![r] = IF sentNow = size[r] THEN "wait"
                                                       ELSE "write"]

\* WriteReservation::new: hold the batch's output cell, then account the rows.
Publish(r) ==
    LET b == ChunkBatch(r) IN
    /\ rpc[r] = "publish"
    /\ resv' = [resv EXCEPT ![r] = Append(@,
                    [batch |-> b, gen |-> state[b].gen,
                     start |-> ChunkStart(r), end |-> ChunkEnd(r)])]
    /\ writtenSlots' = [writtenSlots EXCEPT ![b] = @ + ChunkSize(r)]
    /\ IF MustNotify(r)
       THEN rpc' = [rpc EXCEPT ![r] = "notify"] /\ UNCHANGED <<sent, at>>
       ELSE NextChunk(r)
    /\ UNCHANGED <<ringVars, buffer, dirty, state, outputs, size, answer,
                   workerVars, panicked>>

\* executor_notifier.notify_one() on whatever BatchState the batch has by now.
NotifyExecutor(r) ==
    /\ rpc[r] = "notify"
    /\ state' = [state EXCEPT ![ChunkBatch(r)].permit = TRUE]
    /\ NextChunk(r)
    /\ UNCHANGED <<ringVars, buffer, dirty, writtenSlots, outputs, size, resv,
                   answer, workerVars, panicked>>

\* Fault: the slice starts one element late.
SliceShifted(cell, start, end) ==
    [k \in 1 .. end - start |->
        LET element == start + k
        IN  <<cell.rows[(element % BatchSize) \div RowWidth],
              element % RowWidth>>]

\* value_as_byte_slice: elements start .. end - 1 of the flattened output.
SliceOf(cell, start, end) ==
    [k \in 1 .. end - start |->
        LET element == start + k - 1
        IN  <<cell.rows[element \div RowWidth], element % RowWidth>>]

\* get_result of the oldest reservation left; an Err ends the whole request.
Collect(r) ==
    /\ rpc[r] = "wait" /\ resv[r] # <<>>
    /\ \E cell \in outputs :
        LET res == Head(resv[r]) IN
        /\ cell.batch = res.batch /\ cell.gen = res.gen
        /\ IF cell.ok
           THEN /\ answer' = [answer EXCEPT ![r] =
                                  @ \o SliceOf(cell, res.start, res.end)]
                /\ resv' = [resv EXCEPT ![r] = Tail(@)]
                /\ rpc'  = [rpc EXCEPT ![r] = IF Tail(resv[r]) = <<>>
                                              THEN "ok" ELSE "wait"]
           ELSE /\ rpc' = [rpc EXCEPT ![r] = "error"]
                /\ UNCHANGED <<answer, resv>>
    /\ UNCHANGED <<ringVars, trackerVars, size, at, sent, workerVars, panicked>>

-------------------------------------------------------------------------------
(***************************************************************************)
(* The executor side: `execute_on_batch`.                                  *)
(***************************************************************************)

Goto(x, pc) == xpc' = [xpc EXCEPT ![x] = pc]

LoadExecutorHead(x) ==
    /\ x \in Executors /\ xpc[x] = "idle" /\ Registered
    /\ seen' = [seen EXCEPT ![x] = executorHead]
    /\ Goto(x, "check")
    /\ UNCHANGED <<ringVars, trackerVars, requestVars, idx, open, panicked>>

CheckRoom(x) ==
    /\ xpc[x] = "check"
    /\ Goto(x, IF IsFull(seen[x], tail) THEN "listen" ELSE "claim")
    /\ UNCHANGED <<ringVars, trackerVars, requestVars, seen, idx, open,
                   panicked>>

\* From here on a move of the tail wakes x; one before this step does not.
Listen(x) ==
    /\ xpc[x] = "listen"
    /\ Goto(x, "asleep")
    /\ UNCHANGED <<ringVars, trackerVars, requestVars, seen, idx, open,
                   panicked>>

Claim(x) ==
    /\ xpc[x] = "claim"
    /\ IF executorHead = seen[x]
       THEN /\ executorHead' = executorHead + BatchSize
            /\ idx' = [idx EXCEPT ![x] = seen[x]]
            /\ Goto(x, "await_first")
       ELSE /\ UNCHANGED <<executorHead, idx>>
            /\ Goto(x, "idle")
    /\ UNCHANGED <<head, tail, trackerVars, requestVars, seen, open, panicked>>

AwaitFirst(x) ==
    LET b == BatchId(idx[x]) IN
    /\ xpc[x] = "await_first" /\ state[b].permit
    /\ state' = [state EXCEPT ![b].permit = FALSE]
    /\ Goto(x, "peek")
    /\ UNCHANGED <<ringVars, buffer, dirty, writtenSlots, outputs, requestVars,
                   seen, idx, open, panicked>>

\* Wait for more rows only while the batch is open and its timer is running.
Peek(x) ==
    /\ xpc[x] = "peek"
    /\ Goto(x, IF head < HigherBound(idx[x]) /\ state[BatchId(idx[x])].deadline
               THEN "await_full" ELSE "seal")
    /\ UNCHANGED <<ringVars, trackerVars, requestVars, seen, idx, open,
                   panicked>>

DeadlineExpires(x) ==
    /\ xpc[x] = "await_full"
    /\ Goto(x, "seal")
    /\ UNCHANGED <<ringVars, trackerVars, requestVars, seen, idx, open,
                   panicked>>

AwaitFull(x) ==
    LET b == BatchId(idx[x]) IN
    /\ xpc[x] = "await_full" /\ state[b].permit
    /\ state' = [state EXCEPT ![b].permit = FALSE]
    /\ Goto(x, "seal")
    /\ UNCHANGED <<ringVars, buffer, dirty, writtenSlots, outputs, requestVars,
                   seen, idx, open, panicked>>

\* Fault: the distance is taken without looking whether head left the batch.
UncheckedOpenSlots(x) == HigherBound(idx[x]) - head

\* Slots of the batch of x that nobody reserved.
OpenSlots(x) ==
    IF head < HigherBound(idx[x]) THEN HigherBound(idx[x]) - head ELSE 0

\* seal_current_batch, first loop: skip the slots nobody reserved.
Seal(x) ==
    /\ xpc[x] = "seal"
    /\ IF head < LowerBound(idx[x])
       THEN /\ panicked' = "sealed_before_written"
            /\ UNCHANGED <<head, workerVars>>
       ELSE /\ head' = head + OpenSlots(x)
            /\ open' = [open EXCEPT ![x] = OpenSlots(x)]
            /\ Goto(x, "spin")
            /\ UNCHANGED <<seen, idx, panicked>>
    /\ UNCHANGED <<executorHead, tail, trackerVars, requestVars>>

\* seal_current_batch, second loop: spin until the reserved slots are written.
SpinWritten(x) ==
    LET written  == writtenSlots[BatchId(idx[x])]
        expected == BatchSize - open[x]
    IN  /\ xpc[x] = "spin" /\ written >= expected
        /\ IF written > expected
           THEN panicked' = "written_too_often" /\ UNCHANGED xpc
           ELSE Goto(x, "run") /\ UNCHANGED panicked
        /\ UNCHANGED <<ringVars, trackerVars, requestVars, seen, idx, open>>

\* Fault: a failed run leaves its output cell empty.
ResultUnlessError(b, ok) ==
    IF ok THEN {[batch |-> b, gen |-> state[b].gen, ok |-> ok,
                 rows |-> buffer[b]]}
          ELSE {}

\* What a run leaves in the output cell of the BatchState.
RunResult(b, ok) ==
    {[batch |-> b, gen |-> state[b].gen, ok |-> ok, rows |-> buffer[b]]}

\* execute_current_batch: the model maps row s of the input to row s of the
\* output; the result goes to the BatchState's cell and wakes its holders.
Finish(x) ==
    LET b == BatchId(idx[x]) IN
    /\ xpc[x] = "run"
    /\ \E ok \in Outcomes : outputs' = outputs \cup RunResult(b, ok)
    /\ panicked' = IF \E cell \in outputs : /\ cell.batch = b
                                            /\ cell.gen = state[b].gen
                   THEN "output_set_twice" ELSE "none"
    /\ Goto(x, "reset")
    /\ UNCHANGED <<ringVars, buffer, dirty, writtenSlots, state, requestVars,
                   seen, idx, open>>

\* Manager::load_model runs the warmups one after the other, before any other
\* thread knows the buffer.  The result of the run is dropped.
Warmup(x) ==
    /\ x = Manager /\ xpc[x] = "idle" /\ executorHead < Warmups * BatchSize
    /\ head' = head + BatchSize
    /\ executorHead' = executorHead + BatchSize
    /\ idx' = [idx EXCEPT ![x] = head]
    /\ dirty' = [dirty EXCEPT ![BatchId(head)] = 1]
    /\ Goto(x, "reset")
    /\ UNCHANGED <<tail, buffer, writtenSlots, state, outputs, requestVars,
                   seen, open, panicked>>

\* Fault: the deadline survives the reset.
StateKeepingDeadline(old) == [old EXCEPT !.permit = FALSE, !.gen = @ + 1]

\* BatchState::new() in the place of the old one.
FreshState(old) == [deadline |-> FALSE, permit |-> FALSE, gen |-> old.gen + 1]

ResetBatch(x) ==
    LET b == BatchId(idx[x]) IN
    /\ xpc[x] = "reset"
    /\ state' = [state EXCEPT ![b] = FreshState(@)]
    /\ writtenSlots' = [writtenSlots EXCEPT ![b] = 0]
    /\ dirty' = [dirty EXCEPT ![b] = 2]
    /\ Goto(x, "move")
    /\ UNCHANGED <<ringVars, buffer, outputs, requestVars, seen, idx, open,
                   panicked>>

-------------------------------------------------------------------------------
(***************************************************************************)
(* `move_tail_to_next_non_dirty_buffer`.                                   *)
(***************************************************************************)

LoadTail(x) ==
    /\ xpc[x] = "move"
    /\ seen' = [seen EXCEPT ![x] = tail]
    /\ Goto(x, "move_head")
    /\ UNCHANGED <<ringVars, trackerVars, requestVars, idx, open, panicked>>

\* The worker returns; its locals go out of scope.
Return(x) ==
    /\ xpc'  = [xpc EXCEPT ![x] = "idle"]
    /\ seen' = [seen EXCEPT ![x] = 0]
    /\ idx'  = [idx EXCEPT ![x] = 0]
    /\ open' = [open EXCEPT ![x] = 0]

StillOpen(index) == HigherBound(index) >= head

\* A batch that head has not left yet is not given back.
CheckHead(x) ==
    /\ xpc[x] = "move_head"
    /\ IF StillOpen(seen[x])
       THEN Return(x)
       ELSE Goto(x, "take") /\ UNCHANGED <<seen, idx, open>>
    /\ UNCHANGED <<ringVars, trackerVars, requestVars, panicked>>

\* Fault: a batch in use passes for a finished one.
IsNotFree(b) == dirty[b] # 0

IsFinished(b) == dirty[b] = 2

TakeDirty(x) ==
    LET b == BatchId(seen[x]) IN
    /\ xpc[x] = "take"
    /\ IF IsFinished(b)
       THEN /\ dirty' = [dirty EXCEPT ![b] = 0]
            /\ Goto(x, "advance")
            /\ UNCHANGED <<seen, idx, open>>
       ELSE Return(x) /\ UNCHANGED dirty
    /\ UNCHANGED <<ringVars, buffer, writtenSlots, state, outputs, requestVars,
                   panicked>>

\* Advancing the tail wakes every executor that waits for room.
AdvanceTail(x) ==
    /\ xpc[x] = "advance"
    /\ IF tail = seen[x]
       THEN /\ tail' = HigherBound(seen[x])
            /\ xpc' = [y \in Workers |-> IF y = x THEN "move"
                                         ELSE IF xpc[y] = "asleep" THEN "idle"
                                         ELSE xpc[y]]
            /\ UNCHANGED <<seen, idx, open>>
       ELSE Return(x) /\ UNCHANGED tail
    /\ UNCHANGED <<head, executorHead, trackerVars, requestVars, panicked>>

-------------------------------------------------------------------------------
RequestStep(r) ==
    \/ LoadHead(r) \/ CheckFull(r) \/ Reserve(r) \/ WriteChunk(r)
    \/ Publish(r) \/ NotifyExecutor(r) \/ Collect(r)

WorkerStep(x) ==
    \/ LoadExecutorHead(x) \/ CheckRoom(x) \/ Listen(x) \/ Claim(x)
    \/ AwaitFirst(x) \/ Peek(x) \/ DeadlineExpires(x) \/ AwaitFull(x)
    \/ Seal(x) \/ SpinWritten(x) \/ Finish(x) \/ Warmup(x) \/ ResetBatch(x)
    \/ LoadTail(x) \/ CheckHead(x) \/ TakeDirty(x) \/ AdvanceTail(x)

\* panic = "abort": a failed assertion ends the whole process.
Next ==
    /\ panicked = "none"
    /\ \/ \E r \in Requests : RequestStep(r)
       \/ \E x \in Workers : WorkerStep(x)

Spec == Init /\ [][Next]_vars

\* Every thread keeps running and every timer fires; no call has to arrive.
Fairness ==
    /\ \A r \in Requests : WF_vars(panicked = "none" /\ rpc[r] # "new"
                                   /\ RequestStep(r))
    /\ \A x \in Workers : WF_vars(panicked = "none" /\ WorkerStep(x))

FairSpec == Spec /\ Fairness
-------------------------------------------------------------------------------
(***************************************************************************)
(* Properties.                                                             *)
(***************************************************************************)

\* Every variable holds a value of its type.
TypeOK ==
    /\ head \in Nat /\ executorHead \in Nat /\ tail \in Nat
    /\ buffer \in [BatchIds -> [SlotIds -> Rows]]
    /\ dirty \in [BatchIds -> 0 .. 2]
    /\ writtenSlots \in [BatchIds -> Nat]
    /\ state \in [BatchIds -> BatchState]
    /\ outputs \subseteq OutputCell
    /\ rpc \in [Requests -> RequestStates]
    /\ size \in [Requests -> ReqSizes]
    /\ at \in [Requests -> Nat] /\ sent \in [Requests -> Nat]
    /\ resv \in [Requests -> Seq(Reservation)]
    /\ answer \in [Requests -> Seq(Rows \X Nat)]
    /\ xpc \in [Workers -> WorkerStates]
    /\ seen \in [Workers -> Nat] /\ idx \in [Workers -> Nat]
    /\ open \in [Workers -> Nat]
    /\ panicked \in {"none", "deadline_set_twice", "sealed_before_written",
                     "written_too_often", "output_set_twice"}

\* A batch is in the hands of the worker that claimed it until it is reset.
Active(x) == xpc[x] \in {"await_first", "peek", "await_full", "seal", "spin",
                         "run", "reset"}

(***************************************************************************)
(* The claimed batches lie between the tail and one lap above it and no    *)
(* two executors hold the same one: the tail never passes a batch that is  *)
(* not finished, so a batch's memory is not handed out again while its     *)
(* executor still uses it (the `dirty` protocol of reset_batch and         *)
(* move_tail_to_next_non_dirty_buffer, and the check of executor_head).    *)
(***************************************************************************)
ClaimsInRing ==
    /\ \A x \in Executors :
        Active(x) => tail <= idx[x] /\ idx[x] + BatchSize <= tail + RingSize
    /\ \A x, y \in Executors :
        x # y /\ Active(x) /\ Active(y) => BatchId(idx[x]) # BatchId(idx[y])

WriteRange(r) == {ChunkBatch(r)} \X (ChunkStart(r) .. ChunkEnd(r) - 1)

(***************************************************************************)
(* "Isolation of portions of the vector is guaranteed by reserved_slots    *)
(* atomics" (insert_tensors_at): no two requests copy into the same slot   *)
(* at once, and nobody copies into a batch while the session reads it.     *)
(***************************************************************************)
SlotIsolation ==
    \A r \in Requests : rpc[r] = "write" =>
        /\ \A q \in Requests \ {r} :
            rpc[q] = "write" => WriteRange(r) \cap WriteRange(q) = {}
        /\ \A x \in Workers : xpc[x] = "run" => BatchId(idx[x]) # ChunkBatch(r)

\* The elements the model computes from the rows of r, in order.
Expected(r) ==
    [k \in 1 .. size[r] * RowWidth |->
        <<<<r, (k - 1) \div RowWidth>>, (k - 1) % RowWidth>>]

(***************************************************************************)
(* A caller gets back the outputs of its own rows, all of them, in order:  *)
(* "the processing cores slice the output back to each waiting caller".    *)
(***************************************************************************)
OwnAnswer == \A r \in Requests : rpc[r] = "ok" => answer[r] = Expected(r)

(***************************************************************************)
(* A WriteReservation can always be served: its output cell is set, or it  *)
(* is the cell of the BatchState its batch still has.  A reservation left  *)
(* on a replaced BatchState without output would wait for ever.            *)
(***************************************************************************)
NoOrphanReservation ==
    \A r \in Requests : \A i \in DOMAIN resv[r] :
        \/ state[resv[r][i].batch].gen = resv[r][i].gen
        \/ \E cell \in outputs : /\ cell.batch = resv[r][i].batch
                                 /\ cell.gen = resv[r][i].gen

\* No assertion of the code fails: a failure aborts every model of the server.
NoPanic == panicked = "none"

Returned(r) == rpc[r] \in {"ok", "ring_full", "error"}

\* Nothing is left to do: every call returned and every executor waits.
Quiescent ==
    /\ Registered
    /\ \A r \in Requests : rpc[r] = "new" \/ Returned(r)
    /\ \A x \in Executors : \/ xpc[x] = "asleep"
                            \/ /\ xpc[x] = "await_first"
                               /\ ~state[BatchId(idx[x])].permit

(***************************************************************************)
(* An idle model still serves: the ring has room, and the batch the next   *)
(* request will open is clean and already claimed by a waiting executor.   *)
(* A tail that got stuck, a `dirty` flag that got lost or a wake-up that   *)
(* came too early would leave the model refusing every request for ever.   *)
(***************************************************************************)
IdleModelServes ==
    Quiescent =>
        /\ ~IsFull(head, tail)
        /\ SlotId(head) = 0
        /\ writtenSlots[BatchId(head)] = 0 /\ ~state[BatchId(head)].deadline
        /\ \E x \in Executors : xpc[x] = "await_first" /\ idx[x] = head

(***************************************************************************)
(* Every call that entered `infer` returns to its caller, with its rows or *)
(* with an error: no notification is lost between the request that fills a *)
(* batch, its executor, and the requests that wait for the output.         *)
(***************************************************************************)
EveryCallReturns == \A r \in Requests : (rpc[r] # "new") ~> Returned(r)

(***************************************************************************)
(* "Batch is being sealed but not even written yet": no executor seals a   *)
(* batch that head has not reached (the assertion of seal_current_batch).  *)
(***************************************************************************)
NeverSealedUnwritten == panicked # "sealed_before_written"
==============================================================================
