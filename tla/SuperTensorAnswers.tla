-------------------------- MODULE SuperTensorAnswers --------------------------
(***************************************************************************)
(* What comes out of the ring, for every instance: a reservation can       *)
(* always be served, which assertions of the code never fail, every caller *)
(* gets the outputs of its own rows, and an idle model still serves.       *)
(***************************************************************************)
EXTENDS SuperTensorProofs

USE DEF ringVars, trackerVars, requestVars, workerVars, vars

(***************************************************************************)
(* The types of the reservations and of the cells.                         *)
(***************************************************************************)
LEMMA ReservationNumbers ==
    ASSUME NEW e \in Reservation
    PROVE  /\ e.batch \in BatchIds /\ e.gen \in Nat
           /\ e.start \in Nat /\ e.end \in Nat
           /\ e.start <= e.end /\ e.end <= BatchSize
           /\ \A s \in e.start .. e.end - 1 : s \in SlotIds /\ s \in Nat
<1>1. /\ e.batch \in BatchIds /\ e.gen \in Nat /\ e.start \in SlotIds
      /\ e.end \in 0 .. BatchSize /\ e.start <= e.end
  BY DEF Reservation
<1>2. /\ e.start \in Nat /\ e.end \in Nat /\ e.end <= BatchSize
  BY <1>1, Numbers, BatchSizeAssumption, SMT DEF SlotIds
<1>3. \A s \in e.start .. e.end - 1 : s \in SlotIds /\ s \in Nat
  BY <1>1, <1>2, BatchSizeAssumption, SMT DEF SlotIds
<1> QED  BY <1>1, <1>2, <1>3

LEMMA HeldReservation ==
    ASSUME Typed, NEW r \in Requests
    PROVE  /\ resv[r] \in Seq(Reservation) /\ Len(resv[r]) \in Nat
           /\ \A k \in 1 .. Len(resv[r]) : resv[r][k] \in Reservation
           /\ DOMAIN resv[r] = 1 .. Len(resv[r])
BY SMT DEF Typed, TypeOK

LEMMA CellNumbers ==
    ASSUME Typed, NEW cell \in outputs
    PROVE  /\ cell.batch \in BatchIds /\ cell.gen \in Nat
           /\ state[cell.batch].gen \in Nat
BY DEF Typed, TypeOK, OutputCell, BatchState

LEMMA GenNat ==
    ASSUME Typed, NEW b \in BatchIds PROVE state[b].gen \in Nat
BY DEF Typed, TypeOK, BatchState

-------------------------------------------------------------------------------
(***************************************************************************)
(* The steps, as far as reservations and cells are concerned.              *)
(***************************************************************************)

\* A request sets no cell and replaces no BatchState; it makes one
\* reservation on the BatchState of its batch, or gives its oldest one back.
LEMMA RequestCellFrame ==
    ASSUME Typed, NEW r \in Requests, RequestStep(r)
    PROVE  /\ UNCHANGED <<outputs, workerVars, size>>
           /\ \A b \in BatchIds : state'[b].gen = state[b].gen
           /\ \A q \in Requests \ {r} : /\ rpc'[q] = rpc[q] /\ resv'[q] = resv[q]
                                        /\ sent'[q] = sent[q] /\ at'[q] = at[q]
                                        /\ answer'[q] = answer[q]
           /\ rpc'[r] # "new"
           /\ \/ resv'[r] = resv[r]
              \/ resv[r] # <<>> /\ resv'[r] = Tail(resv[r])
              \/ resv'[r] = Append(resv[r],
                    [batch |-> ChunkBatch(r), gen |-> state[ChunkBatch(r)].gen,
                     start |-> ChunkStart(r), end |-> ChunkEnd(r)])
<1> DEFINE Frame ==
      /\ UNCHANGED <<outputs, workerVars, size>>
      /\ \A b \in BatchIds : state'[b].gen = state[b].gen
      /\ \A q \in Requests \ {r} : /\ rpc'[q] = rpc[q] /\ resv'[q] = resv[q]
                                   /\ sent'[q] = sent[q] /\ at'[q] = at[q]
                                   /\ answer'[q] = answer[q]
      /\ rpc'[r] # "new"
<1>1. CASE LoadHead(r)
  BY <1>1 DEF LoadHead, Typed, TypeOK
<1>2. CASE CheckFull(r)
  BY <1>2 DEF CheckFull, Typed, TypeOK
<1>3. CASE Reserve(r)
  BY <1>3 DEF Reserve, Typed, TypeOK
<1>4. CASE WriteChunk(r)
  <2>1. /\ UNCHANGED <<outputs, workerVars, size, at, sent, resv, answer>>
        /\ \A q \in Requests \ {r} : rpc'[q] = rpc[q]
        /\ rpc'[r] # "new"
    BY <1>4 DEF WriteChunk, Typed, TypeOK
  <2>2. state' = state \/ state' = [state EXCEPT ![ChunkBatch(r)].deadline = TRUE]
    BY <1>4 DEF WriteChunk
  <2>3. CASE state' = [state EXCEPT ![ChunkBatch(r)].deadline = TRUE]
    <3>1. \A b \in BatchIds : state'[b].gen = state[b].gen
      BY <2>3 DEF Typed, TypeOK, BatchState
    <3> QED  BY <2>1, <3>1
  <2> QED  BY <2>1, <2>2, <2>3
<1>5. CASE Publish(r)
  <2>1. Frame
    BY <1>5 DEF Publish, NextChunk, Typed, TypeOK
  <2>2. resv'[r] = Append(resv[r],
            [batch |-> ChunkBatch(r), gen |-> state[ChunkBatch(r)].gen,
             start |-> ChunkStart(r), end |-> ChunkEnd(r)])
    BY <1>5 DEF Publish, Typed, TypeOK
  <2> QED  BY <2>1, <2>2
<1>6. CASE NotifyExecutor(r)
  <2>1. /\ UNCHANGED <<outputs, workerVars, size, resv, answer>>
        /\ \A q \in Requests \ {r} :
             rpc'[q] = rpc[q] /\ sent'[q] = sent[q] /\ at'[q] = at[q]
        /\ rpc'[r] # "new"
    BY <1>6 DEF NotifyExecutor, NextChunk, Typed, TypeOK
  <2>2. state' = [state EXCEPT ![ChunkBatch(r)].permit = TRUE]
    BY <1>6 DEF NotifyExecutor
  <2>3. \A b \in BatchIds : state'[b].gen = state[b].gen
    BY <2>2 DEF Typed, TypeOK, BatchState
  <2> QED  BY <2>1, <2>3
<1>7. CASE Collect(r)
  BY <1>7 DEF Collect, Typed, TypeOK
<1> QED  BY <1>1, <1>2, <1>3, <1>4, <1>5, <1>6, <1>7 DEF RequestStep

\* A worker other than one that finishes a run or resets a batch neither sets
\* a cell nor replaces a BatchState.
LEMMA WorkerCellFrame ==
    ASSUME Typed, ManagerAlone, NEW x \in Workers, WorkerStep(x)
    PROVE  /\ UNCHANGED <<requestVars, buffer>>
           /\ \/ Finish(x) \/ ResetBatch(x)
              \/ /\ UNCHANGED outputs
                 /\ \A b \in BatchIds : /\ state'[b].gen = state[b].gen
                                        /\ state'[b].deadline = state[b].deadline
                 /\ \A y \in Executors :
                        /\ xpc'[y] = "reset" <=> xpc[y] = "reset"
                        /\ xpc[y] = "reset" => idx'[y] = idx[y]
<1> DEFINE Frame ==
      /\ UNCHANGED <<requestVars, buffer, outputs, state>>
      /\ \A y \in Executors : /\ xpc'[y] = "reset" <=> xpc[y] = "reset"
                              /\ xpc[y] = "reset" => idx'[y] = idx[y]
<1>0. \A y \in Executors : y \in Workers /\ y # Manager
  BY ManagerAssumption DEF Workers
<1>1. LoadExecutorHead(x) \/ CheckRoom(x) \/ Listen(x) => Frame
  BY <1>0 DEF LoadExecutorHead, CheckRoom, Listen, Goto, Typed, TypeOK
<1>2. Claim(x) => Frame
  BY <1>0 DEF Claim, Goto, Typed, TypeOK
<1>3. Peek(x) \/ DeadlineExpires(x) => Frame
  BY <1>0 DEF Peek, DeadlineExpires, Goto, Typed, TypeOK
<1>4. Seal(x) => Frame
  BY <1>0 DEF Seal, Goto, Typed, TypeOK
<1>5. SpinWritten(x) => Frame
  BY <1>0 DEF SpinWritten, Goto, Typed, TypeOK
<1>6. Warmup(x) => Frame
  BY <1>0 DEF Warmup, Goto, Typed, TypeOK
<1>7. LoadTail(x) => Frame
  BY <1>0 DEF LoadTail, Goto, Typed, TypeOK
<1>8. CheckHead(x) => Frame
  BY <1>0 DEF CheckHead, Return, Goto, Typed, TypeOK
<1>9. TakeDirty(x) => Frame
  BY <1>0 DEF TakeDirty, Return, Goto, Typed, TypeOK
<1>10. AdvanceTail(x) => Frame
  BY <1>0 DEF AdvanceTail, Return, Typed, TypeOK
<1>11. CASE AwaitFirst(x) \/ AwaitFull(x)
  <2>1. /\ UNCHANGED <<requestVars, buffer, outputs, idx>>
        /\ state' = [state EXCEPT ![BatchId(idx[x])].permit = FALSE]
        /\ xpc[x] \in {"await_first", "await_full"}
        /\ Goto(x, "peek") \/ Goto(x, "seal")
    BY <1>11 DEF AwaitFirst, AwaitFull
  <2>2. \A y \in Executors : xpc'[y] = "reset" <=> xpc[y] = "reset"
    BY <1>0, <2>1 DEF Goto, Typed, TypeOK
  <2>3. \A b \in BatchIds : /\ state'[b].gen = state[b].gen
                            /\ state'[b].deadline = state[b].deadline
    BY <2>1 DEF Typed, TypeOK, BatchState
  <2> QED  BY <2>1, <2>2, <2>3
<1>12. CASE Finish(x) \/ ResetBatch(x)
  BY <1>12 DEF Finish, ResetBatch
<1> QED
  BY <1>1, <1>2, <1>3, <1>4, <1>5, <1>6, <1>7, <1>8, <1>9, <1>10, <1>11, <1>12
     DEF WorkerStep

-------------------------------------------------------------------------------
(***************************************************************************)
(* The cells and the reservations on them: nothing is assumed here of the  *)
(* sizes of the calls.                                                     *)
(***************************************************************************)
LEMMA InitCells == Init => CellInv
<1> SUFFICES ASSUME Init PROVE CellInv
  OBVIOUS
<1>1. /\ outputs = {} /\ \A r \in Requests : resv[r] = <<>>
      /\ \A x \in Executors : xpc[x] = "idle"
  BY DEF Init, Workers
<1>2. \A r \in Requests : DOMAIN resv[r] = {}
  BY <1>1
<1> QED  BY <1>1, <1>2
            DEF CellInv, NewHasNone, ResetHasOutput, CellsOfPast, NoOrphanReservation

LEMMA RequestCells ==
    ASSUME Typed, CellInv, NEW r \in Requests, RequestStep(r)
    PROVE  CellInv'
<1>1. /\ UNCHANGED <<outputs, workerVars>>
      /\ \A b \in BatchIds : state'[b].gen = state[b].gen
      /\ \A q \in Requests \ {r} : rpc'[q] = rpc[q] /\ resv'[q] = resv[q]
      /\ rpc'[r] # "new"
  BY RequestCellFrame
<1>2. NewHasNone'
  BY <1>1 DEF CellInv, NewHasNone
<1>3. \A x \in Workers : BatchId(idx[x]) \in BatchIds
  BY Numbers, BatchIdInRange
<1>4. ResetHasOutput'
  BY <1>1, <1>3 DEF CellInv, ResetHasOutput, Workers
<1>5. CellsOfPast'
  BY <1>1, CellNumbers DEF CellInv, CellsOfPast
<1>6. NoOrphanReservation'
  <2> DEFINE Kept(e) == \/ state[e.batch].gen = e.gen
                        \/ \E cell \in outputs : cell.batch = e.batch /\ cell.gen = e.gen
  <2>1. \A q \in Requests : \A k \in 1 .. Len(resv[q]) :
            Kept(resv[q][k]) /\ resv[q][k].batch \in BatchIds
    BY HeldReservation, ReservationNumbers DEF CellInv, NoOrphanReservation
  <2> SUFFICES ASSUME NEW q \in Requests, NEW k \in DOMAIN resv'[q]
               PROVE  Kept(resv'[q][k]) /\ resv'[q][k].batch \in BatchIds
    BY <1>1 DEF NoOrphanReservation
  <2> HIDE DEF Kept
  <2>2. CASE resv'[q] = resv[q]
    BY <2>1, <2>2, HeldReservation
  <2>3. CASE q = r /\ resv[r] # <<>> /\ resv'[r] = Tail(resv[r])
    <3>1. PICK s : s = resv[r]
      OBVIOUS
    <3>2. /\ s \in Seq(Reservation) /\ s # <<>> /\ resv'[q] = Tail(s)
      BY <2>3, <3>1, HeldReservation
    <3>3. k + 1 \in 1 .. Len(s) /\ resv'[q][k] = s[k + 1]
      BY <3>2, SMT
    <3> QED  BY <2>1, <3>1, <3>3
  <2>4. CASE q = r /\ resv'[r] = Append(resv[r],
                [batch |-> ChunkBatch(r), gen |-> state[ChunkBatch(r)].gen,
                 start |-> ChunkStart(r), end |-> ChunkEnd(r)])
    <3>1. PICK s : s = resv[r]
      OBVIOUS
    <3>2. PICK e : e = [batch |-> ChunkBatch(r), gen |-> state[ChunkBatch(r)].gen,
                        start |-> ChunkStart(r), end |-> ChunkEnd(r)]
      OBVIOUS
    <3>3. s \in Seq(Reservation) /\ resv'[q] = Append(s, e)
      BY <2>4, <3>1, <3>2, HeldReservation
    <3>4. \/ k \in 1 .. Len(s) /\ resv'[q][k] = s[k]
          \/ resv'[q][k] = e
      BY <3>3, SMT
    <3>5. Kept(e) /\ e.batch \in BatchIds
      BY <3>2, ChunkFacts DEF Kept
    <3> QED  BY <2>1, <3>1, <3>4, <3>5
  <2> QED  BY <1>1, <2>2, <2>3, <2>4, RequestCellFrame
<1> QED  BY <1>2, <1>4, <1>5, <1>6 DEF CellInv

\* Two executors that hold batches hold different ones.
LEMMA HeldApart ==
    ASSUME Typed, ClaimInv, NEW x \in Executors, NEW y \in Executors,
           Active(x), Active(y), BatchId(idx[x]) = BatchId(idx[y])
    PROVE  x = y
BY InvImpliesClaimsInRing DEF ClaimsInRing

LEMMA FinishFacts ==
    ASSUME Typed, ClaimInv, CellInv, NEW x \in Workers, Finish(x)
    PROVE  /\ x \in Executors /\ xpc[x] = "run" /\ xpc'[x] = "reset"
           /\ \A y \in Workers \ {x} : xpc'[y] = xpc[y]
           /\ UNCHANGED <<ringVars, buffer, dirty, writtenSlots, state,
                          requestVars, seen, idx, open>>
           /\ \E ok \in Outcomes : outputs' = outputs \cup RunResult(BatchId(idx[x]), ok)
           /\ \A cell \in outputs : cell.batch = BatchId(idx[x])
                    => cell.gen < state[BatchId(idx[x])].gen
<1>1. /\ xpc[x] = "run" /\ xpc'[x] = "reset"
      /\ \A y \in Workers \ {x} : xpc'[y] = xpc[y]
      /\ UNCHANGED <<ringVars, buffer, dirty, writtenSlots, state,
                     requestVars, seen, idx, open>>
      /\ \E ok \in Outcomes : outputs' = outputs \cup RunResult(BatchId(idx[x]), ok)
  BY DEF Finish, Goto, Typed, TypeOK
<1>2. x \in Executors
  BY <1>1 DEF ClaimInv, ManagerAlone, Workers
<1>3. ASSUME NEW cell \in outputs, cell.batch = BatchId(idx[x])
      PROVE  cell.gen < state[BatchId(idx[x])].gen
  <2>1. cell.gen <= state[cell.batch].gen
    BY DEF CellInv, CellsOfPast
  <2>2. cell.gen # state[cell.batch].gen
    <3>1. SUFFICES ASSUME cell.gen = state[cell.batch].gen PROVE FALSE
      OBVIOUS
    <3>2. PICK y \in Executors : xpc[y] = "reset" /\ BatchId(idx[y]) = cell.batch
      BY <3>1 DEF CellInv, CellsOfPast
    <3>3. Active(x) /\ Active(y)
      BY <1>1, <3>2 DEF Active
    <3>4. x = y
      BY <1>2, <1>3, <3>2, <3>3, HeldApart
    <3> QED  BY <1>1, <3>2, <3>4
  <2> QED  BY <1>3, <2>1, <2>2, CellNumbers, SMT
<1> QED  BY <1>1, <1>2, <1>3

LEMMA FinishCells ==
    ASSUME Typed, ClaimInv, CellInv, NEW x \in Workers, Finish(x)
    PROVE  CellInv'
<1>1. PICK ok \in Outcomes : outputs' = outputs \cup RunResult(BatchId(idx[x]), ok)
  BY FinishFacts
<1>2. PICK new : new = [batch |-> BatchId(idx[x]), gen |-> state[BatchId(idx[x])].gen,
                        ok |-> ok, rows |-> buffer[BatchId(idx[x])]]
  OBVIOUS
<1>3. /\ outputs' = outputs \cup {new}
      /\ new.batch = BatchId(idx[x]) /\ new.gen = state[BatchId(idx[x])].gen
  BY <1>1, <1>2 DEF RunResult
<1>4. /\ x \in Executors /\ xpc'[x] = "reset" /\ xpc[x] = "run"
      /\ \A y \in Workers \ {x} : xpc'[y] = xpc[y]
      /\ UNCHANGED <<state, requestVars, idx>>
  BY FinishFacts
<1>5. NewHasNone' /\ NoOrphanReservation'
  BY <1>3, <1>4 DEF CellInv, NewHasNone, NoOrphanReservation
<1>6. ResetHasOutput'
  BY <1>3, <1>4 DEF CellInv, ResetHasOutput, Workers
<1>7. CellsOfPast'
  <2>1. state[BatchId(idx[x])].gen \in Nat
    BY Numbers, BatchIdInRange, GenNat
  <2>2. new.gen <= state[new.batch].gen
    BY <1>3, <2>1, SMT
  <2>3. ASSUME NEW cell \in outputs, cell.gen = state[cell.batch].gen
        PROVE  \E y \in Executors : xpc'[y] = "reset" /\ BatchId(idx[y]) = cell.batch
    BY <1>4, <2>3 DEF CellInv, CellsOfPast, Workers
  <2> QED  BY <1>3, <1>4, <2>2, <2>3 DEF CellInv, CellsOfPast
<1> QED  BY <1>5, <1>6, <1>7 DEF CellInv

LEMMA ResetFacts ==
    ASSUME Typed, NEW x \in Workers, ResetBatch(x)
    PROVE  LET b == BatchId(idx[x]) IN
           /\ xpc[x] = "reset" /\ xpc'[x] = "move" /\ b \in BatchIds
           /\ \A y \in Workers \ {x} : xpc'[y] = xpc[y]
           /\ UNCHANGED <<ringVars, buffer, outputs, requestVars, seen, idx, open>>
           /\ state'[b].gen = state[b].gen + 1 /\ state'[b].deadline = FALSE
           /\ \A c \in BatchIds \ {b} : state'[c] = state[c]
<1>1. BatchId(idx[x]) \in BatchIds
  BY Numbers, BatchIdInRange
<1>2. /\ xpc[x] = "reset" /\ xpc'[x] = "move"
      /\ \A y \in Workers \ {x} : xpc'[y] = xpc[y]
      /\ UNCHANGED <<ringVars, buffer, outputs, requestVars, seen, idx, open>>
      /\ state' = [state EXCEPT ![BatchId(idx[x])] = FreshState(@)]
  BY DEF ResetBatch, Goto, Typed, TypeOK
<1> QED  BY <1>1, <1>2 DEF Typed, TypeOK, FreshState

LEMMA ResetCells ==
    ASSUME Typed, ClaimInv, CellInv, NEW x \in Workers, WorkerStep(x), ResetBatch(x)
    PROVE  CellInv'
<1>1. PICK b : b = BatchId(idx[x])
  OBVIOUS
<1>2. /\ xpc[x] = "reset" /\ xpc'[x] = "move" /\ b \in BatchIds
      /\ \A y \in Workers \ {x} : xpc'[y] = xpc[y]
      /\ UNCHANGED <<outputs, requestVars, idx>>
      /\ state'[b].gen = state[b].gen + 1 /\ state[b].gen \in Nat
      /\ \A c \in BatchIds \ {b} : state'[c] = state[c]
  BY <1>1, ResetFacts, GenNat
<1>3. NewHasNone'
  BY <1>2 DEF CellInv, NewHasNone
<1>4. ResetHasOutput'
  <2> SUFFICES ASSUME NEW y \in Executors, xpc'[y] = "reset"
               PROVE  \E cell \in outputs : /\ cell.batch = BatchId(idx[y])
                                            /\ cell.gen = state'[BatchId(idx[y])].gen
    BY <1>2 DEF ResetHasOutput
  <2>1. y \in Workers /\ y # x /\ xpc[y] = "reset" /\ Active(y) /\ Active(x)
    BY <1>2 DEF Workers, Active
  <2>2. x \in Executors
    <3>1. SUFFICES ASSUME x = Manager PROVE FALSE
      BY DEF Workers
    <3>2. xpc[y] = "idle"
      BY <3>1, ManagerSteps DEF ClaimInv, ManagerAlone
    <3> QED  BY <2>1, <3>2
  <2>3. BatchId(idx[y]) # b /\ BatchId(idx[y]) \in BatchIds
    BY <1>1, <2>1, <2>2, HeldApart, Numbers, BatchIdInRange
  <2> QED  BY <1>2, <2>1, <2>3 DEF CellInv, ResetHasOutput
<1>5. CellsOfPast'
  <2> SUFFICES ASSUME NEW cell \in outputs
               PROVE  /\ cell.gen <= state'[cell.batch].gen
                      /\ cell.gen = state'[cell.batch].gen =>
                          \E y \in Executors : /\ xpc'[y] = "reset"
                                               /\ BatchId(idx[y]) = cell.batch
    BY <1>2 DEF CellsOfPast
  <2>1. cell.gen \in Nat /\ cell.gen <= state[cell.batch].gen /\ cell.batch \in BatchIds
    BY CellNumbers DEF CellInv, CellsOfPast
  <2>2. CASE cell.batch = b
    <3>1. cell.gen < state'[b].gen
      BY <1>2, <2>1, <2>2, SMT
    <3>2. state'[b].gen \in Nat
      BY <1>2, SMT
    <3> QED  BY <2>1, <2>2, <3>1, <3>2, SMT
  <2>3. CASE cell.batch # b
    <3>1. ASSUME cell.gen = state'[cell.batch].gen
          PROVE  \E y \in Executors : xpc'[y] = "reset" /\ BatchId(idx[y]) = cell.batch
      <4>1. PICK y \in Executors : xpc[y] = "reset" /\ BatchId(idx[y]) = cell.batch
        BY <1>2, <2>1, <2>3, <3>1 DEF CellInv, CellsOfPast
      <4>2. y # x /\ y \in Workers
        BY <1>1, <2>3, <4>1 DEF Workers
      <4> QED  BY <1>2, <4>1, <4>2
    <3> QED  BY <1>2, <2>1, <2>3, <3>1
  <2> QED  BY <2>2, <2>3
<1>6. NoOrphanReservation'
  <2> SUFFICES ASSUME NEW r \in Requests, NEW k \in DOMAIN resv[r]
               PROVE  \/ state'[resv[r][k].batch].gen = resv[r][k].gen
                      \/ \E cell \in outputs : /\ cell.batch = resv[r][k].batch
                                               /\ cell.gen = resv[r][k].gen
    BY <1>2 DEF NoOrphanReservation
  <2>1. resv[r][k].batch \in BatchIds
    BY HeldReservation, ReservationNumbers
  <2>2. CASE x \in Executors
    <3>1. \E cell \in outputs : cell.batch = b /\ cell.gen = state[b].gen
      BY <1>1, <1>2, <2>2 DEF CellInv, ResetHasOutput
    <3> QED  BY <1>2, <2>1, <3>1 DEF CellInv, NoOrphanReservation
  <2>3. CASE x = Manager
    <3>1. \A q \in Requests : rpc[q] = "new"
      BY <2>3, ManagerSteps DEF ClaimInv, ManagerAlone
    <3>2. resv[r] = <<>>
      BY <3>1 DEF CellInv, NewHasNone
    <3> QED  BY <3>2
  <2> QED  BY <2>2, <2>3 DEF Workers
<1> QED  BY <1>3, <1>4, <1>5, <1>6 DEF CellInv

LEMMA NextCells == Typed /\ ClaimInv /\ CellInv /\ [Next]_vars => CellInv'
<1> SUFFICES ASSUME Typed, ClaimInv, CellInv, [Next]_vars PROVE CellInv'
  OBVIOUS
<1>1. ASSUME NEW x \in Workers, WorkerStep(x) PROVE CellInv'
  <2>1. CASE Finish(x)
    BY <2>1, FinishCells
  <2>2. CASE ResetBatch(x)
    BY <1>1, <2>2, ResetCells
  <2>3. CASE ~Finish(x) /\ ~ResetBatch(x)
    <3>1. /\ UNCHANGED <<outputs, requestVars>>
          /\ \A b \in BatchIds : state'[b].gen = state[b].gen
          /\ \A y \in Executors : /\ xpc'[y] = "reset" <=> xpc[y] = "reset"
                                  /\ xpc[y] = "reset" => idx'[y] = idx[y]
      BY <1>1, <2>3, WorkerCellFrame DEF ClaimInv
    <3>2. \A y \in Executors : BatchId(idx[y]) \in BatchIds
      BY Numbers, BatchIdInRange DEF Workers
    <3>3. NewHasNone'
      BY <3>1 DEF CellInv, NewHasNone
    <3>4. ResetHasOutput'
      BY <3>1, <3>2 DEF CellInv, ResetHasOutput
    <3>5. CellsOfPast'
      <4>1. \A cell \in outputs : state'[cell.batch].gen = state[cell.batch].gen
        BY <3>1, CellNumbers
      <4> QED  BY <3>1, <4>1 DEF CellInv, CellsOfPast
    <3>6. NoOrphanReservation'
      <4>1. \A r \in Requests : \A k \in DOMAIN resv[r] :
                state'[resv[r][k].batch].gen = state[resv[r][k].batch].gen
        BY <3>1, HeldReservation, ReservationNumbers
      <4> QED  BY <3>1, <4>1 DEF CellInv, NoOrphanReservation
    <3> QED  BY <3>3, <3>4, <3>5, <3>6 DEF CellInv
  <2> QED  BY <2>1, <2>2, <2>3
<1>2. CASE Next
  BY <1>1, <1>2, RequestCells DEF Next
<1>3. CASE UNCHANGED vars
  BY <1>3 DEF CellInv, NewHasNone, ResetHasOutput, CellsOfPast, NoOrphanReservation
<1> QED  BY <1>2, <1>3

(***************************************************************************)
(* A reservation always has its output, or its BatchState is still there   *)
(* to be run: no caller waits on a cell nobody will set, whatever the      *)
(* calls and the order in which executors finish (reset_batch replaces the *)
(* BatchState of a batch only after execute_current_batch).                *)
(***************************************************************************)
THEOREM NoReservationOrphaned == Spec => []NoOrphanReservation
<1>1. Init => ClaimInv /\ CellInv
  BY InitClaims, InitCells
<1>2. Typed /\ ClaimInv /\ CellInv /\ [Next]_vars => ClaimInv' /\ CellInv'
  BY NextClaims, NextCells
<1>3. CellInv => NoOrphanReservation
  BY DEF CellInv
<1> QED  BY <1>1, <1>2, <1>3, TypedInvariant, PTL DEF Spec

-------------------------------------------------------------------------------
(***************************************************************************)
(* The steps, as far as slots, batches and head are concerned.             *)
(***************************************************************************)
LEMMA RequestSlotFrame ==
    ASSUME Typed, RingInv, NEW r \in Requests, RequestStep(r)
    PROVE  /\ UNCHANGED <<tail, executorHead, workerVars>> /\ head <= head'
           /\ Window' = Window /\ \A i : Released(i)' <=> Released(i)
           /\ \A q \in Requests \ {r} : Unpublished(q)' = Unpublished(q)
           /\ \A i \in Unpublished(r)' : i \in Unpublished(r) \/ head <= i
           /\ \A i \in Pending' : i \in Pending \/ head <= i
<1>1. /\ UNCHANGED <<tail, executorHead, workerVars>> /\ head <= head'
      /\ \A q \in Requests \ {r} : Unpublished(q)' = Unpublished(q)
      /\ \A i \in Unpublished(r)' : i \in Unpublished(r) \/ head <= i
  <2>1. CASE Reserve(r) /\ HeadUnchanged(r)
    <3>1. /\ head' = head + size[r] /\ UNCHANGED <<tail, executorHead, workerVars>>
          /\ \A q \in Requests \ {r} : Unpublished(q)' = Unpublished(q)
          /\ Unpublished(r)' = head .. head + size[r] - 1
      BY <2>1, ReserveMoves DEF RingInv
    <3>2. head \in Nat /\ size[r] \in Nat
      BY Numbers, RequestNumbers
    <3>3. head <= head'
      BY <3>1, <3>2, SMT
    <3>4. \A i \in head .. head + size[r] - 1 : head <= i
      BY <3>2, SMT
    <3> QED  BY <3>1, <3>3, <3>4
  <2>2. CASE Publish(r)
    <3>1. /\ UNCHANGED <<ringVars, workerVars>>
          /\ \A q \in Requests \ {r} : Unpublished(q)' = Unpublished(q)
          /\ Unpublished(r)' \subseteq Unpublished(r)
      BY <2>2, PublishMoves, PublishRemoves DEF Publish, RingInv
    <3>2. head <= head'
      BY <3>1, Numbers, SMT
    <3> QED  BY <3>1, <3>2
  <2>3. CASE LoadHead(r) \/ CheckFull(r) \/ WriteChunk(r) \/ NotifyExecutor(r)
               \/ Collect(r) \/ (Reserve(r) /\ ~HeadUnchanged(r))
    <3>1. /\ UNCHANGED <<ringVars, workerVars>>
          /\ \A q \in Requests : Unpublished(q)' = Unpublished(q)
      BY <2>3, QuietPending DEF RingInv
    <3>2. head <= head'
      BY <3>1, Numbers, SMT
    <3> QED  BY <3>1, <3>2
  <2> QED  BY <2>1, <2>2, <2>3 DEF RequestStep
<1>2. Window' = Window /\ \A i : Released(i)' <=> Released(i)
  BY <1>1 DEF Window, Released, Active
<1>3. \A i \in Pending' : i \in Pending \/ head <= i
  <2>1. \A i : i \in Pending' <=> \E q \in Requests : i \in Unpublished(q)'
    BY DEF Pending
  <2> QED  BY <1>1, <2>1, PendingMember
<1> QED  BY <1>1, <1>2, <1>3

\* A batch comes into the lap when the one it replaces was released, and is
\* released only by its reset.
LEMMA WorkerSlotFrame ==
    ASSUME Typed, RingInv, NEW x \in Workers, WorkerStep(x)
    PROVE  /\ head <= head'
           /\ \A i \in Window' : \/ i \in Window
                                 \/ /\ tail \in Window /\ Released(tail)
                                    /\ BatchId(i) = BatchId(tail)
           /\ \A i \in Window : Released(i)' =>
                Released(i) \/ (ResetBatch(x) /\ i = idx[x])
<1>0. head \in Nat /\ head <= head
  BY Numbers, SMT
<1> DEFINE Claimed == /\ UNCHANGED <<tail, executorHead>>
                       /\ \A y \in Workers : Active(y) => Active(y)' /\ idx'[y] = idx[y]
           Quiet == head' = head /\ Claimed
<1>1. Claimed => Window' = Window /\ \A i : Released(i)' => Released(i)
  BY DEF Window, Released
<1>2. CASE LoadExecutorHead(x) \/ CheckRoom(x) \/ Listen(x) \/ LoadTail(x)
  <2>1. /\ UNCHANGED <<ringVars, idx>> /\ xpc[x] \in {"idle", "check", "listen", "move"}
        /\ \A y \in Workers \ {x} : xpc'[y] = xpc[y]
    BY <1>2 DEF LoadExecutorHead, CheckRoom, Listen, LoadTail, Goto, Typed, TypeOK
  <2>2. Quiet
    BY <2>1 DEF Active
  <2> QED  BY <1>0, <1>1, <2>2
<1>3. CASE AwaitFirst(x) \/ Peek(x) \/ DeadlineExpires(x) \/ AwaitFull(x)
             \/ SpinWritten(x) \/ Finish(x)
  <2>1. /\ UNCHANGED <<ringVars, idx>>
        /\ \/ xpc' = xpc
           \/ Goto(x, "peek") \/ Goto(x, "await_full") \/ Goto(x, "seal")
           \/ Goto(x, "run") \/ Goto(x, "reset")
    BY <1>3 DEF AwaitFirst, Peek, DeadlineExpires, AwaitFull, SpinWritten, Finish
  <2>2. \A y \in Workers : Active(y) => Active(y)'
    BY <2>1 DEF Goto, Active, Typed, TypeOK
  <2> QED  BY <1>0, <1>1, <2>1, <2>2
<1>4. CASE CheckHead(x) \/ TakeDirty(x) \/ (AdvanceTail(x) /\ tail # seen[x])
  <2>1. /\ UNCHANGED ringVars /\ xpc[x] \in {"move_head", "take", "advance"}
        /\ \A y \in Workers \ {x} : xpc'[y] = xpc[y] /\ idx'[y] = idx[y]
    BY <1>4 DEF CheckHead, TakeDirty, AdvanceTail, Return, Goto, Typed, TypeOK
  <2>2. Quiet
    BY <2>1 DEF Active
  <2> QED  BY <1>0, <1>1, <2>2
<1>5. CASE Seal(x)
  <2>1. Claimed
    <3>1. /\ UNCHANGED <<tail, executorHead, idx>> /\ xpc[x] = "seal"
          /\ xpc' = xpc \/ Goto(x, "spin")
      BY <1>5 DEF Seal
    <3> QED  BY <3>1 DEF Goto, Active, Typed, TypeOK
  <2>2. head <= head'
    <3>1. HigherBound(idx[x]) \in Nat
      BY Numbers, HigherBoundFacts
    <3>2. PICK h : h = HigherBound(idx[x])
      OBVIOUS
    <3>3. head' = head \/ (head < h /\ head' = head + (h - head)) \/ head' = head + 0
      BY <1>5, <3>2 DEF Seal, OpenSlots
    <3> QED  BY <1>0, <3>1, <3>2, <3>3, SMT
  <2> QED  BY <1>1, <2>1, <2>2
<1>6. CASE Claim(x)
  <2>1. CASE executorHead # seen[x]
    <3>1. /\ UNCHANGED <<ringVars, idx>> /\ xpc[x] = "claim"
          /\ \A y \in Workers \ {x} : xpc'[y] = xpc[y]
      BY <1>6, <2>1 DEF Claim, Goto, Typed, TypeOK
    <3>2. Quiet
      BY <3>1 DEF Active
    <3> QED  BY <1>0, <1>1, <3>2
  <2>2. CASE executorHead = seen[x]
    <3>1. /\ executorHead' = executorHead + BatchSize /\ head' = head /\ tail' = tail
          /\ xpc[x] = "claim" /\ xpc'[x] = "await_first" /\ idx'[x] = executorHead
          /\ \A y \in Workers \ {x} : xpc'[y] = xpc[y] /\ idx'[y] = idx[y]
      BY <1>6, <2>2 DEF Claim, Goto, Typed, TypeOK
    <3>2. ASSUME NEW i \in Window, Released(i)' PROVE Released(i)
      <4>1. i # executorHead
        BY <3>1, <3>2 DEF Released, Active
      <4>2. i < executorHead
        <5>1. i \in Nat /\ i < executorHead + BatchSize
          BY <3>1, <3>2, WindowMember DEF Released
        <5>2. executorHead < i => executorHead + BatchSize <= i
          BY WindowMember, AlignedApart DEF RingInv, ClaimInv, WholeBatches
        <5> QED  BY <4>1, <5>1, <5>2, Numbers, SMT
      <4>3. \A y \in Workers : Active(y) => y # x /\ Active(y)'
        BY <3>1 DEF Active
      <4> QED  BY <3>1, <3>2, <4>2, <4>3 DEF Released
    <3>3. Window' = Window
      BY <3>1 DEF Window
    <3> QED  BY <1>0, <3>1, <3>2, <3>3
  <2> QED  BY <2>1, <2>2
<1>7. CASE Warmup(x)
  <2>1. x = Manager /\ xpc[x] = "idle" /\ ~Registered
    BY <1>7, ManagerSteps DEF Warmup, RingInv, ClaimInv
  <2>2. head = executorHead /\ \A y \in Workers : xpc[y] = "idle"
    BY <2>1 DEF RingInv, ClaimInv, ManagerAlone, Workers
  <2>3. /\ head' = head + BatchSize /\ executorHead' = executorHead + BatchSize
        /\ tail' = tail /\ idx'[x] = head /\ xpc'[x] = "reset"
    BY <1>7, <2>2 DEF Warmup, Goto, Typed, TypeOK
  <2>4. ASSUME NEW i \in Window, Released(i)' PROVE Released(i)
    <3>1. i # executorHead
      BY <2>2, <2>3, <2>4 DEF Released, Active
    <3>2. i < executorHead
      <4>1. i \in Nat /\ i < executorHead + BatchSize
        BY <2>3, <2>4, WindowMember DEF Released
      <4>2. executorHead < i => executorHead + BatchSize <= i
        BY WindowMember, AlignedApart DEF RingInv, ClaimInv, WholeBatches
      <4> QED  BY <3>1, <4>1, <4>2, Numbers, SMT
    <3> QED  BY <2>2, <3>2 DEF Released, Active
  <2>5. Window' = Window
    BY <2>3 DEF Window
  <2>6. head <= head'
    BY <2>3, Numbers, SMT
  <2> QED  BY <2>4, <2>5, <2>6
<1>8. CASE ResetBatch(x)
  <2>1. /\ UNCHANGED <<ringVars, idx>>
        /\ \A y \in Workers \ {x} : xpc'[y] = xpc[y]
    BY <1>8 DEF ResetBatch, Goto, Typed, TypeOK
  <2>2. Window' = Window
    BY <2>1 DEF Window
  <2>3. \A i \in Window : Released(i)' => Released(i) \/ i = idx[x]
    BY <2>1 DEF Released, Active
  <2> QED  BY <1>0, <1>8, <2>1, <2>2, <2>3
<1>9. CASE AdvanceTail(x) /\ tail = seen[x]
  <2>1. /\ xpc[x] = "advance" /\ UNCHANGED <<head, executorHead, idx>>
        /\ \A y \in Workers : xpc'[y] = xpc[y] \/ (y = x /\ xpc'[y] = "move")
                                \/ (xpc[y] = "asleep" /\ xpc'[y] = "idle")
        /\ tail' = tail + BatchSize
    BY <1>9, Numbers, HigherBoundFacts
       DEF AdvanceTail, RingInv, ClaimInv, WholeBatches, Aligned, Typed, TypeOK
  <2>2. \A y \in Workers : Active(y)' <=> Active(y)
    BY <2>1 DEF Active
  <2>3. Released(tail) /\ Aligned(tail)
    BY <1>9, <2>1 DEF RingInv, ClaimInv, AdvancePastReleased, WholeBatches
  <2>4. tail \in Window
    BY <2>3, WindowMember, Numbers, SMT
  <2>5. ASSUME NEW i \in Window', i \notin Window PROVE BatchId(i) = BatchId(tail)
    <3>1. Aligned(tail + RingSize) /\ BatchId(tail + RingSize) = BatchId(tail)
      BY <2>3, BatchOfNextLap
    <3>2. Aligned(i) /\ i \in Nat /\ tail <= i /\ i < tail + RingSize + BatchSize
      BY <2>1, <2>5, Numbers, SMT DEF Window, Aligned
    <3>3. tail + RingSize <= i
      BY <2>5, <3>2, WindowMember, Numbers, SMT
    <3>4. tail + RingSize < i => tail + RingSize + BatchSize <= i
      BY <3>1, <3>2, AlignedApart
    <3>5. i = tail + RingSize
      BY <3>2, <3>3, <3>4, Numbers, SMT
    <3> QED  BY <3>1, <3>5
  <2>6. \A i : Released(i)' => Released(i)
    BY <2>1, <2>2 DEF Released
  <2> QED  BY <1>0, <2>1, <2>3, <2>4, <2>5, <2>6
<1> QED  BY <1>2, <1>3, <1>4, <1>5, <1>6, <1>7, <1>8, <1>9 DEF WorkerStep

-------------------------------------------------------------------------------
(***************************************************************************)
(* The assertions: the timer of a batch is started once.                   *)
(***************************************************************************)
LEMMA InitDeadlines == Init => DeadlineOnce
<1> SUFFICES ASSUME Init PROVE DeadlineOnce
  OBVIOUS
<1>1. \A b \in BatchIds : ~state[b].deadline
  BY DEF Init
<1>2. \A i \in Window : BatchId(i) \in BatchIds
  BY BatchIdInRange DEF Window, Aligned
<1> QED  BY <1>1, <1>2 DEF DeadlineOnce

\* Where a request writes to slot 0, no timer is running.
LEMMA FirstWriter ==
    ASSUME Typed, RingInv, DeadlineOnce, NEW r \in Requests,
           rpc[r] = "write", ChunkStart(r) = 0
    PROVE  /\ at[r] \in Window /\ ~Released(at[r]) /\ at[r] < head
           /\ at[r] \in Unpublished(r) /\ ~state[ChunkBatch(r)].deadline
<1>1. /\ at[r] \in Nat /\ LowerBound(at[r]) = at[r]
  <2>1. at[r] \in Nat /\ SlotId(at[r]) = 0
    BY RequestNumbers DEF ChunkStart
  <2> QED  BY <2>1, HigherBoundFacts
<1>2. at[r] \in Unpublished(r)
  <2>1. sent[r] < size[r] /\ Unpublished(r) = at[r] .. at[r] + size[r] - sent[r] - 1
    BY DEF RingInv, SlotInv, ChunkProgress, Unpublished
  <2> QED  BY <2>1, RequestNumbers, SMT
<1>3. at[r] \in Window /\ ~Released(at[r])
  BY <1>1, <1>2, PendingMember, PendingBatch DEF RingInv
<1>4. at[r] < head
  BY <1>2 DEF RingInv, SlotInv, PendingInRing
<1>5. ~state[ChunkBatch(r)].deadline
  BY <1>2, <1>3 DEF DeadlineOnce, ChunkBatch
<1> QED  BY <1>2, <1>3, <1>4, <1>5

LEMMA RequestDeadlines ==
    ASSUME Typed, RingInv, DeadlineOnce, NEW r \in Requests, RequestStep(r)
    PROVE  DeadlineOnce'
<1> SUFFICES ASSUME NEW i \in Window, state'[BatchId(i)].deadline
             PROVE  /\ ~Released(i) /\ i < head'
                    /\ \A q \in Requests : i \in Unpublished(q)' =>
                            at'[q] = i /\ rpc'[q] # "write"
  BY RequestSlotFrame DEF DeadlineOnce
<1>1. /\ i \in Nat /\ Aligned(i) /\ BatchId(i) \in BatchIds
      /\ tail <= i /\ i < tail + RingSize
  BY WindowMember, BatchIdInRange
<1>2. /\ head <= head'
      /\ \A q \in Requests \ {r} : Unpublished(q)' = Unpublished(q)
      /\ \A j \in Unpublished(r)' : j \in Unpublished(r) \/ head <= j
  BY RequestSlotFrame
<1>3. \A q \in Requests \ {r} : at'[q] = at[q] /\ rpc'[q] = rpc[q]
  BY RequestCellFrame
<1>4. head \in Nat /\ head' \in Nat
  <2>1. Typed'
    <3>1. TypeOK' /\ SentBounded'
      BY RequestTyped DEF Typed
    <3> QED  BY <3>1 DEF Typed
  <2> QED  BY <2>1 DEF Typed, TypeOK
<1>5. CASE state[BatchId(i)].deadline
  <2>1. /\ ~Released(i) /\ i < head
        /\ \A q \in Requests : i \in Unpublished(q) => at[q] = i /\ rpc[q] # "write"
    BY <1>5 DEF DeadlineOnce
  <2>2. i < head'
    BY <1>1, <1>2, <1>4, <2>1, SMT
  <2>3. ASSUME i \in Unpublished(r)'
        PROVE  at'[r] = i /\ rpc'[r] # "write"
    <3>1. i \in Unpublished(r)
      BY <1>1, <1>2, <1>4, <2>1, <2>3, SMT
    <3>2. at[r] = i /\ rpc[r] # "write"
      BY <2>1, <3>1
    <3>3. rpc[r] \in {"publish", "notify", "error"}
      BY <3>1, <3>2 DEF Unpublished
    <3>4. CASE Publish(r)
      <4>1. Unpublished(r)' = at[r] + ChunkSize(r) .. at[r] + size[r] - sent[r] - 1
        BY <3>4, PublishMoves DEF RingInv
      <4>2. ChunkSize(r) > 0 /\ ChunkSize(r) \in Nat /\ at[r] \in Nat
        BY <3>4, RequestNumbers DEF RingInv, SlotInv, ChunkProgress, Publish
      <4> QED  BY <1>1, <2>3, <3>2, <4>1, <4>2, SMT
    <3>5. CASE NotifyExecutor(r)
      <4>1. rpc[r] = "notify" /\ sent[r] < size[r]
        BY <3>5 DEF NotifyExecutor, RingInv, SlotInv, ChunkProgress
      <4>2. Unpublished(r) = at[r] + ChunkSize(r) .. at[r] + size[r] - sent[r] - 1
        BY <4>1 DEF Unpublished
      <4>3. ChunkSize(r) > 0 /\ ChunkSize(r) \in Nat /\ at[r] \in Nat
        BY <4>1, RequestNumbers
      <4> QED  BY <1>1, <3>1, <3>2, <4>2, <4>3, SMT
    <3>6. CASE ~Publish(r) /\ ~NotifyExecutor(r)
      BY <3>3, <3>6 DEF RequestStep, LoadHead, CheckFull, Reserve, WriteChunk, Collect
    <3> QED  BY <3>4, <3>5, <3>6
  <2> QED  BY <1>2, <1>3, <2>1, <2>2, <2>3
<1>6. CASE ~state[BatchId(i)].deadline
  <2>1. WriteChunk(r) /\ InputSupported /\ ChunkStart(r) = 0
    <3>1. LoadHead(r) \/ CheckFull(r) \/ Reserve(r) \/ Publish(r) \/ Collect(r)
             => state' = state
      BY DEF LoadHead, CheckFull, Reserve, Publish, Collect
    <3>2. NotifyExecutor(r) => state'[BatchId(i)].deadline = state[BatchId(i)].deadline
      BY <1>1 DEF NotifyExecutor, Typed, TypeOK, BatchState
    <3>3. WriteChunk(r) /\ ~(InputSupported /\ ChunkStart(r) = 0) => state' = state
      BY DEF WriteChunk
    <3> QED  BY <1>6, <3>1, <3>2, <3>3 DEF RequestStep
  <2>2. /\ rpc[r] = "write" /\ rpc'[r] = "publish" /\ at' = at
        /\ state' = [state EXCEPT ![ChunkBatch(r)].deadline = TRUE]
    BY <2>1 DEF WriteChunk, Typed, TypeOK
  <2>3. /\ at[r] \in Window /\ ~Released(at[r]) /\ at[r] < head
        /\ at[r] \in Unpublished(r) /\ at[r] \in Nat
    BY <2>1, <2>2, FirstWriter, WindowMember
  <2>4. BatchId(i) = ChunkBatch(r)
    BY <1>1, <1>6, <2>2 DEF Typed, TypeOK, BatchState
  <2>5. i = at[r]
    BY <1>1, <2>3, <2>4, WindowMember, Numbers, SameBatchInWindow DEF ChunkBatch
  <2>6. \A q \in Requests \ {r} : i \notin Unpublished(q)'
    BY <1>2, <2>3, <2>5 DEF RingInv, SlotInv, PendingApart
  <2>7. i < head'
    BY <1>1, <1>2, <1>4, <2>3, <2>5, SMT
  <2> QED  BY <2>2, <2>3, <2>5, <2>6, <2>7
<1> QED  BY <1>5, <1>6

LEMMA WorkerDeadlines ==
    ASSUME Typed, RingInv, DeadlineOnce, NEW x \in Workers, WorkerStep(x)
    PROVE  DeadlineOnce'
<1>1. UNCHANGED requestVars /\ \A q \in Requests : Unpublished(q)' = Unpublished(q)
  BY WorkerCellFrame, PendingStays DEF RingInv, ClaimInv
<1>2. \A b \in BatchIds : state'[b].deadline =>
          /\ state[b].deadline
          /\ ResetBatch(x) => b # BatchId(idx[x])
  <2>1. Finish(x) => state' = state /\ ~ResetBatch(x)
    BY DEF Finish, ResetBatch
  <2>2. CASE ResetBatch(x)
    BY <2>2, ResetFacts
  <2> QED  BY <2>1, <2>2, WorkerCellFrame DEF RingInv, ClaimInv
<1> SUFFICES ASSUME NEW i \in Window', state'[BatchId(i)].deadline
             PROVE  /\ ~Released(i)' /\ i < head'
                    /\ \A q \in Requests : i \in Unpublished(q) =>
                            at[q] = i /\ rpc[q] # "write"
  BY <1>1 DEF DeadlineOnce
<1>3. i \in Nat /\ BatchId(i) \in BatchIds
  BY BatchIdInRange DEF Window, Aligned
<1>4. i \in Window
  BY <1>2, <1>3, WorkerSlotFrame DEF DeadlineOnce
<1>5. /\ ~Released(i) /\ i < head
      /\ \A q \in Requests : i \in Unpublished(q) => at[q] = i /\ rpc[q] # "write"
  BY <1>2, <1>3, <1>4 DEF DeadlineOnce
<1>6. ~Released(i)'
  BY <1>2, <1>3, <1>4, <1>5, WorkerSlotFrame
<1>7. i < head'
  <2>1. head' \in Nat
    BY WorkerTyped DEF Typed, TypeOK
  <2> QED  BY <1>3, <1>5, <2>1, WorkerSlotFrame, Numbers, SMT
<1> QED  BY <1>5, <1>6, <1>7

(***************************************************************************)
(* Which assertions a step can still fail.                                 *)
(***************************************************************************)
LEMMA StepPanics ==
    ASSUME Typed, RingInv, CellInv, DeadlineOnce, Next
    PROVE  panicked' \in {"none", "sealed_before_written"}
<1>0. panicked = "none"
  BY DEF Next
<1>1. ASSUME NEW r \in Requests, RequestStep(r)
      PROVE  panicked' = "none"
  <2>1. CASE WriteChunk(r)
    <3>1. rpc[r] = "write" /\ (ChunkStart(r) = 0 => ~state[ChunkBatch(r)].deadline)
      BY <2>1, FirstWriter DEF WriteChunk
    <3> QED  BY <1>0, <2>1, <3>1 DEF WriteChunk
  <2>2. LoadHead(r) \/ CheckFull(r) \/ Reserve(r) \/ Publish(r)
          \/ NotifyExecutor(r) \/ Collect(r) => panicked' = panicked
    BY DEF LoadHead, CheckFull, Reserve, Publish, NotifyExecutor, Collect
  <2> QED  BY <1>0, <1>1, <2>1, <2>2 DEF RequestStep
<1>2. ASSUME NEW x \in Workers, WorkerStep(x)
      PROVE  panicked' \in {"none", "sealed_before_written"}
  <2>1. CASE SpinWritten(x)
    <3>1. ~(writtenSlots[BatchId(idx[x])] > BatchSize - open[x])
      BY <2>1, SpinEndsExactly DEF RingInv
    <3> QED  BY <1>0, <2>1, <3>1 DEF SpinWritten
  <2>2. CASE Finish(x)
    <3>1. \A cell \in outputs : cell.batch = BatchId(idx[x])
             => cell.gen < state[BatchId(idx[x])].gen
      BY <2>2, FinishFacts DEF RingInv
    <3>2. \A cell \in outputs : cell.batch = BatchId(idx[x])
             => cell.gen # state[BatchId(idx[x])].gen
      BY <3>1, CellNumbers, SMT
    <3> QED  BY <2>2, <3>2 DEF Finish
  <2>3. Seal(x) => panicked' \in {panicked, "sealed_before_written"}
    BY DEF Seal
  <2>4. LoadExecutorHead(x) \/ CheckRoom(x) \/ Listen(x) \/ Claim(x)
          \/ AwaitFirst(x) \/ Peek(x) \/ DeadlineExpires(x) \/ AwaitFull(x)
          => panicked' = panicked
    BY DEF LoadExecutorHead, CheckRoom, Listen, Claim, AwaitFirst, Peek,
           DeadlineExpires, AwaitFull
  <2>5. Warmup(x) \/ ResetBatch(x) \/ LoadTail(x) \/ CheckHead(x)
          \/ TakeDirty(x) \/ AdvanceTail(x) => panicked' = panicked
    BY DEF Warmup, ResetBatch, LoadTail, CheckHead, TakeDirty, AdvanceTail
  <2> QED  BY <1>0, <1>2, <2>1, <2>2, <2>3, <2>4, <2>5 DEF WorkerStep
<1> QED  BY <1>1, <1>2 DEF Next

\* The three invariants over a step.
LEMMA NextDeadlines ==
    Typed /\ RingInv /\ DeadlineOnce /\ [Next]_vars => DeadlineOnce'
<1> SUFFICES ASSUME Typed, RingInv, DeadlineOnce, [Next]_vars PROVE DeadlineOnce'
  OBVIOUS
<1>1. CASE Next
  BY <1>1, RequestDeadlines, WorkerDeadlines DEF Next
<1>2. CASE UNCHANGED vars
  <2>1. \A r \in Requests : Unpublished(r)' = Unpublished(r)
    BY <1>2 DEF Unpublished, ChunkSize
  <2>2. Window' = Window /\ \A i : Released(i)' <=> Released(i)
    BY <1>2 DEF Window, Released, Active
  <2> QED  BY <1>2, <2>1, <2>2 DEF DeadlineOnce
<1> QED  BY <1>1, <1>2

LEMMA ReservesWithinRingKeeps ==
    Spec /\ ReservesWithinRing => [](RingInv /\ CellInv /\ DeadlineOnce)
<1>1. Init => RingInv /\ CellInv /\ DeadlineOnce
  BY InitClaims, InitSlots, InitCells, InitDeadlines DEF RingInv
<1>2. Typed /\ RingInv /\ CellInv /\ DeadlineOnce /\ [Next]_vars
        /\ [\A r \in Requests : Reserve(r) => WithinRing(r)]_vars
         => RingInv' /\ CellInv' /\ DeadlineOnce'
  <2> SUFFICES ASSUME Typed, RingInv, CellInv, DeadlineOnce, [Next]_vars,
                      [\A r \in Requests : Reserve(r) => WithinRing(r)]_vars
               PROVE  RingInv' /\ CellInv' /\ DeadlineOnce'
    OBVIOUS
  <2>1. RingInv'
    BY RingInvKeeps
  <2> QED  BY <2>1, NextCells, NextDeadlines DEF RingInv
<1> QED  BY <1>1, <1>2, TypedInvariant, PTL DEF Spec, ReservesWithinRing

(***************************************************************************)
(* Of the assertions of the ring only "Batch is being sealed but not even  *)
(* written yet" can fail: the timer of a batch is never set twice, its     *)
(* rows are never counted twice and its output is set once.                *)
(***************************************************************************)
THEOREM OnlyLateWakeupsAbort ==
    Spec /\ ReservesWithinRing => [](NeverSealedUnwritten => NoPanic)
<1> DEFINE OnlySealing == NeverSealedUnwritten => NoPanic
<1>1. Init => OnlySealing
  BY DEF Init, NoPanic
<1>2. Typed /\ RingInv /\ CellInv /\ DeadlineOnce /\ OnlySealing /\ [Next]_vars
         => OnlySealing'
  BY StepPanics DEF NeverSealedUnwritten, NoPanic
<1>3. Spec /\ ReservesWithinRing => [](RingInv /\ CellInv /\ DeadlineOnce)
  BY ReservesWithinRingKeeps
<1> QED  BY <1>1, <1>2, <1>3, TypedInvariant, PTL DEF Spec

\* For calls of one row that holds without a hypothesis on the behaviour.
THEOREM OneRowCallsAbortOnlyLate ==
    ASSUME ReqSizes = {1}
    PROVE  Spec => [](NeverSealedUnwritten => NoPanic)
BY OneRowReserves, OnlyLateWakeupsAbort, PTL

-------------------------------------------------------------------------------
(***************************************************************************)
(* Where the rows of a reservation are.                                    *)
(***************************************************************************)

\* A copy changes only slots its request reserved and has not published.
LEMMA WriteElsewhere ==
    ASSUME Typed, RingInv, NEW r \in Requests, RequestStep(r),
           NEW i \in Window, NEW s \in SlotIds, i + s \notin Unpublished(r)
    PROVE  buffer'[BatchId(i)][s] = buffer[BatchId(i)][s]
<1>1. CASE ~WriteChunk(r)
  BY <1>1 DEF RequestStep, LoadHead, CheckFull, Reserve, Publish, NotifyExecutor,
              Collect
<1>2. CASE WriteChunk(r)
  <2>1. \/ buffer' = buffer
        \/ buffer' = [buffer EXCEPT ![ChunkBatch(r)] = CopiedRows(r)]
    BY <1>2 DEF WriteChunk
  <2>2. /\ Aligned(i) /\ i \in Nat /\ tail <= i /\ i < tail + RingSize
        /\ BatchId(i) \in BatchIds
    BY WindowMember, BatchIdInRange
  <2>3. CASE BatchId(i) = ChunkBatch(r) /\ s \in ChunkStart(r) .. ChunkEnd(r) - 1
    <3>1. /\ LowerBound(at[r]) + s \in Unpublished(r)
          /\ LowerBound(at[r]) + s \in Pending
          /\ LowerBound(LowerBound(at[r]) + s) = LowerBound(at[r])
      BY <1>2, <2>3, WrittenPlace DEF WriteChunk
    <3>2. LowerBound(at[r]) \in Window
      BY <3>1, PendingBatch DEF RingInv
    <3>3. BatchId(LowerBound(at[r])) = ChunkBatch(r)
      BY RequestNumbers, BatchOfIndex DEF ChunkBatch
    <3>4. i = LowerBound(at[r])
      BY <2>2, <2>3, <3>2, <3>3, WindowMember, Numbers, SameBatchInWindow
    <3> QED  BY <3>1, <3>4
  <2>4. CASE BatchId(i) # ChunkBatch(r)
    BY <2>1, <2>2, <2>4 DEF Typed, TypeOK
  <2>5. CASE BatchId(i) = ChunkBatch(r) /\ s \notin ChunkStart(r) .. ChunkEnd(r) - 1
    <3>1. CopiedRows(r)[s] = buffer[BatchId(i)][s]
      BY <2>5 DEF CopiedRows
    <3> QED  BY <2>1, <2>2, <2>5, <3>1 DEF Typed, TypeOK
  <2> QED  BY <2>3, <2>4, <2>5
<1> QED  BY <1>1, <1>2

\* What a request copied stays until it publishes it.
LEMMA RequestCopies ==
    ASSUME Typed, RingInv, ChunkCopied, NEW r \in Requests, RequestStep(r)
    PROVE  ChunkCopied'
<1>1. /\ size' = size
      /\ \A q \in Requests \ {r} : rpc'[q] = rpc[q] /\ sent'[q] = sent[q] /\ at'[q] = at[q]
  BY RequestCellFrame
<1> SUFFICES ASSUME NEW q \in Requests, rpc'[q] = "publish",
                    NEW s \in ChunkStart(q)' .. ChunkEnd(q)' - 1
             PROVE  buffer'[ChunkBatch(q)'][s] = <<q, sent'[q] + s - ChunkStart(q)'>>
  BY DEF ChunkCopied
<1>2. CASE q = r
  <2>1. WriteChunk(r)
    BY <1>2 DEF RequestStep, LoadHead, CheckFull, Reserve, Publish, NotifyExecutor,
                Collect, NextChunk, Typed, TypeOK
  <2>2. /\ UNCHANGED <<size, at, sent>>
        /\ buffer' = [buffer EXCEPT ![ChunkBatch(r)] = CopiedRows(r)]
    BY <1>2, <2>1 DEF WriteChunk, Typed, TypeOK
  <2>3. /\ ChunkStart(q)' = ChunkStart(q) /\ ChunkEnd(q)' = ChunkEnd(q)
        /\ ChunkBatch(q)' = ChunkBatch(q)
    BY <2>2 DEF ChunkStart, ChunkEnd, ChunkBatch, ChunkSize
  <2>4. s \in SlotIds /\ ChunkBatch(r) \in BatchIds
    <3>1. /\ ChunkStart(r) \in Nat /\ ChunkEnd(r) \in Nat /\ ChunkEnd(r) <= BatchSize
          /\ BatchSize \in Nat
      BY ChunkFacts, BatchSizeAssumption, SMT DEF SlotIds
    <3> QED  BY <1>2, <2>3, <3>1, ChunkFacts, SMT DEF SlotIds
  <2>5. CopiedRows(r)[s] = <<r, sent[r] + s - ChunkStart(r)>>
    BY <1>2, <2>3, <2>4 DEF CopiedRows
  <2>6. buffer'[ChunkBatch(r)] = CopiedRows(r)
    BY <2>2, <2>4 DEF Typed, TypeOK
  <2> QED  BY <1>2, <2>2, <2>3, <2>5, <2>6
<1>3. CASE q # r
  <2>1. /\ rpc[q] = "publish" /\ sent'[q] = sent[q]
        /\ ChunkStart(q)' = ChunkStart(q) /\ ChunkEnd(q)' = ChunkEnd(q)
        /\ ChunkBatch(q)' = ChunkBatch(q)
    BY <1>1, <1>3, OthersKept
  <2>2. s \in ChunkStart(q) .. ChunkEnd(q) - 1 /\ s \in SlotIds
    <3>1. /\ ChunkStart(q) \in Nat /\ ChunkEnd(q) \in Nat /\ ChunkEnd(q) <= BatchSize
          /\ BatchSize \in Nat
      BY ChunkFacts, BatchSizeAssumption, SMT DEF SlotIds
    <3> QED  BY <2>1, <3>1, SMT DEF SlotIds
  <2>3. buffer[ChunkBatch(q)][s] = <<q, sent[q] + s - ChunkStart(q)>>
    BY <2>1, <2>2 DEF ChunkCopied
  <2>4. /\ LowerBound(at[q]) + s \in Unpublished(q)
        /\ LowerBound(at[q]) + s \in Pending
        /\ LowerBound(LowerBound(at[q]) + s) = LowerBound(at[q])
    BY <2>1, <2>2, WrittenPlace
  <2>5. LowerBound(at[q]) \in Window /\ LowerBound(at[q]) + s \notin Unpublished(r)
    BY <1>3, <2>4, PendingBatch DEF RingInv, SlotInv, PendingApart
  <2>6. BatchId(LowerBound(at[q])) = ChunkBatch(q)
    BY RequestNumbers, BatchOfIndex DEF ChunkBatch
  <2>7. buffer'[ChunkBatch(q)][s] = buffer[ChunkBatch(q)][s]
    BY <2>2, <2>5, <2>6, WriteElsewhere
  <2> QED  BY <2>1, <2>3, <2>7
<1> QED  BY <1>2, <1>3

\* A step of a request leaves the rows that are held where they are.
LEMMA RequestHolds ==
    ASSUME Typed, RingInv, NEW r \in Requests, RequestStep(r),
           NEW q, NEW e \in Reservation, NEW first, RowsHeld(q, e, first)
    PROVE  RowsHeld(q, e, first)'
<1>1. /\ outputs' = outputs
      /\ state'[e.batch].gen = state[e.batch].gen
  BY RequestCellFrame, ReservationNumbers
<1>2. /\ head <= head' /\ Window' = Window
      /\ \A i : Released(i)' <=> Released(i)
      /\ \A i \in Pending' : i \in Pending \/ head <= i
  BY RequestSlotFrame
<1>3. head \in Nat /\ head' \in Nat
  <2>1. TypeOK'
    BY RequestTyped DEF Typed
  <2> QED  BY <2>1, Numbers DEF TypeOK
<1>4. /\ e.batch \in BatchIds /\ e.start \in Nat /\ e.end \in Nat
      /\ \A s \in e.start .. e.end - 1 : s \in SlotIds /\ s \in Nat
  BY ReservationNumbers
<1>5. ASSUME e.gen = state'[e.batch].gen
      PROVE  /\ RowsAt(buffer'[e.batch], q, e, first)
             /\ \A i \in Window : BatchId(i) = e.batch =>
                 /\ ~Released(i) /\ i + e.end <= head'
                 /\ \A s \in e.start .. e.end - 1 : i + s \notin Pending'
  <2>1. /\ RowsAt(buffer[e.batch], q, e, first)
        /\ \A i \in Window : BatchId(i) = e.batch =>
            /\ ~Released(i) /\ i + e.end <= head
            /\ \A s \in e.start .. e.end - 1 : i + s \notin Pending
    BY <1>1, <1>5 DEF RowsHeld
  <2>2. PICK i \in Window : BatchId(i) = e.batch
    <3>1. PICK i : Aligned(i) /\ BatchId(i) = e.batch /\ tail <= i /\ i < tail + RingSize
      BY <1>4, BatchInEveryLap DEF RingInv, ClaimInv, WholeBatches
    <3> QED  BY <3>1, WindowMember DEF Aligned
  <2>3. \A s \in e.start .. e.end - 1 : buffer'[e.batch][s] = buffer[e.batch][s]
    <3> SUFFICES ASSUME NEW s \in e.start .. e.end - 1
                 PROVE  buffer'[e.batch][s] = buffer[e.batch][s]
      OBVIOUS
    <3>1. i + s \notin Unpublished(r)
      BY <2>1, <2>2, PendingMember
    <3> QED  BY <1>4, <2>2, <3>1, WriteElsewhere
  <2>4. RowsAt(buffer'[e.batch], q, e, first)
    BY <2>1, <2>3 DEF RowsAt
  <2>5. ASSUME NEW j \in Window, BatchId(j) = e.batch
        PROVE  /\ ~Released(j) /\ j + e.end <= head'
               /\ \A s \in e.start .. e.end - 1 : j + s \notin Pending'
    <3>1. /\ ~Released(j) /\ j + e.end <= head /\ j \in Nat
          /\ \A s \in e.start .. e.end - 1 : j + s \notin Pending
      BY <2>1, <2>5, WindowMember
    <3>2. j + e.end <= head'
      BY <1>2, <1>3, <1>4, <3>1, SMT
    <3>3. ASSUME NEW s \in e.start .. e.end - 1 PROVE j + s \notin Pending'
      <4>1. j + s < head /\ j + s \in Nat
        BY <1>3, <1>4, <3>1, SMT
      <4> QED  BY <1>2, <1>3, <3>1, <4>1, SMT
    <3> QED  BY <3>1, <3>2, <3>3
  <2> QED  BY <2>4, <2>5
<1> QED  BY <1>1, <1>2, <1>5 DEF RowsHeld

\* A worker leaves them too: a run copies the buffer into the cell, and a reset
\* replaces the BatchState they belong to.
LEMMA WorkerHolds ==
    ASSUME Typed, RingInv, CellInv, NEW x \in Workers, WorkerStep(x),
           NEW q, NEW e \in Reservation, NEW first, RowsHeld(q, e, first)
    PROVE  RowsHeld(q, e, first)'
<1>1. UNCHANGED <<requestVars, buffer>> /\ Pending' = Pending
  BY WorkerCellFrame, PendingStays DEF RingInv, ClaimInv
<1>2. /\ e.batch \in BatchIds /\ e.gen \in Nat /\ e.end \in Nat
      /\ state[e.batch].gen \in Nat
  BY ReservationNumbers, GenNat
<1>3. /\ e.gen <= state'[e.batch].gen
      /\ e.gen = state'[e.batch].gen =>
            /\ e.gen = state[e.batch].gen
            /\ ResetBatch(x) => e.batch # BatchId(idx[x])
  <2>1. e.gen <= state[e.batch].gen
    BY DEF RowsHeld
  <2>2. CASE ResetBatch(x)
    <3>1. CASE e.batch = BatchId(idx[x])
      <4>1. state'[e.batch].gen = state[e.batch].gen + 1
        BY <2>2, <3>1, ResetFacts
      <4> QED  BY <1>2, <2>1, <4>1, SMT
    <3>2. CASE e.batch # BatchId(idx[x])
      <4>1. state'[e.batch] = state[e.batch]
        BY <1>2, <2>2, <3>2, ResetFacts
      <4> QED  BY <2>1, <3>2, <4>1
    <3> QED  BY <3>1, <3>2
  <2>3. CASE ~ResetBatch(x)
    <3>1. state'[e.batch].gen = state[e.batch].gen
      BY <1>2, <2>3, WorkerCellFrame, FinishFacts DEF RingInv, ClaimInv
    <3> QED  BY <2>1, <2>3, <3>1
  <2> QED  BY <2>2, <2>3
<1>4. ASSUME NEW cell \in outputs', cell.batch = e.batch, cell.gen = e.gen
      PROVE  RowsAt(cell.rows, q, e, first)
  <2>1. CASE cell \in outputs
    BY <1>4, <2>1 DEF RowsHeld
  <2>2. CASE cell \notin outputs
    <3>1. Finish(x)
      BY <2>2, WorkerCellFrame, ResetFacts DEF RingInv, ClaimInv
    <3>2. PICK ok \in Outcomes : outputs' = outputs \cup RunResult(BatchId(idx[x]), ok)
      BY <3>1, FinishFacts DEF RingInv
    <3>3. /\ cell.batch = BatchId(idx[x]) /\ cell.gen = state[BatchId(idx[x])].gen
          /\ cell.rows = buffer[BatchId(idx[x])]
      BY <2>2, <3>2 DEF RunResult
    <3> QED  BY <1>4, <3>3 DEF RowsHeld
  <2> QED  BY <2>1, <2>2
<1>5. ASSUME e.gen = state'[e.batch].gen, NEW i \in Window', BatchId(i) = e.batch
      PROVE  /\ ~Released(i)' /\ i + e.end <= head'
             /\ \A s \in e.start .. e.end - 1 : i + s \notin Pending
  <2>1. \A j \in Window : BatchId(j) = e.batch =>
          /\ ~Released(j) /\ j + e.end <= head
          /\ \A s \in e.start .. e.end - 1 : j + s \notin Pending
    BY <1>3, <1>5 DEF RowsHeld
  <2>2. i \in Window
    BY <1>5, <2>1, WorkerSlotFrame
  <2>3. ~Released(i)'
    BY <1>3, <1>5, <2>1, <2>2, WorkerSlotFrame
  <2>4. i + e.end <= head'
    <3>1. head \in Nat /\ head' \in Nat /\ head <= head'
      <4>1. TypeOK'
        BY WorkerTyped DEF Typed
      <4> QED  BY <4>1, Numbers, WorkerSlotFrame DEF TypeOK
    <3>2. i + e.end <= head /\ i \in Nat
      BY <1>5, <2>1, <2>2, WindowMember
    <3> QED  BY <1>2, <3>1, <3>2, SMT
  <2> QED  BY <1>5, <2>1, <2>2, <2>3, <2>4
<1>6. e.gen = state'[e.batch].gen => RowsAt(buffer'[e.batch], q, e, first)
  BY <1>1, <1>3 DEF RowsHeld
<1> QED  BY <1>1, <1>3, <1>4, <1>5, <1>6 DEF RowsHeld

-------------------------------------------------------------------------------
(***************************************************************************)
(* A new reservation holds the rows that were copied.                      *)
(***************************************************************************)
LEMMA PublishedRows ==
    ASSUME Typed, RingInv, CellInv, ChunkCopied, NEW r \in Requests, Publish(r),
           NEW e, e = [batch |-> ChunkBatch(r), gen |-> state[ChunkBatch(r)].gen,
                       start |-> ChunkStart(r), end |-> ChunkEnd(r)],
           NEW first, first = sent[r]
    PROVE  RowsHeld(r, e, first)'
<1>1. PICK low : low = LowerBound(at[r])
  OBVIOUS
<1>2. /\ at[r] \in Nat /\ ChunkSize(r) \in Nat /\ ChunkSize(r) > 0
      /\ low \in Nat /\ ChunkStart(r) = at[r] - low /\ low <= at[r]
      /\ BatchId(low) = ChunkBatch(r) /\ Aligned(low)
  <2>1. sent[r] < size[r]
    BY DEF Publish, RingInv, SlotInv, ChunkProgress
  <2> QED  BY <1>1, <2>1, RequestNumbers, BatchOfIndex DEF ChunkBatch, ChunkStart
<1>3. /\ at[r] \in Unpublished(r)
      /\ \A s \in at[r] .. at[r] + ChunkSize(r) - 1 : s \in Unpublished(r)
      /\ \A s \in at[r] .. at[r] + ChunkSize(r) - 1 : s \notin Pending'
  BY PublishRemoves DEF RingInv
<1>4. /\ low \in Window /\ ~Released(low)
      /\ \A x \in Workers : Active(x) /\ idx[x] = low => xpc[x] \notin {"run", "reset"}
  <2>1. at[r] \in Pending
    BY <1>3, PendingMember
  <2> QED  BY <1>1, <2>1, PendingBatch DEF RingInv
<1>5. /\ UNCHANGED <<outputs, state, buffer, tail, head, executorHead, workerVars>>
      /\ rpc[r] = "publish"
  BY DEF Publish
<1>6. ASSUME NEW cell \in outputs, cell.batch = e.batch, cell.gen = e.gen PROVE FALSE
  <2>1. cell.batch = ChunkBatch(r) /\ cell.gen = state[cell.batch].gen
    BY <1>6
  <2>2. PICK x \in Executors : xpc[x] = "reset" /\ BatchId(idx[x]) = ChunkBatch(r)
    BY <2>1 DEF CellInv, CellsOfPast
  <2>3. Active(x) /\ x \in Workers /\ idx[x] \in Window
    BY <2>2, HeldBatch DEF Active, RingInv
  <2>4. idx[x] = low
    BY <1>2, <1>4, <2>2, <2>3, WindowMember, Numbers, SameBatchInWindow
  <2> QED  BY <1>4, <2>2, <2>3, <2>4
<1>7. e.gen <= state[e.batch].gen
  BY ChunkFacts, GenNat, SMT
<1>8. RowsAt(buffer[e.batch], r, e, first)
  BY <1>5 DEF ChunkCopied, RowsAt
<1>9. ASSUME NEW i \in Window, BatchId(i) = e.batch
      PROVE  /\ ~Released(i) /\ i + e.end <= head
             /\ \A s \in e.start .. e.end - 1 : i + s \notin Pending'
  <2>1. i = low
    <3>1. BatchId(i) = BatchId(low)
      BY <1>2, <1>9
    <3> QED  BY <1>4, <3>1, WindowMember, Numbers, SameBatchInWindow
  <2>2. e.start = at[r] - low /\ e.end = at[r] - low + ChunkSize(r)
    BY <1>2 DEF ChunkEnd
  <2>3. i + e.end <= head
    <3>1. at[r] + ChunkSize(r) - 1 \in Unpublished(r)
      BY <1>2, <1>3, SMT
    <3>2. at[r] + ChunkSize(r) - 1 < head
      BY <3>1 DEF RingInv, SlotInv, PendingInRing
    <3> QED  BY <1>2, <2>1, <2>2, <3>2, Numbers, SMT
  <2>4. ASSUME NEW s \in e.start .. e.end - 1 PROVE i + s \notin Pending'
    <3>1. low + s \in at[r] .. at[r] + ChunkSize(r) - 1
      BY <1>2, <2>2, <2>4, SMT
    <3> QED  BY <1>3, <2>1, <3>1
  <2> QED  BY <1>4, <2>1, <2>3, <2>4
<1>10. Window' = Window /\ \A i : Released(i)' <=> Released(i)
  BY <1>5 DEF Window, Released, Active
<1> QED  BY <1>5, <1>6, <1>7, <1>8, <1>9, <1>10 DEF RowsHeld

-------------------------------------------------------------------------------
(***************************************************************************)
(* The order of the reservations of a request.                             *)
(***************************************************************************)

\* A reservation that comes after those that cover the rows from f[1] on.
LEMMA OneMore ==
    ASSUME NEW s \in Seq(Reservation), NEW n \in Nat,
           NEW f \in [1 .. Len(s) + 1 -> 0 .. n],
           \A k \in 1 .. Len(s) : f[k + 1] = f[k] + s[k].end - s[k].start,
           NEW e \in Reservation, NEW to \in 0 .. n,
           to = f[Len(s) + 1] + e.end - e.start
    PROVE  LET t == Append(s, e)
               g == [k \in 1 .. Len(s) + 2 |-> IF k = Len(s) + 2 THEN to ELSE f[k]]
           IN  /\ t \in Seq(Reservation) /\ Len(t) = Len(s) + 1
               /\ g \in [1 .. Len(t) + 1 -> 0 .. n]
               /\ g[1] = f[1] /\ g[Len(t) + 1] = to
               /\ \A k \in 1 .. Len(t) : /\ g[k + 1] = g[k] + t[k].end - t[k].start
                                         /\ g[k] = f[k]
               /\ \A k \in 1 .. Len(s) : t[k] = s[k]
               /\ t[Len(s) + 1] = e
<1> DEFINE t == Append(s, e)
           g == [k \in 1 .. Len(s) + 2 |-> IF k = Len(s) + 2 THEN to ELSE f[k]]
<1>1. /\ t \in Seq(Reservation) /\ Len(t) = Len(s) + 1 /\ Len(s) \in Nat
      /\ \A k \in 1 .. Len(s) : t[k] = s[k]
      /\ t[Len(s) + 1] = e
  BY SMT
<1>2. \A k \in 1 .. Len(s) + 1 : f[k] \in 0 .. n
  BY <1>1, SMT
<1>3. /\ \A k \in 1 .. Len(s) + 1 : g[k] = f[k]
      /\ g[Len(s) + 2] = to
  BY <1>1, SMT
<1>4. g \in [1 .. Len(s) + 2 -> 0 .. n]
  BY <1>1, <1>2, SMT
<1> HIDE DEF t, g
<1>5. ASSUME NEW k \in 1 .. Len(s) + 1
      PROVE  g[k + 1] = g[k] + t[k].end - t[k].start
  <2>1. CASE k = Len(s) + 1
    BY <1>1, <1>3, <2>1, SMT
  <2>2. CASE k \in 1 .. Len(s)
    <3>1. k + 1 \in 1 .. Len(s) + 1
      BY <1>1, <2>2, SMT
    <3>2. /\ g[k] = f[k] /\ g[k + 1] = f[k + 1] /\ t[k] = s[k]
          /\ f[k + 1] = f[k] + s[k].end - s[k].start
      BY <1>1, <1>3, <2>2, <3>1
    <3> QED  BY <3>2
  <2> QED  BY <1>1, <2>1, <2>2, SMT
<1>6. Len(s) + 2 = Len(t) + 1 /\ 1 \in 1 .. Len(s) + 1
  BY <1>1, SMT
<1>7. /\ t \in Seq(Reservation) /\ Len(t) = Len(s) + 1
      /\ g \in [1 .. Len(t) + 1 -> 0 .. n]
      /\ g[1] = f[1] /\ g[Len(t) + 1] = to
      /\ \A k \in 1 .. Len(t) : /\ g[k + 1] = g[k] + t[k].end - t[k].start
                                /\ g[k] = f[k]
      /\ \A k \in 1 .. Len(s) : t[k] = s[k]
      /\ t[Len(s) + 1] = e
  BY <1>1, <1>3, <1>4, <1>5, <1>6
<1> QED  BY <1>7 DEF t, g

\* The reservations that are left when the oldest is given back.
LEMMA OneLess ==
    ASSUME NEW s \in Seq(Reservation), s # <<>>, NEW n \in Nat,
           NEW f \in [1 .. Len(s) + 1 -> 0 .. n],
           \A k \in 1 .. Len(s) : f[k + 1] = f[k] + s[k].end - s[k].start
    PROVE  LET t == Tail(s)
               g == [k \in 1 .. Len(s) |-> f[k + 1]]
           IN  /\ t \in Seq(Reservation) /\ Len(t) + 1 = Len(s)
               /\ g \in [1 .. Len(t) + 1 -> 0 .. n]
               /\ g[1] = f[1] + s[1].end - s[1].start
               /\ g[Len(t) + 1] = f[Len(s) + 1]
               /\ \A k \in 1 .. Len(t) : /\ g[k + 1] = g[k] + t[k].end - t[k].start
                                         /\ g[k] = f[k + 1] /\ t[k] = s[k + 1]
                                         /\ k + 1 \in 1 .. Len(s)
<1> DEFINE t == Tail(s)
           g == [k \in 1 .. Len(s) |-> f[k + 1]]
<1>1. /\ t \in Seq(Reservation) /\ Len(t) + 1 = Len(s) /\ Len(s) \in Nat
      /\ Len(t) \in Nat
      /\ \A k \in 1 .. Len(t) : t[k] = s[k + 1] /\ k + 1 \in 1 .. Len(s)
  BY SMT
<1>2. /\ \A k \in 1 .. Len(s) : g[k] = f[k + 1]
      /\ g \in [1 .. Len(t) + 1 -> 0 .. n]
  <2>1. \A k \in 1 .. Len(s) : f[k + 1] \in 0 .. n
    <3> SUFFICES ASSUME NEW k \in 1 .. Len(s) PROVE f[k + 1] \in 0 .. n
      OBVIOUS
    <3>1. k + 1 \in 1 .. Len(s) + 1
      BY <1>1, SMT
    <3> QED  BY <3>1
  <2> QED  BY <1>1, <2>1
<1>3. 1 \in 1 .. Len(s) /\ Len(t) + 1 \in 1 .. Len(s)
  BY <1>1, SMT
<1> HIDE DEF t, g
<1>4. g[1] = f[1] + s[1].end - s[1].start /\ g[Len(t) + 1] = f[Len(s) + 1]
  BY <1>1, <1>2, <1>3
<1>5. ASSUME NEW k \in 1 .. Len(t)
      PROVE  g[k + 1] = g[k] + t[k].end - t[k].start /\ g[k] = f[k + 1]
  <2>1. k \in 1 .. Len(s) /\ k + 1 \in 1 .. Len(s) /\ t[k] = s[k + 1]
    BY <1>1, SMT
  <2> QED  BY <1>2, <2>1
<1> QED  BY <1>1, <1>2, <1>4, <1>5 DEF t, g

\* Nothing of the order changes for a request that neither gains nor loses a
\* reservation.
LEMMA OrderKept ==
    ASSUME Typed, NEW q \in Requests, RowsInOrder(q),
           UNCHANGED size, resv'[q] = resv[q], answer'[q] = answer[q],
           Taken(q)' = Taken(q),
           \A e \in Reservation : \A first :
                RowsHeld(q, e, first) => RowsHeld(q, e, first)'
    PROVE  RowsInOrder(q)'
<1>1. PICK f \in [1 .. Len(resv[q]) + 1 -> 0 .. size[q]] :
        /\ f[1] = Len(answer[q])
        /\ f[Len(resv[q]) + 1] = Taken(q)
        /\ \A k \in 1 .. Len(resv[q]) :
            /\ f[k + 1] = f[k] + resv[q][k].end - resv[q][k].start
            /\ RowsHeld(q, resv[q][k], f[k])
  BY DEF RowsInOrder
<1>2. \A k \in 1 .. Len(resv'[q]) : RowsHeld(q, resv[q][k], f[k])'
  <2> SUFFICES ASSUME NEW k \in 1 .. Len(resv'[q])
               PROVE  RowsHeld(q, resv[q][k], f[k])'
    OBVIOUS
  <2>1. PICK e \in Reservation : e = resv[q][k]
    BY HeldReservation
  <2>2. RowsHeld(q, e, f[k])
    BY <1>1, <2>1
  <2>3. RowsHeld(q, e, f[k])'
    BY <2>2
  <2> QED  BY <2>1, <2>3 DEF RowsHeld
<1> QED  BY <1>1, <1>2 DEF RowsInOrder

\* Publishing adds the rows of the chunk at the end.
LEMMA PublishOrder ==
    ASSUME Typed, RingInv, CellInv, ChunkCopied, NEW r \in Requests, Publish(r),
           RequestStep(r), RowsInOrder(r)
    PROVE  RowsInOrder(r)'
<1>1. PICK f \in [1 .. Len(resv[r]) + 1 -> 0 .. size[r]] :
        /\ f[1] = Len(answer[r])
        /\ f[Len(resv[r]) + 1] = Taken(r)
        /\ \A k \in 1 .. Len(resv[r]) :
            /\ f[k + 1] = f[k] + resv[r][k].end - resv[r][k].start
            /\ RowsHeld(r, resv[r][k], f[k])
  BY DEF RowsInOrder
<1>2. PICK s, e, n, from :
        /\ s = resv[r] /\ n = size[r] /\ from = sent[r]
        /\ e = [batch |-> ChunkBatch(r), gen |-> state[ChunkBatch(r)].gen,
                start |-> ChunkStart(r), end |-> ChunkEnd(r)]
  OBVIOUS
<1>3. PICK to : to = from + ChunkSize(r)
  OBVIOUS
<1>4. /\ s \in Seq(Reservation) /\ e \in Reservation /\ n \in Nat
      /\ from \in Nat /\ to \in 0 .. n
      /\ to = from + e.end - e.start
  <2>1. /\ ChunkSize(r) \in Nat /\ from \in Nat /\ from + ChunkSize(r) <= n /\ n \in Nat
    BY <1>2, ChunkFacts, RequestNumbers
  <2>2. ChunkStart(r) \in Nat /\ e.start = ChunkStart(r)
        /\ e.end = ChunkStart(r) + ChunkSize(r)
    BY <1>2, ChunkFacts, BatchSizeAssumption, SMT DEF SlotIds, ChunkEnd
  <2>3. e \in Reservation /\ s \in Seq(Reservation)
    BY <1>2, ReservationTyped, HeldReservation
  <2> QED  BY <1>3, <2>1, <2>2, <2>3, SMT
<1>5. /\ rpc[r] = "publish" /\ Taken(r) = from
      /\ UNCHANGED <<size, answer>> /\ resv'[r] = Append(s, e)
  BY <1>2 DEF Publish, Taken, Typed, TypeOK
<1>6. Taken(r)' = to
  <2>1. CASE MustNotify(r)
    <3>1. UNCHANGED <<sent, at, size>> /\ rpc'[r] = "notify"
      BY <2>1 DEF Publish, Typed, TypeOK
    <3>2. ChunkSize(r)' = ChunkSize(r)
      BY <3>1 DEF ChunkSize
    <3> QED  BY <1>2, <1>3, <3>1, <3>2 DEF Taken
  <2>2. CASE ~MustNotify(r)
    <3>1. sent'[r] = sent[r] + ChunkSize(r) /\ rpc'[r] \in {"wait", "write"}
      BY <2>2 DEF Publish, NextChunk, Typed, TypeOK
    <3> QED  BY <1>2, <1>3, <3>1 DEF Taken
  <2> QED  BY <2>1, <2>2
<1>7. \A k \in 1 .. Len(s) : RowsHeld(r, s[k], f[k])'
  <2> SUFFICES ASSUME NEW k \in 1 .. Len(s) PROVE RowsHeld(r, s[k], f[k])'
    OBVIOUS
  <2>1. s[k] \in Reservation
    BY <1>4, SMT
  <2> QED  BY <1>1, <1>2, <2>1, RequestHolds
<1>8. RowsHeld(r, e, from)'
  BY <1>2, PublishedRows
<1>9. PICK t, g :
        /\ t = Append(s, e)
        /\ g = [k \in 1 .. Len(s) + 2 |-> IF k = Len(s) + 2 THEN to ELSE f[k]]
  OBVIOUS
<1>10. /\ Len(t) = Len(s) + 1 /\ Len(s) \in Nat
       /\ g \in [1 .. Len(t) + 1 -> 0 .. n]
       /\ g[1] = f[1] /\ g[Len(t) + 1] = to
       /\ \A k \in 1 .. Len(t) : /\ g[k + 1] = g[k] + t[k].end - t[k].start
                                 /\ g[k] = f[k]
       /\ \A k \in 1 .. Len(s) : t[k] = s[k]
       /\ t[Len(s) + 1] = e
  <2>1. /\ f \in [1 .. Len(s) + 1 -> 0 .. n] /\ f[Len(s) + 1] = from
        /\ \A k \in 1 .. Len(s) : f[k + 1] = f[k] + s[k].end - s[k].start
    BY <1>1, <1>2, <1>5
  <2>2. Len(s) \in Nat
    BY <1>4, SMT
  <2>3. to = f[Len(s) + 1] + e.end - e.start
    BY <1>4, <2>1
  <2> QED  BY <1>4, <1>9, <2>1, <2>2, <2>3, OneMore
<1>11. \A k \in 1 .. Len(t) : RowsHeld(r, t[k], g[k])'
  <2> SUFFICES ASSUME NEW k \in 1 .. Len(t) PROVE RowsHeld(r, t[k], g[k])'
    OBVIOUS
  <2>1. CASE k \in 1 .. Len(s)
    BY <1>7, <1>10, <2>1
  <2>2. CASE k = Len(s) + 1
    BY <1>1, <1>2, <1>5, <1>8, <1>10, <2>2
  <2> QED  BY <1>10, <2>1, <2>2, SMT
<1>12. resv'[r] = t /\ size'[r] = n /\ f[1] = Len(answer'[r])
  BY <1>1, <1>2, <1>5, <1>9
<1>13. \A k \in 1 .. Len(t) : RowsHeld(r, resv[r][k], g[k])'
  BY <1>11, <1>12 DEF RowsHeld
<1> QED  BY <1>6, <1>10, <1>12, <1>13 DEF RowsInOrder

\* Collecting takes the rows of the oldest reservation.
LEMMA CollectOrder ==
    ASSUME Typed, RingInv, RowWidth = 1, NEW r \in Requests, Collect(r),
           RequestStep(r), RowsInOrder(r),
           \A k \in 1 .. Len(answer[r]) : answer[r][k] = <<<<r, k - 1>>, 0>>
    PROVE  /\ RowsInOrder(r)'
           /\ \A k \in 1 .. Len(answer'[r]) : answer'[r][k] = <<<<r, k - 1>>, 0>>
           /\ rpc'[r] = "ok" => sent'[r] = size'[r] /\ resv'[r] = <<>>
<1>1. PICK f \in [1 .. Len(resv[r]) + 1 -> 0 .. size[r]] :
        /\ f[1] = Len(answer[r])
        /\ f[Len(resv[r]) + 1] = Taken(r)
        /\ \A k \in 1 .. Len(resv[r]) :
            /\ f[k + 1] = f[k] + resv[r][k].end - resv[r][k].start
            /\ RowsHeld(r, resv[r][k], f[k])
  BY DEF RowsInOrder
<1>2. PICK s, n, a : s = resv[r] /\ n = size[r] /\ a = answer[r]
  OBVIOUS
<1>3. /\ s \in Seq(Reservation) /\ s # <<>> /\ n \in Nat /\ Len(s) \in Nat
      /\ f \in [1 .. Len(s) + 1 -> 0 .. n] /\ a \in Seq(Rows \X Nat)
      /\ \A k \in 1 .. Len(s) : f[k + 1] = f[k] + s[k].end - s[k].start
  <2>1. s # <<>> /\ n \in Nat /\ a \in Seq(Rows \X Nat)
    BY <1>2, RequestNumbers DEF Collect, Typed, TypeOK
  <2> QED  BY <1>1, <1>2, <2>1, HeldReservation
<1>4. /\ rpc[r] = "wait" /\ UNCHANGED <<outputs, size, at, sent>>
      /\ rpc'[r] \in {"ok", "wait", "error"}
      /\ Taken(r)' = Taken(r)
  BY DEF Collect, Taken, Typed, TypeOK
<1>5. PICK cell \in outputs :
        /\ cell.batch = Head(s).batch /\ cell.gen = Head(s).gen
        /\ \/ /\ answer'[r] = a \o SliceOf(cell, Head(s).start, Head(s).end)
              /\ resv'[r] = Tail(s)
              /\ rpc'[r] = "ok" => Tail(s) = <<>>
           \/ UNCHANGED <<answer, resv>> /\ rpc'[r] = "error"
  BY <1>2 DEF Collect, Typed, TypeOK
<1>6. CASE UNCHANGED <<answer, resv>> /\ rpc'[r] = "error"
  <2>1. RowsInOrder(r)'
    BY <1>4, <1>6, RequestHolds, OrderKept
  <2> QED  BY <1>6, <2>1
<1>7. CASE /\ answer'[r] = a \o SliceOf(cell, Head(s).start, Head(s).end)
           /\ resv'[r] = Tail(s)
           /\ rpc'[r] = "ok" => Tail(s) = <<>>
  <2>1. PICK e : e = s[1]
    OBVIOUS
  <2>2. /\ e \in Reservation /\ Head(s) = e /\ 1 \in 1 .. Len(s)
    BY <1>3, <2>1, SMT
  <2>3. /\ e.start \in Nat /\ e.end \in Nat /\ e.start <= e.end
    BY <2>2, ReservationNumbers
  <2>4. \A k \in e.start .. e.end - 1 : cell.rows[k] = <<r, f[1] + k - e.start>>
    <3>1. RowsHeld(r, e, f[1])
      BY <1>1, <1>2, <2>1, <2>2
    <3> QED  BY <1>5, <2>2, <3>1 DEF RowsHeld, RowsAt
  <2>5. PICK d : d = SliceOf(cell, e.start, e.end)
    OBVIOUS
  <2>6. /\ Len(d) = e.end - e.start /\ d \in Seq(Rows \X Nat)
        /\ \A k \in 1 .. Len(d) : d[k] = <<<<r, f[1] + k - 1>>, 0>>
    <3>1. d \in Seq(Rows \X Nat)
      <4>1. cell \in OutputCell
        BY DEF Typed, TypeOK
      <4> QED  BY <2>2, <2>5, <4>1, SliceTyped
    <3>2. d = [k \in 1 .. e.end - e.start |->
                 <<cell.rows[(e.start + k - 1) \div 1], (e.start + k - 1) % 1>>]
      BY <2>5 DEF SliceOf
    <3>3. Len(d) = e.end - e.start
      BY <2>3, <3>1, <3>2, SMT
    <3>4. ASSUME NEW k \in 1 .. e.end - e.start
          PROVE  d[k] = <<<<r, f[1] + k - 1>>, 0>>
      <4>1. PICK i : i = e.start + k - 1
        OBVIOUS
      <4>2. i \in e.start .. e.end - 1 /\ i \in Nat /\ i - e.start = k - 1
        BY <2>3, <4>1, SMT
      <4>3. i \div 1 = i /\ i % 1 = 0
        BY <4>2, SMT
      <4>4. d[k] = <<cell.rows[i], 0>>
        BY <3>2, <4>1, <4>3
      <4>5. f[1] \in Nat
        BY <1>3, SMT
      <4>6. f[1] + i - e.start = f[1] + k - 1
        BY <2>3, <4>2, <4>5, SMT
      <4>7. cell.rows[i] = <<r, f[1] + i - e.start>>
        BY <2>4, <4>2
      <4> QED  BY <4>4, <4>6, <4>7
    <3> QED  BY <3>1, <3>3, <3>4
  <2>7. PICK t, g : t = Tail(s) /\ g = [k \in 1 .. Len(s) |-> f[k + 1]]
    OBVIOUS
  <2>8. /\ t \in Seq(Reservation) /\ Len(t) + 1 = Len(s)
        /\ g \in [1 .. Len(t) + 1 -> 0 .. n]
        /\ g[1] = f[1] + e.end - e.start
        /\ g[Len(t) + 1] = f[Len(s) + 1]
        /\ \A k \in 1 .. Len(t) : /\ g[k + 1] = g[k] + t[k].end - t[k].start
                                  /\ g[k] = f[k + 1] /\ t[k] = s[k + 1]
                                  /\ k + 1 \in 1 .. Len(s)
    BY <1>3, <2>1, <2>7, OneLess, SMTT(30)
  <2>9. /\ answer'[r] = a \o d /\ Len(a) = f[1] /\ Len(a) \in Nat /\ Len(d) \in Nat
        /\ Len(a \o d) = Len(a) + Len(d)
        /\ \A k \in 1 .. Len(a) : (a \o d)[k] = a[k]
        /\ \A k \in 1 .. Len(d) : (a \o d)[Len(a) + k] = d[k]
    <3>1. answer'[r] = a \o d /\ Len(a) = f[1]
      BY <1>1, <1>2, <1>7, <2>2, <2>5
    <3>2. Len(a) \in Nat /\ Len(d) \in Nat
      BY <1>3, <2>6, SMT
    <3>3. \A u, v \in Seq(Rows \X Nat) :
            /\ Len(u \o v) = Len(u) + Len(v)
            /\ \A k \in 1 .. Len(u) : (u \o v)[k] = u[k]
            /\ \A k \in 1 .. Len(v) : (u \o v)[Len(u) + k] = v[k]
      BY SMT
    <3> QED  BY <1>3, <2>6, <3>1, <3>2, <3>3
  <2>10. Len(answer'[r]) = g[1]
    BY <2>3, <2>6, <2>8, <2>9, SMT
  <2>11. \A k \in 1 .. Len(answer'[r]) : answer'[r][k] = <<<<r, k - 1>>, 0>>
    <3> SUFFICES ASSUME NEW k \in 1 .. Len(answer'[r])
                 PROVE  answer'[r][k] = <<<<r, k - 1>>, 0>>
      OBVIOUS
    <3>1. k \in Nat /\ 1 <= k /\ k <= Len(a) + Len(d)
      BY <2>9, SMT
    <3>2. CASE k <= Len(a)
      <4>1. k \in 1 .. Len(a)
        BY <2>9, <3>1, <3>2, SMT
      <4> QED  BY <1>2, <2>9, <4>1
    <3>3. CASE k > Len(a)
      <4>1. PICK j : j = k - Len(a)
        OBVIOUS
      <4>2. j \in 1 .. Len(d) /\ Len(a) + j = k /\ Len(a) + j - 1 = k - 1
        BY <2>9, <3>1, <3>3, <4>1, SMT
      <4>3. answer'[r][k] = d[j]
        BY <2>9, <4>2
      <4>4. d[j] = <<<<r, f[1] + j - 1>>, 0>> /\ f[1] + j - 1 = k - 1
        BY <2>6, <2>9, <4>2
      <4> QED  BY <4>3, <4>4
    <3> QED  BY <2>9, <3>1, <3>2, <3>3, SMT
  <2>12. \A k \in 1 .. Len(t) : RowsHeld(r, t[k], g[k])'
    <3> SUFFICES ASSUME NEW k \in 1 .. Len(t) PROVE RowsHeld(r, t[k], g[k])'
      OBVIOUS
    <3>1. k + 1 \in 1 .. Len(s) /\ t[k] = s[k + 1] /\ g[k] = f[k + 1]
      BY <2>8
    <3>2. RowsHeld(r, t[k], g[k]) /\ t[k] \in Reservation
      BY <1>1, <1>2, <1>3, <3>1
    <3> QED  BY <3>2, RequestHolds
  <2>13. resv'[r] = t /\ size'[r] = n
    BY <1>2, <1>4, <1>7, <2>7
  <2>14. \A k \in 1 .. Len(t) : RowsHeld(r, resv[r][k], g[k])'
    BY <2>12, <2>13 DEF RowsHeld
  <2>15. g[Len(t) + 1] = Taken(r)'
    BY <1>1, <1>2, <1>4, <2>8
  <2>16. RowsInOrder(r)'
    BY <2>8, <2>10, <2>13, <2>14, <2>15 DEF RowsInOrder
  <2>17. sent[r] = size[r]
    BY <1>4 DEF RingInv, SlotInv, ChunkProgress
  <2> QED  BY <1>4, <1>7, <2>11, <2>16, <2>17
<1> QED  BY <1>5, <1>6, <1>7

-------------------------------------------------------------------------------
(***************************************************************************)
(* The answers over a step.                                                *)
(***************************************************************************)
LEMMA InitAnswers == Init => ChunkCopied /\ AnswersInOrder
<1> SUFFICES ASSUME Init PROVE ChunkCopied /\ AnswersInOrder
  OBVIOUS
<1>1. ChunkCopied
  BY DEF Init, ChunkCopied
<1>2. ASSUME NEW r \in Requests
      PROVE  /\ RowsInOrder(r)
             /\ \A k \in 1 .. Len(answer[r]) : answer[r][k] = <<<<r, k - 1>>, 0>>
             /\ rpc[r] = "ok" => sent[r] = size[r] /\ resv[r] = <<>>
  <2>1. /\ rpc[r] = "new" /\ sent[r] = 0 /\ resv[r] = <<>> /\ answer[r] = <<>>
        /\ size[r] \in Nat
    BY ReqSizesAssumption DEF Init
  <2>2. PICK f : f = [k \in 1 .. 1 |-> 0]
    OBVIOUS
  <2>3. f \in [1 .. Len(resv[r]) + 1 -> 0 .. size[r]] /\ f[1] = 0
    BY <2>1, <2>2
  <2>4. Taken(r) = 0
    BY <2>1 DEF Taken
  <2>5. RowsInOrder(r)
    BY <2>1, <2>3, <2>4 DEF RowsInOrder
  <2> QED  BY <2>1, <2>5
<1> QED  BY <1>1, <1>2 DEF AnswersInOrder

LEMMA RequestAnswers ==
    ASSUME Typed, RingInv, CellInv, ChunkCopied, AnswersInOrder, RowWidth = 1,
           NEW r \in Requests, RequestStep(r)
    PROVE  AnswersInOrder'
<1> DEFINE InOrder(q) ==
      /\ RowsInOrder(q)
      /\ \A k \in 1 .. Len(answer[q]) : answer[q][k] = <<<<q, k - 1>>, 0>>
      /\ rpc[q] = "ok" => sent[q] = size[q] /\ resv[q] = <<>>
<1>1. \A q \in Requests : InOrder(q)
  BY DEF AnswersInOrder
<1>2. /\ size' = size
      /\ \A q \in Requests \ {r} : /\ rpc'[q] = rpc[q] /\ resv'[q] = resv[q]
                                   /\ sent'[q] = sent[q] /\ at'[q] = at[q]
                                   /\ answer'[q] = answer[q]
  BY RequestCellFrame
<1>3. ASSUME NEW q \in Requests
      PROVE  \A e \in Reservation : \A first :
                RowsHeld(q, e, first) => RowsHeld(q, e, first)'
  BY RequestHolds
<1>4. ASSUME NEW q \in Requests \ {r} PROVE InOrder(q)'
  <2>1. Taken(q)' = Taken(q)
    BY <1>2, OthersKept DEF Taken
  <2>2. RowsInOrder(q)'
    BY <1>1, <1>2, <1>3, <2>1, OrderKept
  <2> QED  BY <1>1, <1>2, <2>2
<1>5. InOrder(r)'
  <2>1. CASE Publish(r)
    <3>1. RowsInOrder(r)'
      BY <1>1, <2>1, PublishOrder
    <3>2. answer' = answer /\ rpc'[r] \in {"notify", "wait", "write"}
      BY <2>1 DEF Publish, NextChunk, Typed, TypeOK
    <3> QED  BY <1>1, <3>1, <3>2
  <2>2. CASE Collect(r)
    BY <1>1, <2>2, CollectOrder
  <2>3. CASE LoadHead(r) \/ CheckFull(r) \/ Reserve(r) \/ WriteChunk(r)
    <3>1. /\ UNCHANGED <<resv, answer, sent>>
          /\ rpc[r] # "notify" /\ rpc'[r] \notin {"notify", "ok"}
      BY <2>3 DEF LoadHead, CheckFull, Reserve, WriteChunk, Typed, TypeOK
    <3>2. Taken(r)' = Taken(r)
      BY <3>1 DEF Taken
    <3>3. RowsInOrder(r)'
      BY <1>1, <1>2, <1>3, <3>1, <3>2, OrderKept
    <3> QED  BY <1>1, <3>1, <3>3
  <2>4. CASE NotifyExecutor(r)
    <3>1. /\ UNCHANGED <<resv, answer>> /\ rpc[r] = "notify"
          /\ rpc'[r] \in {"wait", "write"}
          /\ sent'[r] = sent[r] + ChunkSize(r)
      BY <2>4 DEF NotifyExecutor, NextChunk, Typed, TypeOK
    <3>2. Taken(r)' = Taken(r)
      BY <3>1 DEF Taken
    <3>3. RowsInOrder(r)'
      BY <1>1, <1>2, <1>3, <3>1, <3>2, OrderKept
    <3> QED  BY <1>1, <3>1, <3>3
  <2> QED  BY <2>1, <2>2, <2>3, <2>4 DEF RequestStep
<1> QED  BY <1>4, <1>5 DEF AnswersInOrder

LEMMA WorkerAnswers ==
    ASSUME Typed, RingInv, CellInv, ChunkCopied, AnswersInOrder,
           NEW x \in Workers, WorkerStep(x)
    PROVE  ChunkCopied' /\ AnswersInOrder'
<1>1. UNCHANGED <<requestVars, buffer>>
  BY WorkerCellFrame DEF RingInv, ClaimInv
<1>2. \A q \in Requests : /\ ChunkSize(q)' = ChunkSize(q)
                          /\ ChunkStart(q)' = ChunkStart(q)
                          /\ ChunkEnd(q)' = ChunkEnd(q)
                          /\ ChunkBatch(q)' = ChunkBatch(q)
                          /\ Taken(q)' = Taken(q)
  BY <1>1 DEF ChunkSize, ChunkStart, ChunkEnd, ChunkBatch, Taken
<1>3. ChunkCopied'
  BY <1>1, <1>2 DEF ChunkCopied
<1>4. ASSUME NEW q \in Requests PROVE RowsInOrder(q)'
  <2>1. \A e \in Reservation : \A first :
            RowsHeld(q, e, first) => RowsHeld(q, e, first)'
    BY WorkerHolds
  <2> QED  BY <1>1, <1>2, <2>1, OrderKept DEF AnswersInOrder
<1>5. AnswersInOrder'
  BY <1>1, <1>4 DEF AnswersInOrder
<1> QED  BY <1>3, <1>5

LEMMA NextAnswers ==
    ASSUME Typed, RingInv, CellInv, ChunkCopied, AnswersInOrder, RowWidth = 1,
           [Next]_vars
    PROVE  ChunkCopied' /\ AnswersInOrder'
<1>1. CASE Next
  BY <1>1, RequestCopies, RequestAnswers, WorkerAnswers DEF Next
<1>2. CASE UNCHANGED vars
  <2>1. \A q \in Requests : /\ ChunkSize(q)' = ChunkSize(q)
                            /\ ChunkStart(q)' = ChunkStart(q)
                            /\ ChunkEnd(q)' = ChunkEnd(q)
                            /\ ChunkBatch(q)' = ChunkBatch(q)
                            /\ Taken(q)' = Taken(q)
    BY <1>2 DEF ChunkSize, ChunkStart, ChunkEnd, ChunkBatch, Taken
  <2>2. ChunkCopied'
    BY <1>2, <2>1 DEF ChunkCopied
  <2>3. /\ Window' = Window /\ Pending' = Pending
        /\ \A i : Released(i)' <=> Released(i)
    BY <1>2, PendingStays DEF Window, Released, Active
  <2>4. \A q \in Requests : \A e \in Reservation : \A first :
            RowsHeld(q, e, first) => RowsHeld(q, e, first)'
    BY <1>2, <2>3 DEF RowsHeld
  <2>5. \A q \in Requests : RowsInOrder(q)'
    BY <1>2, <2>1, <2>4, OrderKept DEF AnswersInOrder
  <2> QED  BY <1>2, <2>2, <2>5 DEF AnswersInOrder
<1> QED  BY <1>1, <1>2

LEMMA InvImpliesOwnAnswer ==
    ASSUME Typed, AnswersInOrder, RowWidth = 1
    PROVE  OwnAnswer
<1> SUFFICES ASSUME NEW r \in Requests, rpc[r] = "ok"
             PROVE  answer[r] = Expected(r)
  BY DEF OwnAnswer
<1>1. /\ RowsInOrder(r) /\ sent[r] = size[r] /\ resv[r] = <<>>
      /\ \A k \in 1 .. Len(answer[r]) : answer[r][k] = <<<<r, k - 1>>, 0>>
      /\ answer[r] \in Seq(Rows \X Nat) /\ size[r] \in Nat
  BY RequestNumbers DEF AnswersInOrder, Typed, TypeOK
<1>2. Len(answer[r]) = size[r]
  <2>1. Taken(r) = size[r] /\ Len(resv[r]) = 0
    BY <1>1 DEF Taken
  <2> QED  BY <1>1, <2>1 DEF RowsInOrder
<1>3. answer[r] = [k \in 1 .. size[r] |-> answer[r][k]]
  BY <1>1, <1>2, SMT
<1>4. \A k \in 1 .. size[r] :
        answer[r][k] = <<<<r, (k - 1) \div RowWidth>>, (k - 1) % RowWidth>>
  <2> SUFFICES ASSUME NEW k \in 1 .. size[r]
               PROVE  answer[r][k] = <<<<r, (k - 1) \div 1>>, (k - 1) % 1>>
    OBVIOUS
  <2>1. (k - 1) \div 1 = k - 1 /\ (k - 1) % 1 = 0
    BY <1>1, SMT
  <2>2. answer[r][k] = <<<<r, k - 1>>, 0>>
    BY <1>1, <1>2
  <2> QED  BY <2>1, <2>2
<1>5. size[r] * RowWidth = size[r]
  BY <1>1, SMT
<1> QED  BY <1>3, <1>4, <1>5 DEF Expected

(***************************************************************************)
(* A caller whose call succeeds gets the outputs of its own rows, all of   *)
(* them and in order, however the calls of other callers, the executors    *)
(* and the moves of the tail interleave: the rows stay where the           *)
(* WriteReservation says until they are collected (insert_tensors_at,      *)
(* execute_current_batch, get_data).  An output row of one element is what *)
(* the slices of value_as_byte_slice are right for.                        *)
(***************************************************************************)
THEOREM CallersGetTheirOwnRows ==
    ASSUME RowWidth = 1
    PROVE  Spec /\ ReservesWithinRing => []OwnAnswer
<1>1. Init => ChunkCopied /\ AnswersInOrder
  BY InitAnswers
<1>2. /\ Typed /\ RingInv /\ CellInv /\ DeadlineOnce /\ ChunkCopied
      /\ AnswersInOrder /\ [Next]_vars
      => ChunkCopied' /\ AnswersInOrder'
  BY NextAnswers
<1>3. Typed /\ AnswersInOrder => OwnAnswer
  BY InvImpliesOwnAnswer
<1>4. Spec /\ ReservesWithinRing => [](RingInv /\ CellInv /\ DeadlineOnce)
  BY ReservesWithinRingKeeps
<1> QED  BY <1>1, <1>2, <1>3, <1>4, TypedInvariant, PTL DEF Spec

(***************************************************************************)
(* One-row calls on a model of one output element per row need no          *)
(* hypothesis on the behaviour: whatever the batch size, the ring, the     *)
(* executors and the order in which they finish, each gets its own answer. *)
(***************************************************************************)
THEOREM OneRowCallersGetTheirOwnRow ==
    ASSUME RowWidth = 1, ReqSizes = {1}
    PROVE  Spec => []OwnAnswer
BY OneRowReserves, CallersGetTheirOwnRows, PTL

-------------------------------------------------------------------------------
(***************************************************************************)
(* An idle model, first half: the row that opens a batch is announced.     *)
(***************************************************************************)
LEMMA InitWakes == Init => WakeInv
<1> SUFFICES ASSUME Init PROVE WakeInv
  OBVIOUS
<1>1. ErrorsPublished
  BY DEF Init, ErrorsPublished
<1>2. head = 0
  BY DEF Init
<1>3. \A i \in Window : i \in Nat
  BY DEF Window, Aligned
<1>4. \A i \in Nat : ~(i < 0)
  BY SMT
<1> QED  BY <1>1, <1>2, <1>3, <1>4 DEF WakeInv, FirstRowAnnounced

\* A chunk that holds the first slot of a batch begins with it.
LEMMA ChunkOfFirstSlot ==
    ASSUME Typed, NEW r \in Requests, NEW i, Aligned(i), i \in Nat,
           i \in at[r] .. at[r] + ChunkSize(r) - 1
    PROVE  at[r] = i /\ ChunkStart(r) = 0
<1>1. /\ at[r] \in Nat /\ ChunkSize(r) \in Nat
      /\ at[r] + ChunkSize(r) <= LowerBound(at[r]) + BatchSize
      /\ LowerBound(at[r]) \in Nat /\ LowerBound(at[r]) <= at[r]
  BY RequestNumbers
<1>2. at[r] <= i /\ i < LowerBound(at[r]) + BatchSize
  BY <1>1, Numbers, SMT
<1>3. Aligned(LowerBound(at[r]))
  BY <1>1, BatchOfIndex
<1>4. LowerBound(at[r]) < i => LowerBound(at[r]) + BatchSize <= i
  BY <1>3, AlignedApart
<1>5. at[r] = i
  BY <1>1, <1>2, <1>4, Numbers, SMT
<1> QED  BY <1>5 DEF Aligned, ChunkStart

LEMMA RequestErrors ==
    ASSUME Typed, SlotInv, ErrorsPublished, NEW r \in Requests, RequestStep(r)
    PROVE  ErrorsPublished'
<1> SUFFICES ASSUME InputSupported, NEW q \in Requests, rpc'[q] = "error"
             PROVE  sent'[q] = size'[q]
  BY DEF ErrorsPublished
<1>1. /\ size' = size
      /\ q # r => rpc'[q] = rpc[q] /\ sent'[q] = sent[q]
  BY RequestCellFrame
<1>2. CASE q # r
  BY <1>1, <1>2 DEF ErrorsPublished
<1>3. CASE q = r
  <2>1. Collect(r)
    <3>1. rpc[r] # "error"
      BY DEF RequestStep, LoadHead, CheckFull, Reserve, WriteChunk, Publish,
             NotifyExecutor, Collect
    <3>2. LoadHead(r) \/ CheckFull(r) \/ Reserve(r) \/ WriteChunk(r)
             => rpc'[r] # "error"
      BY DEF LoadHead, CheckFull, Reserve, WriteChunk, Typed, TypeOK
    <3>3. Publish(r) \/ NotifyExecutor(r) => rpc'[r] # "error"
      BY DEF Publish, NotifyExecutor, NextChunk, Typed, TypeOK
    <3> QED  BY <1>3, <3>2, <3>3 DEF RequestStep
  <2>2. rpc[r] = "wait" /\ sent' = sent
    BY <2>1 DEF Collect
  <2> QED  BY <1>1, <1>3, <2>2 DEF SlotInv, ChunkProgress
<1> QED  BY <1>2, <1>3

LEMMA RequestWakes ==
    ASSUME Typed, RingInv, WakeInv, NEW r \in Requests, RequestStep(r)
    PROVE  WakeInv'
<1>1. ErrorsPublished'
  BY RequestErrors DEF RingInv, WakeInv
<1>2. /\ UNCHANGED <<executorHead, workerVars>> /\ Window' = Window
  BY RequestSlotFrame
<1> SUFFICES ASSUME NEW i \in Window, i < head', Unawakened(i)'
             PROVE  \/ state'[BatchId(i)].permit
                    \/ i \in Pending'
                    \/ \E q \in Requests : rpc'[q] = "notify" /\ at'[q] = i
  BY <1>1, <1>2 DEF WakeInv, FirstRowAnnounced
<1>3. Unawakened(i)
  BY <1>2 DEF Unawakened
<1>4. i \in Nat /\ Aligned(i) /\ BatchId(i) \in BatchIds
  BY WindowMember, BatchIdInRange
<1>5. head \in Nat /\ size[r] \in Nat
  BY Numbers, RequestNumbers
<1>6. CASE ~(i < head)
  <2>1. Reserve(r) /\ HeadUnchanged(r)
    <3>1. head' # head
      BY <1>6
    <3> QED  BY <3>1 DEF RequestStep, LoadHead, CheckFull, Reserve, WriteChunk,
                         Publish, NotifyExecutor, Collect
  <2>2. /\ head' = head + size[r]
        /\ Pending' = Pending \cup (head .. head + size[r] - 1)
    BY <2>1, ReserveMoves DEF RingInv
  <2>3. i \in head .. head + size[r] - 1
    BY <1>4, <1>5, <1>6, <2>2, SMT
  <2> QED  BY <2>2, <2>3
<1>7. CASE i < head /\ state[BatchId(i)].permit
  <2>1. state' = state \/ WriteChunk(r) \/ NotifyExecutor(r)
    BY DEF RequestStep, LoadHead, CheckFull, Reserve, Publish, Collect
  <2>2. WriteChunk(r) => \/ state' = state
                         \/ state' = [state EXCEPT ![ChunkBatch(r)].deadline = TRUE]
    BY DEF WriteChunk
  <2>3. NotifyExecutor(r) => state' = [state EXCEPT ![ChunkBatch(r)].permit = TRUE]
    BY DEF NotifyExecutor
  <2>4. state'[BatchId(i)].permit
    BY <1>4, <1>7, <2>1, <2>2, <2>3 DEF Typed, TypeOK, BatchState
  <2> QED  BY <2>4
<1>8. CASE i < head /\ i \in Pending
  <2>1. CASE Publish(r)
    <3>1. Pending' = Pending \ (at[r] .. at[r] + ChunkSize(r) - 1)
      BY <2>1, PublishRemoves DEF RingInv
    <3>2. CASE i \in at[r] .. at[r] + ChunkSize(r) - 1
      <4>1. at[r] = i /\ MustNotify(r)
        BY <1>4, <3>2, ChunkOfFirstSlot DEF MustNotify
      <4>2. rpc'[r] = "notify" /\ at'[r] = i
        BY <2>1, <4>1 DEF Publish, Typed, TypeOK
      <4> QED  BY <4>2
    <3>3. CASE i \notin at[r] .. at[r] + ChunkSize(r) - 1
      BY <1>8, <3>1, <3>3
    <3> QED  BY <3>2, <3>3
  <2>2. CASE Reserve(r) /\ HeadUnchanged(r)
    BY <1>8, <2>2, ReserveMoves DEF RingInv
  <2>3. CASE LoadHead(r) \/ CheckFull(r) \/ WriteChunk(r) \/ NotifyExecutor(r)
               \/ Collect(r) \/ (Reserve(r) /\ ~HeadUnchanged(r))
    <3>1. \A q \in Requests : Unpublished(q)' = Unpublished(q)
      BY <2>3, QuietPending DEF RingInv
    <3>2. Pending' = Pending
      BY <3>1, PendingKept
    <3> QED  BY <1>8, <3>2
  <2> QED  BY <2>1, <2>2, <2>3 DEF RequestStep
<1>9. ASSUME i < head, NEW q \in Requests, rpc[q] = "notify", at[q] = i
      PROVE  \/ state'[BatchId(i)].permit
             \/ \E p \in Requests : rpc'[p] = "notify" /\ at'[p] = i
  <2>1. CASE q # r
    BY <1>9, <2>1, RequestCellFrame
  <2>2. CASE q = r
    <3>1. NotifyExecutor(r)
      BY <1>9, <2>2 DEF RequestStep, LoadHead, CheckFull, Reserve, WriteChunk,
                        Publish, Collect
    <3>2. state' = [state EXCEPT ![BatchId(i)].permit = TRUE]
      BY <1>9, <2>2, <3>1 DEF NotifyExecutor, ChunkBatch
    <3> QED  BY <1>4, <3>2 DEF Typed, TypeOK, BatchState
  <2> QED  BY <2>1, <2>2
<1> QED  BY <1>3, <1>6, <1>7, <1>8, <1>9 DEF WakeInv, FirstRowAnnounced

\* Only the worker that holds a batch takes its permit away.
LEMMA WorkerPermits ==
    ASSUME Typed, ManagerAlone, NEW x \in Workers, WorkerStep(x)
    PROVE  \/ \A b \in BatchIds : state[b].permit => state'[b].permit
           \/ /\ Active(x) /\ xpc'[x] \in {"peek", "seal", "move"}
              /\ UNCHANGED <<ringVars, idx>>
              /\ \A y \in Workers \ {x} : xpc'[y] = xpc[y]
              /\ \A b \in BatchIds \ {BatchId(idx[x])} :
                    state[b].permit => state'[b].permit
<1>1. CASE AwaitFirst(x) \/ AwaitFull(x)
  <2>1. /\ xpc[x] \in {"await_first", "await_full"}
        /\ UNCHANGED <<ringVars, idx>>
        /\ \/ xpc' = [xpc EXCEPT ![x] = "peek"]
           \/ xpc' = [xpc EXCEPT ![x] = "seal"]
        /\ state' = [state EXCEPT ![BatchId(idx[x])].permit = FALSE]
    BY <1>1 DEF AwaitFirst, AwaitFull, Goto
  <2>2. /\ xpc'[x] \in {"peek", "seal"}
        /\ \A y \in Workers \ {x} : xpc'[y] = xpc[y]
    BY <2>1 DEF Typed, TypeOK
  <2>3. \A b \in BatchIds \ {BatchId(idx[x])} : state'[b] = state[b]
    BY <2>1 DEF Typed, TypeOK
  <2> QED  BY <2>1, <2>2, <2>3 DEF Active
<1>2. CASE ResetBatch(x)
  BY <1>2, ResetFacts DEF Active
<1>3. CASE ~AwaitFirst(x) /\ ~AwaitFull(x) /\ ~ResetBatch(x)
  <2>1. state' = state
    BY <1>3 DEF WorkerStep, LoadExecutorHead, CheckRoom, Listen, Claim, Peek,
         DeadlineExpires, Seal, SpinWritten, Finish, Warmup, LoadTail,
         CheckHead, TakeDirty, AdvanceTail
  <2> QED  BY <2>1
<1> QED  BY <1>1, <1>2, <1>3

\* A batch whose executor waits for its first row was so before the step,
\* or is claimed in it.
LEMMA WorkerAwakens ==
    ASSUME Typed, ManagerAlone, NEW x \in Workers, WorkerStep(x),
           NEW i \in Nat, Unawakened(i)'
    PROVE  Unawakened(i)
<1>1. executorHead' \in Nat /\ executorHead <= executorHead'
  <2>1. executorHead' = executorHead \/ executorHead' = executorHead + BatchSize
    BY DEF WorkerStep, LoadExecutorHead, CheckRoom, Listen, Claim,
       AwaitFirst, Peek, DeadlineExpires, AwaitFull, Seal, SpinWritten,
       Finish, Warmup, ResetBatch, LoadTail, CheckHead, TakeDirty, AdvanceTail
  <2> QED  BY <2>1, Numbers, SMT
<1>2. CASE i >= executorHead'
  <2>1. i >= executorHead
    BY <1>1, <1>2, Numbers, SMT
  <2> QED  BY <2>1 DEF Unawakened
<1>3. ASSUME NEW y \in Executors, xpc'[y] = "await_first", idx'[y] = i
      PROVE  Unawakened(i)
  <2>0. y \in Workers
    BY DEF Workers
  <2>1. CASE xpc[y] = "await_first" /\ idx[y] = i
    BY <2>1 DEF Unawakened
  <2>2. CASE ~(xpc[y] = "await_first" /\ idx[y] = i)
    <3>1. Claim(x) /\ executorHead = seen[x] /\ y = x
      <4>1. CASE Claim(x)
        BY <1>3, <2>0, <2>2, <4>1 DEF Claim, Goto, Typed, TypeOK
      <4>2. CASE Warmup(x)
        <5>1. x = Manager /\ xpc[x] = "idle" /\ ~Registered
          BY <4>2, ManagerSteps DEF Warmup
        <5>2. x # y /\ xpc[y] = "idle"
          BY <5>1, ManagerAssumption DEF ManagerAlone
        <5>3. xpc'[y] = xpc[y]
          BY <2>0, <4>2, <5>2 DEF Warmup, Goto, Typed, TypeOK
        <5> QED  BY <1>3, <5>2, <5>3
      <4>3. CASE AwaitFirst(x) \/ Peek(x) \/ DeadlineExpires(x) \/ AwaitFull(x)
                   \/ Seal(x) \/ SpinWritten(x) \/ Finish(x) \/ ResetBatch(x)
        <5>1. /\ idx' = idx
              /\ \/ xpc' = xpc
                 \/ \E pc \in {"peek", "await_full", "seal", "spin", "run",
                               "reset", "move"} : xpc' = [xpc EXCEPT ![x] = pc]
          BY <4>3 DEF AwaitFirst, Peek, DeadlineExpires, AwaitFull, Seal,
                      SpinWritten, Finish, ResetBatch, Goto
        <5> QED  BY <1>3, <2>0, <2>2, <5>1 DEF Typed, TypeOK
      <4>4. CASE LoadExecutorHead(x) \/ CheckRoom(x) \/ Listen(x) \/ LoadTail(x)
        <5>1. /\ idx' = idx
              /\ \E pc \in {"check", "listen", "claim", "asleep", "move_head"} :
                    xpc' = [xpc EXCEPT ![x] = pc]
          BY <4>4 DEF LoadExecutorHead, CheckRoom, Listen, LoadTail, Goto
        <5> QED  BY <1>3, <2>0, <2>2, <5>1 DEF Typed, TypeOK
      <4>5. CASE CheckHead(x) \/ TakeDirty(x) \/ AdvanceTail(x)
        <5>1. /\ \A z \in Workers \ {x} : idx'[z] = idx[z]
              /\ \A z \in Workers \ {x} : xpc'[z] = xpc[z] \/ xpc'[z] = "idle"
              /\ xpc'[x] \in {"idle", "take", "advance", "move"}
          BY <4>5 DEF CheckHead, TakeDirty, AdvanceTail, Return, Goto, Typed, TypeOK
        <5> QED  BY <1>3, <2>0, <2>2, <5>1
      <4> QED  BY <4>1, <4>2, <4>3, <4>4, <4>5 DEF WorkerStep
    <3>2. idx'[x] = executorHead
      BY <2>0, <3>1 DEF Claim, Typed, TypeOK
    <3>3. i >= executorHead
      BY <1>3, <3>1, <3>2, Numbers, SMT
    <3> QED  BY <3>3 DEF Unawakened
  <2> QED  BY <2>1, <2>2
<1> QED  BY <1>2, <1>3 DEF Unawakened

\* A step of a worker brings no batch below head, or into the lap, that
\* nobody was woken by.
LEMMA WorkerShowsNone ==
    ASSUME Typed, RingInv, NEW x \in Workers, WorkerStep(x),
           NEW i \in Window', i < head', Unawakened(i)'
    PROVE  i \in Window /\ i < head
<1>1. /\ i \in Nat /\ Aligned(i) /\ tail' <= i
      /\ head \in Nat /\ head' \in Nat /\ tail \in Nat /\ tail' \in Nat
  <2>1. Typed'
    BY WorkerTyped
  <2>2. head' \in Nat /\ tail' \in Nat
    BY <2>1 DEF Typed, TypeOK
  <2>3. Aligned(i) /\ i \in Nat /\ tail' <= i
    BY <2>2, SMT DEF Window, Aligned
  <2> QED  BY <2>2, <2>3, Numbers
<1>2. Unawakened(i)
  BY <1>1, WorkerAwakens DEF RingInv, ClaimInv
<1>3. ASSUME head <= i PROVE FALSE
  <2>1. CASE Seal(x) /\ ~(head < LowerBound(idx[x]))
    <3>1. /\ LowerBound(idx[x]) = idx[x] /\ idx[x] \in Nat /\ Aligned(idx[x])
          /\ HigherBound(idx[x]) = idx[x] + BatchSize
      BY HigherBoundFacts, Numbers DEF RingInv, ClaimInv, WholeBatches, Aligned
    <3>2. PICK h : h = HigherBound(idx[x])
      OBVIOUS
    <3>3. head' = head + (IF head < h THEN h - head ELSE 0)
      BY <2>1, <3>2 DEF Seal, OpenSlots
    <3>4. h = idx[x] + BatchSize
      BY <3>1, <3>2
    <3>5. idx[x] <= i /\ i < idx[x] + BatchSize
      BY <1>1, <1>3, <2>1, <3>1, <3>3, <3>4, Numbers, SMT
    <3>6. idx[x] < i => idx[x] + BatchSize <= i
      BY <1>1, <3>1, AlignedApart
    <3>7. i = idx[x]
      BY <1>1, <3>1, <3>5, <3>6, Numbers, SMT
    <3>8. Active(x) /\ xpc[x] # "await_first"
      BY <2>1 DEF Seal, Active
    <3>9. ~(i >= executorHead)
      <4>1. idx[x] + BatchSize <= executorHead
        BY <3>8 DEF RingInv, ClaimInv, ClaimsBounded
      <4> QED  BY <3>7, <4>1, <3>1, Numbers, SMT
    <3>10. PICK y : y \in Executors /\ xpc[y] = "await_first" /\ idx[y] = i
      BY <1>2, <3>9 DEF Unawakened
    <3>11. y \in Workers /\ y # x /\ Active(y)
      BY <3>8, <3>10 DEF Active, Workers
    <3> QED  BY <3>7, <3>8, <3>10, <3>11 DEF RingInv, ClaimInv, ClaimsApart
  <2>2. CASE Warmup(x)
    <3>1. ~Registered
      BY <2>2, ManagerSteps DEF Warmup, RingInv, ClaimInv
    <3>2. head = executorHead /\ \A y \in Executors : xpc[y] = "idle"
      BY <3>1 DEF RingInv, ClaimInv, ManagerAlone
    <3>3. /\ head' = executorHead' /\ x = Manager
          /\ \A y \in Workers \ {x} : xpc'[y] = xpc[y]
      BY <2>2, <3>2 DEF Warmup, Goto, Typed, TypeOK
    <3>4. ~(i >= executorHead')
      BY <1>1, <3>3, SMT
    <3>5. \A y \in Executors : y \in Workers \ {x} /\ xpc'[y] = "idle"
      BY <3>2, <3>3, ManagerAssumption DEF Workers
    <3> QED  BY <3>4, <3>5 DEF Unawakened
  <2>3. CASE (~Seal(x) /\ ~Warmup(x)) \/ (Seal(x) /\ head < LowerBound(idx[x]))
    <3>1. head' = head
      BY <2>3 DEF WorkerStep, LoadExecutorHead, CheckRoom, Listen, Claim,
         AwaitFirst, Peek, DeadlineExpires, AwaitFull, Seal, SpinWritten,
         Finish, ResetBatch, LoadTail, CheckHead, TakeDirty, AdvanceTail
    <3> QED  BY <1>1, <1>3, <3>1, SMT
  <2> QED  BY <2>1, <2>2, <2>3
<1>4. i < head
  BY <1>1, <1>3, SMT
<1>5. ASSUME i \notin Window PROVE FALSE
  <2>1. tail' # tail
    BY <1>5 DEF Window
  <2>2. AdvanceTail(x)
    BY <2>1 DEF WorkerStep, LoadExecutorHead, CheckRoom, Listen, Claim,
         AwaitFirst, Peek, DeadlineExpires, AwaitFull, Seal, SpinWritten,
         Finish, Warmup, ResetBatch, LoadTail, CheckHead, TakeDirty
  <2>3. tail' = tail + BatchSize
    BY <2>1, <2>2, Numbers, HigherBoundFacts
       DEF AdvanceTail, RingInv, ClaimInv, WholeBatches, Aligned
  <2>4. tail + RingSize <= i
    BY <1>1, <1>5, <2>3, WindowMember, Numbers, SMT
  <2>5. i < executorHead
    <3>1. head <= tail + RingSize \/ head <= executorHead
      BY DEF RingInv, SlotInv, HeadInRing
    <3> QED  BY <1>1, <1>4, <2>4, <3>1, Numbers, SMT
  <2>6. PICK y : y \in Executors /\ xpc[y] = "await_first" /\ idx[y] = i
    <3>1. ~(i >= executorHead)
      BY <1>1, <2>5, Numbers, SMT
    <3> QED  BY <1>2, <3>1 DEF Unawakened
  <2>7. idx[y] + BatchSize <= tail + RingSize
    BY <2>6 DEF RingInv, ClaimInv, ClaimsBounded, Active
  <2> QED  BY <1>1, <2>4, <2>6, <2>7, Numbers, SMT
<1> QED  BY <1>4, <1>5

LEMMA WorkerWakes ==
    ASSUME Typed, RingInv, WakeInv, NEW x \in Workers, WorkerStep(x)
    PROVE  WakeInv'
<1>1. UNCHANGED requestVars /\ Pending' = Pending
  BY WorkerCellFrame, PendingStays DEF RingInv, ClaimInv
<1>2. ErrorsPublished'
  BY <1>1 DEF WakeInv, ErrorsPublished
<1> SUFFICES ASSUME NEW i \in Window', i < head', Unawakened(i)'
             PROVE  \/ state'[BatchId(i)].permit
                    \/ i \in Pending
                    \/ \E r \in Requests : rpc[r] = "notify" /\ at[r] = i
  BY <1>1, <1>2 DEF WakeInv, FirstRowAnnounced
<1>3. i \in Window /\ i < head
  BY WorkerShowsNone
<1>4. /\ i \in Nat /\ Aligned(i) /\ BatchId(i) \in BatchIds
      /\ tail <= i /\ i < tail + RingSize
  BY <1>3, WindowMember, BatchIdInRange
<1>5. Unawakened(i)
  BY <1>4, WorkerAwakens DEF RingInv, ClaimInv
<1>6. ASSUME state[BatchId(i)].permit, ~state'[BatchId(i)].permit PROVE FALSE
  <2>1. /\ Active(x) /\ xpc'[x] \in {"peek", "seal", "move"}
        /\ UNCHANGED <<ringVars, idx>>
        /\ \A y \in Workers \ {x} : xpc'[y] = xpc[y]
        /\ BatchId(i) = BatchId(idx[x])
    BY <1>4, <1>6, WorkerPermits DEF RingInv, ClaimInv
  <2>2. CASE x \in Executors
    <3>1. Aligned(idx[x]) /\ idx[x] \in Window
      BY <2>1, <2>2, HeldBatch DEF RingInv
    <3>2. i = idx[x]
      BY <1>4, <2>1, <3>1, WindowMember, Numbers, SameBatchInWindow
    <3>3. ~(i >= executorHead')
      <4>1. idx[x] + BatchSize <= executorHead
        BY <2>1 DEF RingInv, ClaimInv, ClaimsBounded
      <4> QED  BY <1>4, <2>1, <3>2, <4>1, Numbers, SMT
    <3>4. PICK y : y \in Executors /\ xpc'[y] = "await_first" /\ idx'[y] = i
      BY <3>3 DEF Unawakened
    <3>5. y \in Workers /\ y # x /\ xpc[y] = "await_first" /\ idx[y] = i
      BY <2>1, <3>4 DEF Workers
    <3>6. Active(y)
      BY <3>5 DEF Active
    <3> QED  BY <2>1, <3>2, <3>5, <3>6 DEF RingInv, ClaimInv, ClaimsApart
  <2>3. CASE x = Manager
    <3>1. head = executorHead /\ \A y \in Executors : xpc[y] = "idle"
      BY <2>3, ManagerSteps DEF RingInv, ClaimInv, ManagerAlone
    <3>2. ~(i >= executorHead)
      BY <1>3, <1>4, <3>1, Numbers, SMT
    <3> QED  BY <1>5, <3>1, <3>2 DEF Unawakened
  <2> QED  BY <2>2, <2>3 DEF Workers
<1> QED  BY <1>3, <1>5, <1>6 DEF WakeInv, FirstRowAnnounced

LEMMA NextWakes ==
    ASSUME Typed, RingInv, WakeInv, [Next]_vars PROVE WakeInv'
<1>1. CASE Next
  BY <1>1, RequestWakes, WorkerWakes DEF Next
<1>2. CASE UNCHANGED vars
  <2>1. Pending' = Pending
    BY <1>2, PendingStays
  <2>2. Window' = Window /\ \A i : Unawakened(i)' <=> Unawakened(i)
    BY <1>2 DEF Window, Unawakened
  <2> QED  BY <1>2, <2>1, <2>2 DEF WakeInv, FirstRowAnnounced, ErrorsPublished
<1> QED  BY <1>1, <1>2

-------------------------------------------------------------------------------
(***************************************************************************)
(* An idle model, second half: with one executor, one worker at a time     *)
(* runs batches and moves the tail, and leaves no finished batch behind.   *)
(***************************************************************************)
\* The model has one session thread.
SingleExecutor == \E e : Executors = {e}

LEMMA OneBusy ==
    ASSUME ManagerAlone, SingleExecutor, NEW x \in Workers, NEW y \in Workers,
           Busy(x), Busy(y)
    PROVE  x = y
<1>1. \A z \in Executors : xpc[z] = "idle" => ~Busy(z)
  BY DEF Busy, Active, Moving
<1>2. Busy(Manager) => ~Registered
  BY DEF Busy, Active, Moving, Registered
<1> QED  BY <1>1, <1>2 DEF ManagerAlone, SingleExecutor, Workers

LEMMA TwoBatches ==
    ASSUME Capacity > 1 PROVE RingSize >= 2 * BatchSize /\ BatchSize \in Nat \ {0}
BY CapacityAssumption, BatchSizeAssumption, SMT DEF RingSize

LEMMA InitTail == Init => TailInv
<1> SUFFICES ASSUME Init PROVE TailInv
  OBVIOUS
<1>1. /\ executorHead = 0 /\ tail = 0 /\ \A x \in Workers : xpc[x] = "idle"
      /\ BatchSize \in Nat
  BY BatchSizeAssumption DEF Init
<1>2. TailLoadedIsTail /\ ClaimsNewest
  BY <1>1 DEF TailLoadedIsTail, ClaimsNewest, Active, Workers
<1>3. \A i \in Window : ~Released(i)
  <2>1. \A i \in Window : i \in Nat
    BY DEF Window, Aligned
  <2>2. \A i \in Nat : ~(i < 0)
    BY SMT
  <2> QED  BY <1>1, <2>1, <2>2 DEF Released
<1>4. TailFollows
  BY <1>1, SMT DEF TailFollows
<1> QED  BY <1>2, <1>3, <1>4 DEF TailInv, MarksKept

\* Calls take no mark of a released batch away.
LEMMA RequestTail ==
    ASSUME Typed, RingInv, DeadlineOnce, TailInv,
           NEW r \in Requests, RequestStep(r)
    PROVE  TailInv'
<1>1. /\ UNCHANGED <<tail, executorHead, workerVars>>
      /\ Window' = Window /\ \A i : Released(i)' <=> Released(i)
  BY RequestSlotFrame
<1>2. TailLoadedIsTail' /\ TailFollows' /\ ClaimsNewest'
  BY <1>1 DEF TailInv, TailLoadedIsTail, TailFollows, ClaimsNewest, Busy,
              Active, Moving
<1>3. ASSUME NEW i \in Window, Released(i)
      PROVE  dirty'[BatchId(i)] = dirty[BatchId(i)]
  <2>1. CASE dirty' = dirty
    BY <2>1
  <2>2. CASE dirty' # dirty
    <3>1. WriteChunk(r)
      BY <2>2 DEF RequestStep, LoadHead, CheckFull, Reserve, Publish,
                  NotifyExecutor, Collect
    <3>2. /\ rpc[r] = "write" /\ ChunkStart(r) = 0
          /\ dirty' = [dirty EXCEPT ![ChunkBatch(r)] = 1]
      BY <2>2, <3>1 DEF WriteChunk
    <3>3. at[r] \in Window /\ ~Released(at[r])
      BY <3>2, FirstWriter
    <3>4. BatchId(i) # ChunkBatch(r)
      BY <1>3, <3>3, WindowMember, Numbers, SameBatchInWindow DEF ChunkBatch
    <3>5. BatchId(i) \in BatchIds
      BY WindowMember, BatchIdInRange
    <3> QED  BY <3>2, <3>4, <3>5 DEF Typed, TypeOK
  <2> QED  BY <2>1, <2>2
<1>4. MarksKept'
  BY <1>1, <1>3 DEF TailInv, MarksKept
<1> QED  BY <1>2, <1>4 DEF TailInv

\* What a worker step that moves no index, marks nothing, claims nothing and
\* lets nothing go leaves as it was.
LEMMA TailQuiet ==
    ASSUME Typed, TailInv, NEW x \in Workers,
           UNCHANGED <<tail, executorHead, dirty>>,
           \A y \in Workers \ {x} :
               xpc'[y] = xpc[y] /\ seen'[y] = seen[y] /\ idx'[y] = idx[y],
           Active(x)' <=> Active(x), Active(x) => idx'[x] = idx[x],
           Busy(x)' <=> Busy(x), xpc[x] # "advance",
           xpc'[x] \notin {"advance", "listen", "asleep"},
           xpc'[x] \in {"move_head", "take"} => seen'[x] = tail,
           xpc'[x] \in {"check", "claim"} => seen'[x] = executorHead
    PROVE  TailInv'
<1>1. TailLoadedIsTail'
  BY DEF TailInv, TailLoadedIsTail
<1>2. /\ \A y \in Workers : /\ Active(y)' <=> Active(y)
                            /\ Active(y) => idx'[y] = idx[y]
                            /\ Busy(y)' <=> Busy(y)
      /\ \A y \in Workers : xpc'[y] = "advance" <=> xpc[y] = "advance"
  BY DEF Active, Busy, Moving
<1>3. Window' = Window /\ \A i : Released(i)' <=> Released(i)
  BY <1>2 DEF Window, Released
<1>4. MarksKept'
  BY <1>2, <1>3 DEF TailInv, MarksKept
<1>5. TailFollows'
  BY <1>2 DEF TailInv, TailFollows
<1>6. ClaimsNewest'
  BY <1>2 DEF TailInv, ClaimsNewest, Workers
<1> QED  BY <1>1, <1>4, <1>5, <1>6 DEF TailInv

LEMMA TailGoto ==
    ASSUME Typed, TailInv, NEW x \in Workers,
           NEW pc \in WorkerStates \ {"advance", "listen", "asleep"}, Goto(x, pc),
           UNCHANGED <<tail, executorHead, dirty, idx, seen>>,
           xpc[x] # "advance",
           pc \in {"await_first", "peek", "await_full", "seal", "spin", "run",
                   "reset"} <=> Active(x),
           pc \in {"move", "move_head", "take"} <=> Moving(x),
           pc \in {"move_head", "take"} => seen[x] = tail,
           pc \in {"check", "claim"} => seen[x] = executorHead
    PROVE  TailInv'
<1>1. xpc'[x] = pc /\ \A y \in Workers \ {x} : xpc'[y] = xpc[y]
  BY DEF Goto, Typed, TypeOK
<1>2. (Active(x)' <=> Active(x)) /\ (Busy(x)' <=> Busy(x))
  BY <1>1 DEF Active, Busy, Moving
<1> QED  BY <1>1, <1>2, TailQuiet

LEMMA BatchBelow ==
    ASSUME NEW i, Aligned(i), i # 0
    PROVE  \E j : Aligned(j) /\ j \in Nat /\ i = j + BatchSize
<1>1. PICK k \in Nat : i = k * BatchSize
  BY AlignedIsMultiple
<1>2. k # 0
  BY <1>1, BatchSizeAssumption, SMT
<1>3. k - 1 \in Nat /\ i = (k - 1) * BatchSize + BatchSize
  BY <1>1, <1>2, BatchSizeAssumption, SMT
<1>4. PICK j : j = (k - 1) * BatchSize
  OBVIOUS
<1> QED  BY <1>3, <1>4, MultipleIsAligned DEF Aligned

\* While no worker holds a batch, head has left every claimed one.
LEMMA NobodyHolds ==
    ASSUME Typed, RingInv, \A x \in Workers : ~Active(x)
    PROVE  executorHead <= head
<1>1. executorHead \in Nat /\ head \in Nat /\ BatchSize \in Nat
  BY Numbers
<1>2. CASE executorHead = 0
  BY <1>1, <1>2, SMT
<1>3. CASE executorHead # 0
  <2>1. PICK i : Aligned(i) /\ i \in Nat /\ executorHead = i + BatchSize
    BY <1>3, BatchBelow DEF RingInv, ClaimInv, WholeBatches
  <2>2. i < executorHead /\ i \in 0 .. executorHead
    BY <1>1, <2>1, Numbers, SMT
  <2>3. Released(i)
    BY <2>2 DEF Released
  <2> QED  BY <2>1, <2>2, <2>3 DEF RingInv, SlotInv, SealedBelowHead
<1> QED  BY <1>2, <1>3

\* A worker that stops moving the tail leaves it in the batch head is in.
LEMMA TailReturns ==
    ASSUME Typed, RingInv, TailInv, SingleExecutor, NEW x \in Workers, Return(x),
           UNCHANGED <<tail, executorHead, dirty>>, xpc[x] \in {"move_head", "take"},
           executorHead <= tail + BatchSize
    PROVE  TailInv'
<1>1. /\ xpc'[x] = "idle" /\ \A y \in Workers \ {x} :
            xpc'[y] = xpc[y] /\ seen'[y] = seen[y] /\ idx'[y] = idx[y]
      /\ ~Active(x) /\ ~Active(x)'
  BY DEF Return, Active, Typed, TypeOK
<1>2. TailLoadedIsTail'
  BY <1>1 DEF TailInv, TailLoadedIsTail
<1>3. /\ \A y \in Workers : /\ Active(y)' <=> Active(y)
                            /\ Active(y) => idx'[y] = idx[y]
      /\ \A y \in Workers : xpc'[y] = "advance" <=> xpc[y] = "advance"
  BY <1>1 DEF Active
<1>4. Window' = Window /\ \A i : Released(i)' <=> Released(i)
  BY <1>3 DEF Window, Released
<1>5. MarksKept'
  BY <1>3, <1>4 DEF TailInv, MarksKept
<1>6. TailFollows'
  BY DEF TailInv, TailFollows
<1>7. ClaimsNewest'
  BY <1>1, <1>3 DEF TailInv, ClaimsNewest, Workers
<1> QED  BY <1>2, <1>5, <1>6, <1>7 DEF TailInv

\* What was released when the newest batch was handed out still is the same.
LEMMA NewestIsHeld ==
    ASSUME Typed, WholeBatches, NEW x \in Workers,
           executorHead' = executorHead + BatchSize, Active(x)',
           idx'[x] = executorHead, ~Active(x),
           \A y \in Workers \ {x} : xpc'[y] = xpc[y] /\ idx'[y] = idx[y],
           NEW i \in Window, Released(i)'
    PROVE  Released(i) /\ i # executorHead
<1>1. i # executorHead
  BY DEF Released
<1>2. i \in Nat /\ i < executorHead + BatchSize
  BY WindowMember DEF Released
<1>3. executorHead < i => executorHead + BatchSize <= i
  BY WindowMember, AlignedApart DEF WholeBatches
<1>4. i < executorHead
  BY <1>1, <1>2, <1>3, Numbers, SMT
<1>5. \A y \in Workers : Active(y) => Active(y)' /\ idx'[y] = idx[y]
  BY DEF Active
<1> QED  BY <1>1, <1>4, <1>5 DEF Released

LEMMA ClaimTail ==
    ASSUME Typed, RingInv, TailInv, SingleExecutor, NEW x \in Workers,
           WorkerStep(x), Claim(x), executorHead = seen[x]
    PROVE  TailInv'
<1>1. x \in Executors /\ Registered
  BY ExecutorSeesRegistered DEF Claim, RingInv, ClaimInv, ManagerAlone, Workers
<1>2. /\ UNCHANGED <<tail, dirty, seen>> /\ executorHead' = executorHead + BatchSize
      /\ xpc[x] = "claim" /\ xpc'[x] = "await_first" /\ idx'[x] = executorHead
      /\ \A y \in Workers \ {x} : xpc'[y] = xpc[y] /\ idx'[y] = idx[y]
  BY DEF Claim, Goto, Typed, TypeOK
<1>3. \A y \in Workers : ~Busy(y)
  <2>1. ~Busy(x) /\ xpc[Manager] = "idle"
    BY <1>1, <1>2 DEF Busy, Active, Moving, Registered
  <2>2. ~Busy(Manager)
    BY <2>1 DEF Busy, Active, Moving
  <2>3. \A y \in Workers : y = x \/ y = Manager
    BY <1>1 DEF SingleExecutor, Workers
  <2> QED  BY <2>1, <2>2, <2>3
<1>4. executorHead <= tail + BatchSize
  BY <1>3 DEF TailInv, TailFollows
<1>5. Active(x)' /\ ~Active(x)
  BY <1>2 DEF Active
<1>6. TailLoadedIsTail'
  BY <1>2 DEF TailInv, TailLoadedIsTail
<1>7. MarksKept'
  <2>1. Window' = Window
    BY <1>2 DEF Window
  <2>2. \A i \in Window : Released(i)' => Released(i)
    BY <1>2, <1>5, NewestIsHeld DEF RingInv, ClaimInv
  <2>3. \A y \in Workers : xpc[y] = "advance" => xpc'[y] = "advance"
    BY <1>2
  <2> QED  BY <1>2, <2>1, <2>2, <2>3 DEF TailInv, MarksKept
<1>8. TailFollows'
  <2>1. executorHead' <= tail' + 2 * BatchSize
    BY <1>2, <1>4, Numbers, SMT
  <2>2. Busy(x)'
    BY <1>5 DEF Busy
  <2> QED  BY <2>1, <2>2 DEF TailFollows
<1>9. ClaimsNewest'
  <2>1. \A y \in Workers : Active(y)' => y = x
    BY <1>2, <1>3 DEF Busy, Active
  <2>2. \A y \in Executors : y = x
    BY <1>1 DEF SingleExecutor
  <2> QED  BY <1>2, <2>1, <2>2 DEF ClaimsNewest
<1> QED  BY <1>6, <1>7, <1>8, <1>9 DEF TailInv

LEMMA WarmupTail ==
    ASSUME Typed, RingInv, TailInv, Capacity > 1, NEW x \in Workers,
           WorkerStep(x), Warmup(x)
    PROVE  TailInv'
<1>1. x = Manager /\ xpc[x] = "idle" /\ ~Registered
  BY ManagerSteps DEF Warmup, RingInv, ClaimInv
<1>2. head = executorHead /\ \A y \in Workers : xpc[y] = "idle"
  BY <1>1 DEF RingInv, ClaimInv, ManagerAlone, Workers
<1>3. /\ UNCHANGED <<tail, seen>> /\ executorHead' = executorHead + BatchSize
      /\ xpc'[x] = "reset" /\ idx'[x] = executorHead
      /\ dirty' = [dirty EXCEPT ![BatchId(executorHead)] = 1]
      /\ \A y \in Workers \ {x} : xpc'[y] = xpc[y] /\ idx'[y] = idx[y]
  BY <1>2 DEF Warmup, Goto, Typed, TypeOK
<1>4. executorHead <= tail + BatchSize
  BY <1>2 DEF TailInv, TailFollows, Busy, Active, Moving
<1>5. Active(x)' /\ ~Active(x)
  BY <1>2, <1>3 DEF Active
<1>6. executorHead \in Window
  <2>1. tail <= executorHead /\ Aligned(executorHead)
    BY DEF RingInv, ClaimInv, ClaimsBounded, WholeBatches
  <2>2. executorHead < tail + RingSize
    BY <1>4, TwoBatches, Numbers, SMT
  <2> QED  BY <2>1, <2>2, WindowMember, Numbers
<1>7. TailLoadedIsTail'
  BY <1>2, <1>3 DEF TailLoadedIsTail
<1>8. MarksKept'
  <2>1. Window' = Window
    BY <1>3 DEF Window
  <2> SUFFICES ASSUME NEW i \in Window, Released(i)' PROVE dirty'[BatchId(i)] = 2
    BY <2>1 DEF MarksKept
  <2>2. Released(i) /\ i # executorHead
    BY <1>3, <1>5, NewestIsHeld DEF RingInv, ClaimInv
  <2>3. dirty[BatchId(i)] = 2
    BY <1>2, <2>2 DEF TailInv, MarksKept
  <2>4. BatchId(i) # BatchId(executorHead) /\ BatchId(i) \in BatchIds
    BY <1>6, <2>2, WindowMember, Numbers, SameBatchInWindow, BatchIdInRange
  <2> QED  BY <1>3, <2>3, <2>4 DEF Typed, TypeOK
<1>9. TailFollows'
  <2>1. executorHead' <= tail' + 2 * BatchSize
    BY <1>3, <1>4, Numbers, SMT
  <2>2. Busy(x)'
    BY <1>5 DEF Busy
  <2> QED  BY <2>1, <2>2 DEF TailFollows
<1>10. ClaimsNewest'
  <2>1. \A y \in Workers : Active(y)' => y = x
    BY <1>2, <1>3 DEF Active
  <2>2. \A y \in Executors : y \in Workers \ {x} /\ xpc'[y] = "idle"
    BY <1>1, <1>2, <1>3, ManagerAssumption DEF Workers
  <2> QED  BY <1>3, <2>1, <2>2 DEF ClaimsNewest
<1> QED  BY <1>7, <1>8, <1>9, <1>10 DEF TailInv

LEMMA ResetTail ==
    ASSUME Typed, RingInv, TailInv, SingleExecutor, NEW x \in Workers,
           WorkerStep(x), ResetBatch(x)
    PROVE  TailInv'
<1>1. /\ UNCHANGED <<tail, executorHead, seen, idx>>
      /\ xpc[x] = "reset" /\ xpc'[x] = "move"
      /\ \A y \in Workers \ {x} : xpc'[y] = xpc[y]
      /\ dirty' = [dirty EXCEPT ![BatchId(idx[x])] = 2]
  BY DEF ResetBatch, Goto, Typed, TypeOK
<1>2. Active(x) /\ Busy(x) /\ Busy(x)' /\ ~Active(x)'
  BY <1>1 DEF Active, Busy, Moving
<1>3. TailLoadedIsTail'
  BY <1>1 DEF TailInv, TailLoadedIsTail
<1>4. MarksKept'
  <2>1. Window' = Window
    BY <1>1 DEF Window
  <2> SUFFICES ASSUME NEW i \in Window, Released(i)' PROVE dirty'[BatchId(i)] = 2
    BY <2>1 DEF MarksKept
  <2>2. BatchId(i) \in BatchIds
    BY WindowMember, BatchIdInRange
  <2>3. CASE BatchId(i) = BatchId(idx[x])
    BY <1>1, <2>2, <2>3 DEF Typed, TypeOK
  <2>4. CASE BatchId(i) # BatchId(idx[x])
    <3>1. Released(i)
      BY <2>4, WorkerSlotFrame
    <3>2. \A y \in Workers : xpc[y] # "advance"
      <4>1. \A y \in Workers : xpc[y] = "advance" => Busy(y) /\ y # x
        BY <1>1 DEF Busy, Moving
      <4> QED  BY <1>2, <4>1, OneBusy DEF RingInv, ClaimInv
    <3>3. dirty[BatchId(i)] = 2
      BY <3>1, <3>2 DEF TailInv, MarksKept
    <3> QED  BY <1>1, <2>2, <2>4, <3>3 DEF Typed, TypeOK
  <2> QED  BY <2>3, <2>4
<1>5. TailFollows'
  BY <1>1, <1>2 DEF TailInv, TailFollows
<1>6. ClaimsNewest'
  <2>1. \A y \in Workers : Active(y)' => Active(y)
    BY <1>1, <1>2 DEF Active
  <2> QED  BY <1>1, <2>1 DEF TailInv, ClaimsNewest, Workers
<1> QED  BY <1>3, <1>4, <1>5, <1>6 DEF TailInv

LEMMA TakeTail ==
    ASSUME Typed, RingInv, TailInv, NEW x \in Workers, TakeDirty(x),
           IsFinished(BatchId(seen[x]))
    PROVE  TailInv'
<1>1. /\ UNCHANGED <<tail, executorHead, seen, idx>>
      /\ xpc[x] = "take" /\ xpc'[x] = "advance"
      /\ \A y \in Workers \ {x} : xpc'[y] = xpc[y]
      /\ dirty' = [dirty EXCEPT ![BatchId(seen[x])] = 0]
  BY DEF TakeDirty, Goto, Typed, TypeOK
<1>2. seen[x] = tail
  BY <1>1 DEF TailInv, TailLoadedIsTail
<1>3. /\ \A y \in Workers : Active(y)' <=> Active(y)
      /\ \A y \in Workers : Busy(y)' <=> Busy(y)
  BY <1>1 DEF Active, Busy, Moving
<1>4. TailLoadedIsTail'
  BY <1>1, <1>2 DEF TailInv, TailLoadedIsTail
<1>5. MarksKept'
  <2>1. Window' = Window /\ \A i : Released(i)' <=> Released(i)
    BY <1>1, <1>3 DEF Window, Released
  <2> SUFFICES ASSUME NEW i \in Window, Released(i), i # tail
               PROVE  dirty'[BatchId(i)] = 2
    BY <1>1, <2>1 DEF MarksKept
  <2>2. dirty[BatchId(i)] = 2
    BY DEF TailInv, MarksKept
  <2>3. tail \in Window
    BY WindowMember, Numbers, SMT DEF RingInv, ClaimInv, WholeBatches
  <2>4. BatchId(i) # BatchId(tail) /\ BatchId(i) \in BatchIds
    BY <2>3, WindowMember, Numbers, SameBatchInWindow, BatchIdInRange
  <2> QED  BY <1>1, <1>2, <2>2, <2>4 DEF Typed, TypeOK
<1>6. TailFollows'
  BY <1>1, <1>3 DEF TailInv, TailFollows
<1>7. ClaimsNewest'
  BY <1>1, <1>3 DEF TailInv, ClaimsNewest, Workers
<1> QED  BY <1>4, <1>5, <1>6, <1>7 DEF TailInv

LEMMA AdvanceTailOn ==
    ASSUME Typed, RingInv, TailInv, SingleExecutor, Capacity > 1,
           NEW x \in Workers, WorkerStep(x), AdvanceTail(x), tail = seen[x]
    PROVE  TailInv'
<1>1. /\ UNCHANGED <<head, executorHead, dirty, seen, idx>>
      /\ xpc[x] = "advance" /\ xpc'[x] = "move" /\ tail' = tail + BatchSize
      /\ \A y \in Workers \ {x} : xpc'[y] = xpc[y]
  <2>1. /\ UNCHANGED <<head, executorHead, dirty, seen, idx>>
        /\ xpc[x] = "advance" /\ xpc'[x] = "move"
        /\ \A y \in Workers \ {x} : xpc[y] # "asleep" => xpc'[y] = xpc[y]
    BY DEF AdvanceTail
  <2>2. \A y \in Workers : xpc[y] # "asleep"
    BY DEF RingInv, ClaimInv, ManagerAlone, TailInv, ClaimsNewest, Workers
  <2>3. tail' = tail + BatchSize
    BY Numbers, HigherBoundFacts
       DEF AdvanceTail, RingInv, ClaimInv, WholeBatches, Aligned
  <2> QED  BY <2>1, <2>2, <2>3
<1>2. Busy(x) /\ Busy(x)'
  BY <1>1 DEF Busy, Moving
<1>3. /\ \A y \in Workers : Active(y)' <=> Active(y)
      /\ \A y \in Workers \ {x} : ~Busy(y)
  BY <1>1, <1>2, OneBusy DEF Active, RingInv, ClaimInv
<1>4. TailLoadedIsTail'
  BY <1>1, <1>3 DEF TailLoadedIsTail, Busy, Moving
<1>5. MarksKept'
  <2> SUFFICES ASSUME NEW i \in Window', Released(i)'
               PROVE  dirty[BatchId(i)] = 2
    BY <1>1 DEF MarksKept
  <2>1. Released(i) /\ i < executorHead
    BY <1>1, <1>3 DEF Released
  <2>2. Aligned(i) /\ i \in Nat /\ tail + BatchSize <= i
    BY <1>1, Numbers, SMT DEF Window, Aligned
  <2>3. executorHead <= tail + 2 * BatchSize
    BY DEF TailInv, TailFollows
  <2>4. tail < i /\ i < tail + RingSize
    BY <2>1, <2>2, <2>3, TwoBatches, Numbers, SMT
  <2>5. i \in Window /\ i # tail
    BY <2>2, <2>4, WindowMember, Numbers, SMT
  <2> QED  BY <2>1, <2>5 DEF TailInv, MarksKept
<1>6. TailFollows'
  <2>1. executorHead <= tail + 2 * BatchSize
    BY DEF TailInv, TailFollows
  <2>2. executorHead' <= tail' + 2 * BatchSize
    BY <1>1, <2>1, Numbers, SMT
  <2> QED  BY <1>2, <2>2 DEF TailFollows
<1>7. ClaimsNewest'
  BY <1>1, <1>3 DEF TailInv, ClaimsNewest, Workers
<1> QED  BY <1>4, <1>5, <1>6, <1>7 DEF TailInv

LEMMA WorkerTail ==
    ASSUME Typed, RingInv, TailInv, SingleExecutor, Capacity > 1,
           NEW x \in Workers, WorkerStep(x)
    PROVE  TailInv'
<1>1. /\ xpc[x] \in {"move_head", "take", "advance"} => seen[x] = tail
      /\ xpc[x] \notin {"listen", "asleep"}
      /\ xpc[x] \in {"check", "claim"} => seen[x] = executorHead
      /\ xpc[x] \in WorkerStates
  BY DEF TailInv, TailLoadedIsTail, ClaimsNewest, RingInv, ClaimInv,
         ManagerAlone, Workers, Typed, TypeOK
<1>2. CASE LoadExecutorHead(x)
  <2>1. /\ UNCHANGED <<tail, executorHead, dirty, idx>> /\ xpc[x] = "idle"
        /\ xpc'[x] = "check" /\ seen'[x] = executorHead
        /\ \A y \in Workers \ {x} : xpc'[y] = xpc[y] /\ seen'[y] = seen[y]
    BY <1>2 DEF LoadExecutorHead, Goto, Typed, TypeOK
  <2>2. ~Active(x) /\ ~Active(x)' /\ ~Busy(x) /\ ~Busy(x)'
    BY <2>1 DEF Active, Busy, Moving
  <2> QED  BY <2>1, <2>2, TailQuiet
<1>3. CASE CheckRoom(x)
  <2>1. xpc[x] = "check" /\ seen[x] = executorHead
    BY <1>1, <1>3 DEF CheckRoom
  <2>2. x \in Executors /\ Registered
    BY <1>3, ExecutorSeesRegistered
       DEF CheckRoom, RingInv, ClaimInv, ManagerAlone, Workers
  <2>3. executorHead <= tail + BatchSize
    <3>1. \A y \in Workers : ~Busy(y)
      BY <2>1, <2>2 DEF SingleExecutor, Workers, Busy, Active, Moving, Registered
    <3> QED  BY <3>1 DEF TailInv, TailFollows
  <2>4. tail <= executorHead
    BY DEF RingInv, ClaimInv, ClaimsBounded
  <2>5. ~IsFull(executorHead, tail)
    BY <2>3, <2>4, TwoBatches, Numbers, SMT DEF IsFull
  <2>6. /\ Goto(x, "claim") /\ UNCHANGED <<tail, executorHead, dirty, idx, seen>>
    BY <1>3, <2>1, <2>5 DEF CheckRoom
  <2>7. ~Active(x) /\ ~Moving(x)
    BY <2>1 DEF Active, Moving
  <2> QED  BY <2>1, <2>6, <2>7, TailGoto DEF WorkerStates
<1>4. CASE Listen(x)
  BY <1>1, <1>4 DEF Listen
<1>5. CASE Claim(x)
  BY <1>1, <1>5, ClaimTail DEF Claim
<1>6. CASE AwaitFirst(x)
  BY <1>6, TailGoto DEF AwaitFirst, WorkerStates, Active, Moving
<1>7. CASE Peek(x)
  BY <1>7, TailGoto DEF Peek, WorkerStates, Active, Moving
<1>8. CASE DeadlineExpires(x) \/ AwaitFull(x)
  BY <1>8, TailGoto DEF DeadlineExpires, AwaitFull, WorkerStates, Active, Moving
<1>9. CASE Seal(x) \/ SpinWritten(x)
  <2>1. CASE xpc' = xpc /\ seen' = seen /\ idx' = idx
    <3>1. xpc[x] \in {"seal", "spin"} /\ UNCHANGED <<tail, executorHead, dirty>>
      BY <1>9 DEF Seal, SpinWritten
    <3>2. (Active(x)' <=> Active(x)) /\ (Busy(x)' <=> Busy(x))
      BY <2>1 DEF Active, Busy, Moving
    <3> QED  BY <2>1, <3>1, <3>2, TailQuiet
  <2>2. CASE ~(xpc' = xpc /\ seen' = seen /\ idx' = idx)
    <3>1. \E pc \in {"spin", "run"} : Goto(x, pc)
      BY <1>9, <2>2 DEF Seal, SpinWritten
    <3>2. /\ xpc[x] \in {"seal", "spin"}
          /\ UNCHANGED <<tail, executorHead, dirty, seen, idx>>
      BY <1>9 DEF Seal, SpinWritten
    <3>3. Active(x) /\ ~Moving(x)
      BY <3>2 DEF Active, Moving
    <3> QED  BY <3>1, <3>2, <3>3, TailGoto DEF WorkerStates
  <2> QED  BY <2>1, <2>2
<1>10. CASE Finish(x)
  BY <1>10, TailGoto DEF Finish, WorkerStates, Active, Moving
<1>11. CASE Warmup(x)
  BY <1>11, WarmupTail
<1>12. CASE ResetBatch(x)
  BY <1>12, ResetTail
<1>13. CASE LoadTail(x)
  <2>1. /\ UNCHANGED <<tail, executorHead, dirty, idx>> /\ xpc[x] = "move"
        /\ xpc'[x] = "move_head" /\ seen'[x] = tail
        /\ \A y \in Workers \ {x} : xpc'[y] = xpc[y] /\ seen'[y] = seen[y]
    BY <1>13 DEF LoadTail, Goto, Typed, TypeOK
  <2>2. ~Active(x) /\ ~Active(x)' /\ Busy(x) /\ Busy(x)'
    BY <2>1 DEF Active, Busy, Moving
  <2> QED  BY <2>1, <2>2, TailQuiet
<1>14. CASE CheckHead(x)
  <2>1. /\ xpc[x] = "move_head" /\ seen[x] = tail
        /\ UNCHANGED <<tail, executorHead, dirty>>
    BY <1>1, <1>14 DEF CheckHead
  <2>2. Busy(x) /\ Moving(x) /\ ~Active(x)
    BY <2>1 DEF Busy, Moving, Active
  <2>3. CASE StillOpen(tail)
    <3>1. \A y \in Workers : ~Active(y)
      BY <2>2, OneBusy DEF Busy, RingInv, ClaimInv
    <3>2. executorHead <= head
      BY <3>1, NobodyHolds
    <3>3. HigherBound(tail) = tail + BatchSize
      BY HigherBoundFacts DEF RingInv, ClaimInv, WholeBatches, Aligned
    <3>4. head <= tail + BatchSize
      BY <2>3, <3>3, Numbers, SMT DEF StillOpen
    <3>5. executorHead <= tail + BatchSize
      BY <3>2, <3>4, Numbers, SMT
    <3> QED  BY <1>14, <2>1, <2>3, <3>5, TailReturns DEF CheckHead
  <2>4. CASE ~StillOpen(tail)
    BY <1>14, <2>1, <2>2, <2>4, TailGoto DEF CheckHead, WorkerStates
  <2> QED  BY <2>3, <2>4
<1>15. CASE TakeDirty(x)
  <2>1. xpc[x] = "take" /\ seen[x] = tail
    BY <1>1, <1>15 DEF TakeDirty
  <2>2. CASE IsFinished(BatchId(tail))
    BY <1>15, <2>1, <2>2, TakeTail
  <2>3. CASE ~IsFinished(BatchId(tail))
    <3>1. \A y \in Workers : ~Active(y) /\ xpc[y] # "advance"
      <4>1. Busy(x)
        BY <2>1 DEF Busy, Moving
      <4>2. \A y \in Workers : Active(y) \/ xpc[y] = "advance" => Busy(y)
        BY DEF Busy, Moving
      <4>3. ~Active(x)
        BY <2>1 DEF Active
      <4> QED  BY <2>1, <4>1, <4>2, <4>3, OneBusy DEF RingInv, ClaimInv
    <3>2. tail \in Window
      BY WindowMember, Numbers, SMT DEF RingInv, ClaimInv, WholeBatches
    <3>3. ~Released(tail)
      BY <2>3, <3>1, <3>2 DEF TailInv, MarksKept, IsFinished
    <3>4. ~(tail < executorHead)
      BY <3>1, <3>3 DEF Released
    <3>5. executorHead <= tail + BatchSize
      BY <3>4, Numbers, SMT
    <3>6. Return(x) /\ UNCHANGED <<tail, executorHead, dirty>>
      BY <1>15, <2>1, <2>3 DEF TakeDirty
    <3> QED  BY <2>1, <3>5, <3>6, TailReturns
  <2> QED  BY <2>2, <2>3
<1>16. CASE AdvanceTail(x)
  BY <1>1, <1>16, AdvanceTailOn DEF AdvanceTail
<1> QED
  BY <1>2, <1>3, <1>4, <1>5, <1>6, <1>7, <1>8, <1>9, <1>10, <1>11, <1>12,
     <1>13, <1>14, <1>15, <1>16 DEF WorkerStep

LEMMA NextTail ==
    ASSUME Typed, RingInv, DeadlineOnce, TailInv, SingleExecutor, Capacity > 1,
           [Next]_vars
    PROVE  TailInv'
<1>1. CASE Next
  BY <1>1, RequestTail, WorkerTail DEF Next
<1>2. CASE UNCHANGED vars
  <2>1. Window' = Window /\ \A i : Released(i)' <=> Released(i)
    BY <1>2 DEF Window, Released, Active
  <2> QED  BY <1>2, <2>1 DEF TailInv, TailLoadedIsTail, MarksKept, TailFollows,
                             ClaimsNewest, Busy, Active, Moving
<1> QED  BY <1>1, <1>2

(***************************************************************************)
(* When nothing is left to do the executor waits for a first row that      *)
(* nobody announced: head has not entered its batch, which is the next one *)
(* and has been clean since its reset.                                     *)
(***************************************************************************)
LEMMA InvImpliesIdleModelServes ==
    ASSUME Typed, RingInv, DeadlineOnce, WakeInv, TailInv, SingleExecutor,
           InputSupported
    PROVE  IdleModelServes
<1> SUFFICES ASSUME Quiescent
             PROVE  /\ ~IsFull(head, tail) /\ SlotId(head) = 0
                    /\ writtenSlots[BatchId(head)] = 0
                    /\ ~state[BatchId(head)].deadline
                    /\ \E x \in Executors : xpc[x] = "await_first" /\ idx[x] = head
  BY DEF IdleModelServes
<1>1. PICK e \in Executors : Executors = {e}
  BY DEF SingleExecutor
<1>2. /\ xpc[e] = "await_first" /\ ~state[BatchId(idx[e])].permit
      /\ xpc[Manager] = "idle" /\ Active(e) /\ e \in Workers
  BY <1>1 DEF Quiescent, Registered, TailInv, ClaimsNewest, Active, Workers
<1> DEFINE i == idx[e]
<1>3. /\ i \in Window /\ ~Released(i) /\ i \in Nat /\ Aligned(i)
      /\ tail <= i /\ i + BatchSize <= tail + RingSize
      /\ executorHead = i + BatchSize
  BY <1>1, <1>2, HeldBatch DEF RingInv, ClaimInv, ClaimsBounded, TailInv, ClaimsNewest
<1>4. \A x \in Workers : Active(x) => x = e
  BY <1>1, <1>2 DEF Workers, Active
<1>5. Pending = {} /\ \A r \in Requests : rpc[r] # "notify"
  <2>1. \A r \in Requests : rpc[r] \in {"new", "ok", "ring_full", "error"}
    BY DEF Quiescent, Returned
  <2>2. ASSUME NEW r \in Requests PROVE Unpublished(r) = {}
    <3>1. CASE rpc[r] # "error"
      BY <2>1, <3>1 DEF Unpublished
    <3>2. CASE rpc[r] = "error"
      <4>1. sent[r] = size[r] /\ at[r] \in Nat /\ size[r] \in Nat
        BY <3>2, RequestNumbers DEF WakeInv, ErrorsPublished
      <4>2. at[r] .. at[r] + size[r] - sent[r] - 1 = {}
        BY <4>1, SMT
      <4> QED  BY <3>2, <4>2 DEF Unpublished
    <3> QED  BY <3>1, <3>2
  <2> QED  BY <2>1, <2>2, PendingMember
<1>6. ~(i < head)
  <2>1. Unawakened(i)
    BY <1>2 DEF Unawakened
  <2> QED  BY <1>2, <1>3, <1>5, <2>1 DEF WakeInv, FirstRowAnnounced
<1>7. i <= head
  <2>1. CASE i = 0
    BY <2>1, Numbers, SMT
  <2>2. CASE i # 0
    <3>1. PICK j : Aligned(j) /\ j \in Nat /\ i = j + BatchSize
      BY <1>3, <2>2, BatchBelow
    <3>2. j \in 0 .. executorHead /\ j < executorHead /\ j # i
      BY <1>3, <3>1, Numbers, SMT
    <3>3. Released(j)
      BY <1>4, <3>2 DEF Released
    <3> QED  BY <3>1, <3>2, <3>3 DEF RingInv, SlotInv, SealedBelowHead
  <2> QED  BY <2>1, <2>2
<1>8. head = i
  BY <1>3, <1>6, <1>7, Numbers, SMT
<1>9. ~IsFull(head, tail) /\ SlotId(head) = 0
  <2>1. ~IsFull(head, tail)
    BY <1>3, <1>8, Numbers, SMT DEF IsFull
  <2> QED  BY <1>3, <1>8, <2>1 DEF Aligned
<1>10. writtenSlots[BatchId(i)] = 0
  <2>1. \A x \in Workers : Sealed(x) => idx[x] # i
    BY <1>2, <1>4 DEF Sealed, Active
  <2>2. writtenSlots[BatchId(i)] + Cardinality(PendingIn(i)) = FilledTo(i)
    BY <1>3, <2>1 DEF RingInv, SlotInv, SlotsAddUp
  <2>3. PendingIn(i) = {} /\ Cardinality({}) = 0
    BY <1>5, FS_EmptySet DEF PendingIn
  <2>4. FilledTo(i) = 0
    BY <1>8, Numbers, SMT DEF FilledTo
  <2>5. writtenSlots[BatchId(i)] \in Nat
    BY <1>3, BatchIdInRange DEF Typed, TypeOK
  <2> QED  BY <2>2, <2>3, <2>4, <2>5, SMT
<1>11. ~state[BatchId(i)].deadline
  BY <1>3, <1>6 DEF DeadlineOnce
<1> QED  BY <1>1, <1>2, <1>8, <1>9, <1>10, <1>11

(***************************************************************************)
(* A model with one executor that is idle still serves, however often its  *)
(* ring went round: no wake-up got lost, no mark of a finished batch was   *)
(* dropped and the tail is not stuck.                                      *)
(***************************************************************************)
THEOREM IdleModelKeepsServing ==
    ASSUME SingleExecutor, Capacity > 1, InputSupported
    PROVE  Spec /\ ReservesWithinRing => []IdleModelServes
<1>1. Init => WakeInv /\ TailInv
  BY InitWakes, InitTail
<1>2. Typed /\ RingInv /\ DeadlineOnce /\ WakeInv /\ TailInv /\ [Next]_vars
         => WakeInv' /\ TailInv'
  BY NextWakes, NextTail
<1>3. Typed /\ RingInv /\ DeadlineOnce /\ WakeInv /\ TailInv => IdleModelServes
  BY InvImpliesIdleModelServes
<1> QED  BY <1>1, <1>2, <1>3, TypedInvariant, ReservesWithinRingKeeps, PTL DEF Spec

\* For calls of one row that holds without a hypothesis on the behaviour.
THEOREM OneRowModelKeepsServing ==
    ASSUME SingleExecutor, Capacity > 1, InputSupported, ReqSizes = {1}
    PROVE  Spec => []IdleModelServes
BY OneRowReserves, IdleModelKeepsServing, PTL
==============================================================================
