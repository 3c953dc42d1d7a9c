------------------------------ MODULE InferCall ------------------------------
(***************************************************************************)
(* The data of an inference call, from the request's tensors to the        *)
(* response's: how ModelRuntimeManager::load_model derives the shapes of a *)
(* model, how `model_infer` validates and orders the inputs, how rows are  *)
(* copied into the slots of a batch, how one session thread runs the batch *)
(* on the host or through persistent GPU tensors (loader.rs,               *)
(* gpu_binding.rs), and how `get_data` puts the answer together.           *)
(*                                                                         *)
(* The ring is reduced to what the data needs: slots are handed out in     *)
(* order, batches run in order, a batch runs when the slots reserved in it *)
(* are written, and it is not reused (SuperTensor has the rest).           *)
(***************************************************************************)
EXTENDS Tensors, FiniteSets, TLC

CONSTANTS Calls,       \* inference calls, each issued once
          Models,      \* the model that is loaded: graph and config
          Requests(_), \* requests a client may send to a loaded model
          BatchSize,   \* slots of a batch
          MaxBatches,  \* bound: batches filled by the calls
          RunMayFail   \* may a run of the session fail once it was warm?

ASSUME InferBounds == /\ BatchSize \in Nat \ {0} /\ MaxBatches \in Nat \ {0}
                      /\ RunMayFail \in BOOLEAN

\* A graph names each of its inputs once; a config maps names to shapes.
ASSUME ModelsAssumption ==
    \A mod \in Models :
        /\ mod.inputs \in Seq([name : STRING, type : TensorElementType,
                               shape : Seq(Int)])
        /\ mod.outputs \in Seq([name : STRING, type : TensorElementType,
                                shape : Seq(Int), row : Seq(Nat)])
        /\ \A i, j \in DOMAIN mod.inputs :
            mod.inputs[i].name = mod.inputs[j].name => i = j
        /\ \A name \in DOMAIN mod.inShapes : mod.inShapes[name] \in Seq(Int)
        /\ \A name \in DOMAIN mod.outShapes : mod.outShapes[name] \in Seq(Int)
        /\ mod.gpu \in BOOLEAN

VARIABLES
    model,    \* the model: graph tensors, config overrides, allocator
    phase,    \* "loading", "serving", or the step whose panic aborted it
    head,     \* next free slot, over all batches
    buffer,   \* input_tensors: the data of each input of each batch
    written,  \* written_slots of each batch
    call,     \* "new", "waiting" or the status of the answer
    request,  \* the request of each call
    resv,     \* its WriteReservations
    reply,    \* the output tensors of the response
    cell,     \* the output of each batch: "none", "ok" or "err", and values
    pc,       \* where the session thread is in its run
    batch,    \* the batch it runs next or is running
    stream,   \* operations queued on the CUDA stream, oldest first
    gpu       \* gpu_inputs and bound outputs: persistent device tensors

vars == <<model, phase, head, buffer, written, call, request, resv, reply,
          cell, pc, batch, stream, gpu>>

requestVars == <<call, request, resv, reply>>
sessionVars == <<cell, pc, batch, stream, gpu>>

BatchIds == 0 .. MaxBatches - 1
Capacity == MaxBatches * BatchSize

Inputs  == DOMAIN model.inputs
Outputs == DOMAIN model.outputs

-------------------------------------------------------------------------------
(***************************************************************************)
(* Loading: the shapes of a model.                                         *)
(***************************************************************************)

\* Elements of a slot of input i.
Width(i) == LET t == model.inputs[i]
            IN  RowElements(EffectiveShape(t.name, t.shape, model.inShapes))

\* Elements the graph computes per row of output o.
OutWidth(o) == NumElements(model.outputs[o].row)

Published(t, shape) ==
    [name |-> t.name, datatype |-> MetadataString[DataTypeOf(t.type)],
     shape |-> shape]

\* Fault: the metadata of the inputs is merged, like that of the outputs.
MergedInputMeta ==
    [i \in Inputs |-> LET t == model.inputs[i] IN
        Published(t, MergedShape(t.name, t.shape, model.inShapes))]

MetaOf(mod) ==
    [i \in DOMAIN mod.inputs |-> LET t == mod.inputs[i] IN
        Published(t, ReplacedShape(t.name, t.shape, mod.inShapes))]

\* model_metadata.input_meta; its position is the input's `order`.
InputMeta == MetaOf(model)

OutputMeta ==
    [o \in Outputs |-> LET t == model.outputs[o] IN
        Published(t, MergedShape(t.name, t.shape, model.outShapes))]

\* model_config.input: what calls are validated against.
ConfigDims(i) ==
    LET t == model.inputs[i] IN ReplacedShape(t.name, t.shape, model.inShapes)

\* build_gpu_bound_spec.
GpuInputShape(i) == Batched(ConfigDims(i), BatchSize)
GpuOutputShape(o) == Batched(OutputMeta[o].shape, BatchSize)

\* new_with_overrides, `input_shape[0] = 1` and `dims[0] = batch_size`.
ShapesAccepted ==
    \A i \in Inputs :
        LET t == model.inputs[i] IN
        /\ IsBatchable(EffectiveShape(t.name, t.shape, model.inShapes))
        /\ ConfigDims(i) # <<>>

\* GpuBoundIo::new allocates every device tensor; none may be dynamic.
GpuTensorsAllocated ==
    /\ \A i \in Inputs : IsStatic(GpuInputShape(i))
    /\ \A o \in Outputs : IsStatic(GpuOutputShape(o))

\* The runtime refuses tensors that contradict the graph, and copies or bound
\* outputs between tensors of different shapes.
WarmupSucceeds ==
    LET host(i) == LET t == model.inputs[i] IN
            Batched(EffectiveShape(t.name, t.shape, model.inShapes), BatchSize)
        fixed(i) == {d \in DOMAIN model.inputs[i].shape :
                         model.inputs[i].shape[d] # -1}
    IN  /\ \A i \in Inputs : \A d \in fixed(i) :
            host(i)[d] = model.inputs[i].shape[d]
        /\ model.gpu =>
            /\ \A i \in Inputs : GpuInputShape(i) = host(i)
            /\ \A o \in Outputs :
                GpuOutputShape(o) = <<BatchSize>> \o model.outputs[o].row

\* An element nobody wrote: whatever the allocator left there.
Unwritten == <<"unwritten">>
FreshInputs == [i \in Inputs |-> [e \in 1 .. BatchSize * Width(i) |-> Unwritten]]

\* The graph, external: row s of every output depends on row s of the inputs.
Kernel(tensors) ==
    [o \in Outputs |-> [e \in 1 .. BatchSize * OutWidth(o) |->
        LET s == (e - 1) \div OutWidth(o) IN
        <<o, [i \in Inputs |-> SliceOf(tensors[i], s * Width(i),
                                       (s + 1) * Width(i))],
          (e - 1) % OutWidth(o)>>]]

\* load_model from the first session on: any failure here is a panic, and
\* panic = "abort".  Three warmup runs of the fresh buffers went through the GPU.
LoadModel ==
    /\ phase = "loading"
    /\ IF ShapesAccepted /\ (model.gpu => GpuTensorsAllocated) /\ WarmupSucceeds
       THEN /\ phase' = "serving"
            /\ buffer' = [b \in BatchIds |-> FreshInputs]
            /\ gpu' = IF model.gpu
                      THEN [ins |-> FreshInputs, outs |-> Kernel(FreshInputs)]
                      ELSE gpu
       ELSE phase' = "load_panic" /\ UNCHANGED <<buffer, gpu>>
    /\ UNCHANGED <<model, head, written, requestVars, cell, pc, batch, stream>>

-------------------------------------------------------------------------------
(***************************************************************************)
(* `model_infer` up to the end of `infer`.                                 *)
(***************************************************************************)

\* Is t a request's tensor for the input of this name and these dims?
Matches(t, name, dims) ==
    /\ t.name = name
    /\ Len(t.shape) = Len(dims)
    /\ t.shape[1] > 0
    /\ \A d \in 2 .. Len(dims) : t.shape[d] = dims[d]

\* The checks of each input of the request by itself.
IsValid(req) ==
    \A k \in DOMAIN req.inputs : \E i \in Inputs :
        Matches(req.inputs[k], model.inputs[i].name, ConfigDims(i))

\* What `infer` relies on and nothing checks ("TODO: validate before that"):
\* each input is there, once, and all have as many rows.
SuitsInfer(meta, req) ==
    /\ Len(req.inputs) = Len(meta)
    /\ \A i \in DOMAIN meta : \E k \in DOMAIN req.inputs :
        req.inputs[k].name = meta[i].name
    /\ \A j, k \in DOMAIN req.inputs :
        req.inputs[j].shape[1] = req.inputs[k].shape[1]

\* A client sends tensors, and at least one; those that `infer` cannot do
\* with are refused for another reason.
ASSUME RequestsAssumption ==
    \A mod \in Models : \A req \in Requests(MetaOf(mod)) :
        LET meta == MetaOf(mod) IN
        /\ req.inputs \in Seq([name : STRING, datatype : STRING,
                               shape : Seq(Int)])
        /\ req.inputs # <<>>
        /\ SuitsInfer(meta, req) \/ \E k \in DOMAIN req.inputs :
            \A i \in DOMAIN meta :
                ~Matches(req.inputs[k], meta[i].name, meta[i].shape)

Order(t) == CHOOSE i \in Inputs : InputMeta[i].name = t.name

\* Fault: the inputs keep the order of the request.
InRequestOrder(req) == [k \in DOMAIN req.inputs |-> k]

\* ordered_inputs: positions in the request, in the order of the model.
OrderedInputs(req) ==
    CHOOSE order \in SetToSeqs(DOMAIN req.inputs) :
        \A j, k \in DOMAIN order :
            Order(req.inputs[order[j]]) < Order(req.inputs[order[k]]) => j < k

\* The content of input k of the request of c, in row-major order.
RawContents(c, req, k) ==
    LET t == req.inputs[k]
        width == RowElements(t.shape)
    IN  [e \in 1 .. NumElements(t.shape) |->
            <<c, t.name, (e - 1) \div width, (e - 1) % width>>]

\* Fault: contents are taken by the position in the ordered list.
ContentsByOrder(c, req) ==
    LET order == OrderedInputs(req) IN
    [n \in DOMAIN order |->
        [datatype |-> FromStr(req.inputs[order[n]].datatype),
         shape |-> req.inputs[order[n]].shape, data |-> RawContents(c, req, n)]]

\* The TensorBytes handed to `infer`.
TensorBytes(c, req) ==
    LET order == OrderedInputs(req) IN
    [n \in DOMAIN order |->
        [datatype |-> FromStr(req.inputs[order[n]].datatype),
         shape |-> req.inputs[order[n]].shape,
         data |-> RawContents(c, req, order[n])]]

\* The chunks of n rows that start at slot `at`: one per batch they touch.
Chunks(at, n) ==
    LET first == at \div BatchSize
        last  == (at + n - 1) \div BatchSize
    IN  [k \in 1 .. last - first + 1 |->
            LET b == first + k - 1
                from == IF k = 1 THEN at ELSE b * BatchSize
                to == IF b = last THEN at + n ELSE (b + 1) * BatchSize
            IN  [batch |-> b, start |-> from - b * BatchSize,
                 end |-> to - b * BatchSize, row |-> from - at]]

\* The slice of input i that goes into a chunk.
ChunkSlice(data, i, chunk) ==
    SliceDim0(data[i].data, data[i].shape[1], chunk.row,
              chunk.row + chunk.end - chunk.start)

\* insert_tensors_at stops at the first input whose type it cannot copy.
Copied == {i \in Inputs : \A j \in 1 .. i : model.inputs[j].type \in CopyableTypes}

AfterChunk(data, chunk, tensors) ==
    [i \in Inputs |->
        IF i \in Copied
        THEN CopiedAt(tensors[i], Width(i), chunk.start,
                      ChunkSlice(data, i, chunk))
        ELSE tensors[i]]

OutOfRange(data, chunk) ==
    \E i \in Copied : ~FitsAt(buffer[chunk.batch][i], Width(i), chunk.start,
                              ChunkSlice(data, i, chunk))

\* `infer` of the ordered inputs: reserve, then copy and account every chunk.
\* A type that cannot be copied ends it in the first chunk, unaccounted.
Insert(c, req) ==
    LET data   == TensorBytes(c, req)
        rows   == data[1].shape[1]
        chunks == Chunks(head, rows)
        done   == IF Copied = Inputs THEN chunks ELSE <<chunks[1]>>
        in(b) == {k \in DOMAIN done : done[k].batch = b}
        part(b) == done[CHOOSE k \in in(b) : TRUE]
    IN  /\ head + rows <= Capacity
        /\ head' = head + rows
        /\ IF \E k \in DOMAIN done : OutOfRange(data, done[k])
           THEN /\ phase' = "copy_panic"
                /\ UNCHANGED <<buffer, written, call, resv>>
           ELSE /\ buffer' = [b \in BatchIds |->
                    IF in(b) = {} THEN buffer[b]
                    ELSE AfterChunk(data, part(b), buffer[b])]
                /\ IF Copied = Inputs
                   THEN /\ written' = [b \in BatchIds |->
                            IF in(b) = {} THEN written[b]
                            ELSE written[b] + part(b).end - part(b).start]
                        /\ resv' = [resv EXCEPT ![c] = chunks]
                        /\ call' = [call EXCEPT ![c] = "waiting"]
                   ELSE /\ call' = [call EXCEPT ![c] = "error"]
                        /\ UNCHANGED <<written, resv>>
                /\ UNCHANGED phase

\* model_infer: refuse, or validate, order and insert.  The ring may be full.
ModelInfer(c) ==
    /\ phase = "serving" /\ call[c] = "new"
    /\ \E req \in Requests(InputMeta) :
        /\ request' = [request EXCEPT ![c] = req]
        /\ \/ /\ ~IsValid(req)
              /\ call' = [call EXCEPT ![c] = "invalid"]
              /\ UNCHANGED <<head, phase, buffer, written, resv>>
           \/ /\ IsValid(req)
              /\ call' = [call EXCEPT ![c] = "ring_full"]
              /\ UNCHANGED <<head, phase, buffer, written, resv>>
           \/ IsValid(req) /\ Insert(c, req)
    /\ UNCHANGED <<model, reply, sessionVars>>

-------------------------------------------------------------------------------
(***************************************************************************)
(* The session thread: run_host and run_gpu_bound.                         *)
(***************************************************************************)

Serving == phase = "serving"
OutputOf(b, status, values) ==
    cell' = [cell EXCEPT ![b] = [status |-> status, values |-> values]]

\* A failure sets the cell to the error and drops the landing tensors.
RunFails ==
    /\ RunMayFail
    /\ OutputOf(batch, "err", <<>>)
    /\ pc' = "idle" /\ batch' = batch + 1

\* Fault: sealing always moves head on by a batch.
SkippedHead == head + BatchSize

\* seal_current_batch: skip the slots of the batch nobody reserved.
SealedHead ==
    IF head < (batch + 1) * BatchSize THEN (batch + 1) * BatchSize ELSE head

\* The batch has rows, all of them written: seal it and start its run.
StartRun ==
    LET first == batch * BatchSize IN
    /\ Serving /\ pc = "idle" /\ batch \in BatchIds /\ written[batch] > 0
    /\ written[batch] = IF head - first < BatchSize THEN head - first
                                                    ELSE BatchSize
    /\ head' = SealedHead
    /\ pc' = IF model.gpu THEN "h2d" ELSE "run_host"
    /\ UNCHANGED <<model, phase, buffer, written, requestVars, cell, batch,
                   stream, gpu>>

RunHost ==
    /\ Serving /\ pc = "run_host"
    /\ \/ /\ OutputOf(batch, "ok", Kernel(buffer[batch]))
          /\ pc' = "idle" /\ batch' = batch + 1
       \/ RunFails
    /\ UNCHANGED <<model, phase, head, buffer, written, requestVars, stream, gpu>>

\* Queue the copies of the inputs; one of them may fail after earlier ones.
QueueH2D ==
    /\ Serving /\ pc = "h2d"
    /\ \E n \in 0 .. Cardinality(Inputs) :
        /\ stream' = stream \o [i \in 1 .. n |->
                                   [op |-> "h2d", batch |-> batch, tensor |-> i]]
        /\ IF n = Cardinality(Inputs)
           THEN pc' = "run_binding" /\ UNCHANGED <<cell, batch>>
           ELSE RunFails
    /\ UNCHANGED <<model, phase, head, buffer, written, requestVars, gpu>>

RunBinding ==
    /\ Serving /\ pc = "run_binding"
    /\ \/ /\ stream' = Append(stream, [op |-> "kernel", batch |-> batch,
                                       tensor |-> 0])
          /\ pc' = "d2h"
          /\ UNCHANGED <<cell, batch>>
       \/ RunFails /\ UNCHANGED stream
    /\ UNCHANGED <<model, phase, head, buffer, written, requestVars, gpu>>

\* A fresh landing tensor holds nothing of this run yet.
Unset == [o \in Outputs |-> [e \in 1 .. BatchSize * OutWidth(o) |-> Unwritten]]

\* Queue the copies of the outputs into fresh tensors; the last one waits.
QueueD2H ==
    /\ Serving /\ pc = "d2h"
    /\ \E n \in 0 .. Cardinality(Outputs) :
        /\ stream' = stream \o [o \in 1 .. n |->
                                   [op |-> "d2h", batch |-> batch, tensor |-> o]]
        /\ IF n = Cardinality(Outputs)
           THEN OutputOf(batch, "none", Unset) /\ pc' = "sync" /\ UNCHANGED batch
           ELSE RunFails
    /\ UNCHANGED <<model, phase, head, buffer, written, requestVars, gpu>>

\* Fault: the last copy does not wait either.
NeverWaits == TRUE

\* copy_into of the last output returns when the stream is drained.
Drained == stream = <<>>

FinishGpuRun ==
    /\ Serving /\ pc = "sync" /\ Drained
    /\ OutputOf(batch, "ok", cell[batch].values)
    /\ pc' = "idle" /\ batch' = batch + 1
    /\ UNCHANGED <<model, phase, head, buffer, written, requestVars, stream, gpu>>

\* The CUDA stream, external: operations take effect in order, later than they
\* were queued.  A landing tensor that was dropped is not seen by anybody.
StreamStep ==
    /\ Serving /\ stream # <<>>
    /\ stream' = Tail(stream)
    /\ LET op == Head(stream) IN
       CASE op.op = "h2d" ->
                /\ gpu' = [gpu EXCEPT !.ins[op.tensor] =
                               buffer[op.batch][op.tensor]]
                /\ UNCHANGED cell
         [] op.op = "kernel" ->
                /\ gpu' = [gpu EXCEPT !.outs = Kernel(gpu.ins)]
                /\ UNCHANGED cell
         [] op.op = "d2h" ->
                /\ cell' = IF cell[op.batch].status = "err" THEN cell
                           ELSE [cell EXCEPT ![op.batch].values[op.tensor] =
                                     gpu.outs[op.tensor]]
                /\ UNCHANGED gpu
    /\ UNCHANGED <<model, phase, head, buffer, written, requestVars, pc, batch>>

-------------------------------------------------------------------------------
(***************************************************************************)
(* `get_data` and the response of `model_infer`.                           *)
(***************************************************************************)

\* get_data over the reservations: data appended, dimension 0 added up.
ResponseTensor(c, o) ==
    LET t == model.outputs[o]
        parts == [k \in DOMAIN resv[c] |->
                     SliceOf(cell[resv[c][k].batch].values[o],
                             resv[c][k].start, resv[c][k].end)]
    IN  [name |-> OutputMeta[o].name,
         datatype |-> AsStrName[DataTypeOf(t.type)],
         shape |-> <<BatchSize * Len(resv[c])>> \o t.row,
         data |-> FlattenSeq(parts)]

GetData(c) ==
    LET status(k) == cell[resv[c][k].batch].status
        readable == \A o \in Outputs : model.outputs[o].type \in ReadableTypes
    IN  /\ Serving /\ call[c] = "waiting"
        /\ \/ /\ \A k \in DOMAIN resv[c] : status(k) = "ok"
              /\ readable
              /\ call' = [call EXCEPT ![c] = "ok"]
              /\ reply' = [reply EXCEPT ![c] =
                               [o \in Outputs |-> ResponseTensor(c, o)]]
           \/ /\ \E k \in DOMAIN resv[c] :
                    /\ \A j \in 1 .. k - 1 : status(j) = "ok"
                    /\ status(k) = "err" \/ (status(k) = "ok" /\ ~readable)
              /\ call' = [call EXCEPT ![c] = "error"]
              /\ UNCHANGED reply
        /\ UNCHANGED <<model, phase, head, buffer, written, request, resv,
                       sessionVars>>

-------------------------------------------------------------------------------
NoRequest == [inputs |-> <<>>]

Init ==
    /\ model \in Models
    /\ phase = "loading"
    /\ head = 0
    /\ buffer = <<>>
    /\ written = [b \in BatchIds |-> 0]
    /\ call = [c \in Calls |-> "new"]
    /\ request = [c \in Calls |-> NoRequest]
    /\ resv = [c \in Calls |-> <<>>]
    /\ reply = [c \in Calls |-> <<>>]
    /\ cell = [b \in BatchIds |-> [status |-> "none", values |-> <<>>]]
    /\ pc = "idle" /\ batch = 0
    /\ stream = <<>>
    /\ gpu = [ins |-> <<>>, outs |-> <<>>]

Next ==
    \/ LoadModel
    \/ \E c \in Calls : ModelInfer(c) \/ GetData(c)
    \/ StartRun \/ RunHost
    \/ QueueH2D \/ RunBinding \/ QueueD2H \/ FinishGpuRun \/ StreamStep

Spec == Init /\ [][Next]_vars
-------------------------------------------------------------------------------
(***************************************************************************)
(* Properties.                                                             *)
(***************************************************************************)

Phases       == {"loading", "serving", "load_panic", "copy_panic"}
CallStatuses == {"new", "waiting", "ok", "invalid", "ring_full", "error"}
SessionSteps == {"idle", "run_host", "h2d", "run_binding", "d2h", "sync"}
StreamOps    == [op : {"h2d", "kernel", "d2h"}, batch : BatchIds, tensor : Nat]
Reservation  == [batch : BatchIds, start : 0 .. BatchSize - 1,
                 end : 1 .. BatchSize, row : Nat]

\* Every variable holds a value of its type; tensors keep their length.
TypeOK ==
    /\ phase \in Phases /\ call \in [Calls -> CallStatuses]
    /\ head \in 0 .. Capacity /\ batch \in 0 .. MaxBatches
    /\ written \in [BatchIds -> 0 .. BatchSize]
    /\ pc \in SessionSteps
    /\ \A c \in Calls : \A k \in DOMAIN resv[c] : resv[c][k] \in Reservation
    /\ \A k \in DOMAIN stream : stream[k] \in StreamOps
    /\ \A b \in BatchIds : cell[b].status \in {"none", "ok", "err"}
    /\ Serving => \A b \in BatchIds : \A i \in Inputs :
                    Len(buffer[b][i]) = BatchSize * Width(i)

\* Overrides "of the same rank as the model shape" (load_model).
SameRank ==
    \A i \in Inputs : Len(ConfigDims(i)) = Len(model.inputs[i].shape)

\* Row n of input i of the request of c.
OwnRow(c, i, n) ==
    [j \in 1 .. Width(i) |-> <<c, model.inputs[i].name, n, j - 1>>]

(***************************************************************************)
(* The shapes calls are validated against (ConfigDims) and the shapes of   *)
(* the buffers (EffectiveShape) are derived apart, and the inputs arrive   *)
(* in any order: still each row of each input ends in its own slot of its  *)
(* own input, whole, and no copy leaves its tensor.                        *)
(***************************************************************************)
RowsFillTheirSlots ==
    SameRank =>
        /\ phase # "copy_panic"
        /\ \A c \in Calls : \A k \in DOMAIN resv[c] : \A i \in Inputs :
            LET res == resv[c][k] IN
            \A s \in res.start .. res.end - 1 :
                SliceOf(buffer[res.batch][i], s * Width(i), (s + 1) * Width(i))
                    = OwnRow(c, i, res.row + s - res.start)

RowsOf(c) == request[c].inputs[1].shape[1]

\* Every element the graph computes from the rows of c.
OwnElements(c, o) ==
    [e \in 1 .. RowsOf(c) * OutWidth(o) |->
        <<o, [i \in Inputs |-> OwnRow(c, i, (e - 1) \div OutWidth(o))],
          (e - 1) % OutWidth(o)>>]

(***************************************************************************)
(* For a model whose outputs have one element per row, the data of an      *)
(* answer is what the graph computes from the caller's own rows: nothing   *)
(* of an earlier or a failed run on the persistent GPU tensors, nothing of *)
(* another caller, whatever the order of the inputs in the request.        *)
(***************************************************************************)
OwnOutputs ==
    SameRank /\ (\A o \in Outputs : OutWidth(o) = 1) =>
        \A c \in Calls : call[c] = "ok" =>
            \A o \in Outputs : /\ reply[c][o].name = model.outputs[o].name
                               /\ reply[c][o].data = OwnElements(c, o)

(***************************************************************************)
(* "the last copy uses the sync variant so its tail stream-sync drains all *)
(* prior async D2H copies", into tensors that are fresh for each run: an   *)
(* output that waiting calls can read is complete and the next runs do not *)
(* touch it.                                                               *)
(***************************************************************************)
PublishedOutputsAreFinal ==
    \A b \in BatchIds : cell[b].status = "ok" =>
        cell[b].values = Kernel(buffer[b])

\* The request names every input of the metadata, with its type and shape.
FollowsMetadata(req) ==
    /\ Len(req.inputs) = Len(InputMeta)
    /\ \A i \in Inputs : \E k \in DOMAIN req.inputs :
        LET t == req.inputs[k] IN
        /\ t.name = InputMeta[i].name /\ t.datatype = InputMeta[i].datatype
        /\ Len(t.shape) = Len(InputMeta[i].shape) /\ t.shape[1] > 0
        /\ Tail(t.shape) = Tail(InputMeta[i].shape)

(***************************************************************************)
(* A client that builds its call from the answer of model_metadata is      *)
(* never refused as invalid, whatever the overrides of the config, and its *)
(* type names are read back as the types of the model.                     *)
(***************************************************************************)
MetadataIsAccepted ==
    \A c \in Calls : call[c] # "new" /\ FollowsMetadata(request[c]) =>
        /\ call[c] # "invalid"
        /\ \A i \in Inputs : TensorBytes(c, request[c])[i].datatype
                                = DataTypeOf(model.inputs[i].type)

\* Does an override say, "using -1 for the batch dimension", what the graph
\* leaves open and nothing else?
Completes(name, shape, overrides) ==
    LET full == IF name \in DOMAIN overrides THEN overrides[name] ELSE shape IN
    /\ Len(full) = Len(shape) /\ full # <<>>
    /\ full[1] = -1 /\ IsStatic(Tail(full))
    /\ \A d \in DOMAIN shape : shape[d] \in {-1, full[d]}

(***************************************************************************)
(* "Per-input shape override, using -1 for the batch dimension. Required   *)
(* when the ONNX graph has dynamic axes", and the same for outputs: a      *)
(* model whose overrides complete its graph loads and passes its warmup,   *)
(* on the host and on the GPU.                                             *)
(***************************************************************************)
DocumentedOverridesLoad ==
    /\ \A i \in Inputs : Completes(model.inputs[i].name, model.inputs[i].shape,
                                   model.inShapes)
    /\ \A o \in Outputs :
        LET t == model.outputs[o] IN
        /\ Completes(t.name, t.shape, model.outShapes)
        /\ Tail(MergedShape(t.name, t.shape, model.outShapes)) = t.row
    => phase # "load_panic"

(***************************************************************************)
(* "For each tensor, the size of this content must match what is expected  *)
(* by the tensor's shape and data type": an answer's tensor has the rows   *)
(* of its call and all their elements.                                     *)
(***************************************************************************)
ResponseIsOwnTensor ==
    \A c \in Calls : call[c] = "ok" => \A o \in Outputs :
        /\ reply[c][o].shape = <<RowsOf(c)>> \o model.outputs[o].row
        /\ reply[c][o].data = OwnElements(c, o)
==============================================================================
