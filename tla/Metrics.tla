------------------------------- MODULE Metrics -------------------------------
(***************************************************************************)
(* What the server measures about itself: the thread-local metrics of the  *)
(* processing cores, the session threads and the manager (metrics/local.rs)*)
(* the registry they are flushed to and scraped from (registry.rs,         *)
(* server.rs), and the time stamps of calls (ClientTrace) and of batches   *)
(* (ExecutionTrace).                                                       *)
(*                                                                         *)
(* One model.  Slots and batches are handed out in order; SuperTensor has  *)
(* the ring, and InferCall the copies that fail.  A flush moves all of its *)
(* thread in one step: of each series, a scrape that comes in the middle   *)
(* sees what a scrape before or after the flush sees.                      *)
(***************************************************************************)
EXTENDS Integers, Sequences, FiniteSets

CONSTANTS Calls,       \* inference calls, each issued once
          Cores,       \* processing core threads
          Placements,  \* which core each call may come to
          Sessions,    \* session threads of the model
          Manager,     \* the manager thread
          CallRows,    \* rows a call may carry
          BatchSize,   \* slots of a batch
          MaxBatches,  \* bound: batches the calls may fill
          OnGpu,       \* does the model run GPU-bound?
          WarmupRuns   \* runs of each session before the model is served

ASSUME MetricsBounds ==
    /\ BatchSize \in Nat \ {0} /\ MaxBatches \in Nat /\ WarmupRuns \in Nat
    /\ Placements \subseteq [Calls -> Cores]
    /\ OnGpu \in BOOLEAN /\ CallRows \subseteq Nat \ {0} /\ IsFiniteSet(Sessions)

\* Sums over all threads or calls are sums of finitely many counters.
ASSUME FiniteLoad == IsFiniteSet(Cores) /\ IsFiniteSet(Calls)

VARIABLES
    local,     \* LOCAL_METRICS of each thread
    registry,  \* the shared series of MetricsRegistry
    gauge,     \* the inference_executors_in_use series
    warmed,    \* warmup runs done
    call,      \* where each call is
    core,      \* the core that serves it
    rows,      \* its rows
    at,        \* the next slot it copies to
    stamps,    \* its ClientTrace
    head,      \* next free slot
    written,   \* written_slots of each batch
    claimed,   \* batches claimed by the sessions
    pc,        \* where each session thread is
    batch,     \* the batch it holds
    expected,  \* slots it saw reserved when it sealed that batch
    trace,     \* the ExecutionTrace of each batch
    output,    \* the output cell of each batch: "none", "ok" or "err"
    inUse,     \* executors_in_use of the SuperTensor
    clock,     \* Instant::now(), ticking at every stamp
    panicked   \* did an unwrap fail?

metricVars  == <<local, registry, gauge>>
callVars    == <<call, core, rows, at, stamps>>
sessionVars == <<pc, batch, expected, trace, output, inUse, claimed>>
vars == <<metricVars, warmed, callVars, head, written, sessionVars,
          clock, panicked>>

Threads  == Cores \cup Sessions \cup {Manager}
BatchIds == 0 .. MaxBatches - 1
Capacity == MaxBatches * BatchSize

-------------------------------------------------------------------------------
(***************************************************************************)
(* Local metrics.  Of a histogram only the number of its observations is   *)
(* kept, and their sum for the two that count rows.  "steps" stands for    *)
(* the histograms of a call's six steps, which record_metrics observes     *)
(* together, "model_copies" for those of the copies to and from the GPU.   *)
(***************************************************************************)

Requests == {"ok", "resource_exhausted", "error"}
Answered == {"request_duration", "client_batch_size", "steps"}
RunTimes == {"model_execution", "model_session_run", "model_copies",
             "batch_items"}
RowSums  == {"client_rows", "item_rows"}
Series   == Requests \cup Answered \cup RunTimes \cup RowSums

NoMetrics == [n \in Series |-> 0]

\* local with each metric of `names` observed once on thread t, and n rows.
Observed(t, names, sum, n) ==
    [local EXCEPT ![t] = [s \in Series |->
        IF s \in names THEN @[s] + 1 ELSE IF s = sum THEN @[s] + n ELSE @[s]]]

\* What a successful run_host or run_gpu_bound observes.
RunMetrics == {"model_session_run"} \cup (IF OnGpu THEN {"model_copies"} ELSE {})

-------------------------------------------------------------------------------
(***************************************************************************)
(* Flushes, gauges and scrapes.                                            *)
(***************************************************************************)

Served == warmed = WarmupRuns * Cardinality(Sessions)

OnCore(t) == {c \in Calls : core[c] = t}

\* A thread runs its other tasks only where its main task awaits.
Awaiting(t) ==
    \/ t \in Cores /\ \A c \in OnCore(t) : call[c] # "copying"
    \/ t \in Sessions /\ pc[t] = "await"
    \/ t = Manager /\ (Served \/ warmed = 0)

\* Fault: the batch sizes are forgotten.
FlushedButItems == Series \ {"batch_items", "item_rows"}

\* The metrics LocalMetrics::flush goes through.
Flushed == Series

\* Fault: a flush stores the local value.
Overwritten(shared, mine) == IF mine = 0 THEN shared ELSE mine

\* Local counters and histograms are added to the shared ones.
Merged(shared, mine) == shared + mine

\* flush_local_metrics, once a second on every thread.
Flush(t) ==
    /\ Awaiting(t) /\ local[t] # NoMetrics
    /\ registry' = [s \in Series |->
                       IF s \in Flushed THEN Merged(registry[s], local[t][s])
                                        ELSE registry[s]]
    /\ local' = [local EXCEPT ![t] = [s \in Series |->
                    IF s \in Flushed THEN 0 ELSE @[s]]]
    /\ UNCHANGED <<gauge, warmed, callVars, head, written,
                   sessionVars, clock, panicked>>

\* The reporter task of the model, on the manager thread.
ReportGauges ==
    /\ Served /\ gauge # inUse
    /\ gauge' = inUse
    /\ UNCHANGED <<local, registry, warmed, callVars, head,
                   written, sessionVars, clock, panicked>>

\* handle_connection on the first core answers with what the registry holds.
Encoded == registry

-------------------------------------------------------------------------------
(***************************************************************************)
(* The manager: every warmup run is observed on its thread.                *)
(***************************************************************************)
Warmup ==
    /\ ~Served
    /\ warmed' = warmed + 1
    /\ local' = Observed(Manager, RunMetrics, "none", 0)
    /\ UNCHANGED <<registry, gauge, callVars, head, written,
                   sessionVars, clock, panicked>>

-------------------------------------------------------------------------------
(***************************************************************************)
(* A call on its core.  From its start to the end of `infer` the handler   *)
(* never awaits.                                                           *)
(***************************************************************************)

BatchOf(slot) == slot \div BatchSize
LastSlot(c)   == stamps[c].first + rows[c] - 1

\* Fault: the chunk does not stop at the end of the batch.
RestOfCall(c) == LastSlot(c) + 1 - at[c]

\* Slots of c in the batch of its current chunk.
ChunkRows(c) ==
    LET room == (BatchOf(at[c]) + 1) * BatchSize - at[c]
        left == LastSlot(c) + 1 - at[c]
    IN  IF left < room THEN left ELSE room

\* ClientTrace::start up to record_serialization_done, and the reservation.
Start(c) ==
    /\ Served /\ call[c] = "new" /\ Awaiting(core[c])
    /\ \E n \in CallRows :
        /\ head + n <= Capacity
        /\ rows' = [rows EXCEPT ![c] = n]
        /\ head' = head + n
    /\ call' = [call EXCEPT ![c] = "copying"]
    /\ at' = [at EXCEPT ![c] = head]
    /\ stamps' = [stamps EXCEPT ![c].first = head,
                                ![c].serialized = clock]
    /\ clock' = clock + 1
    /\ UNCHANGED <<metricVars, warmed, core, written, sessionVars, panicked>>

\* The ring is full: counted, not timed.
Refuse(c) ==
    /\ Served /\ call[c] = "new" /\ Awaiting(core[c])
    /\ call' = [call EXCEPT ![c] = "resource_exhausted"]
    /\ local' = Observed(core[c], {"resource_exhausted"}, "none", 0)
    /\ UNCHANGED <<registry, gauge, warmed, core, rows, at, stamps, head,
                   written, sessionVars, clock, panicked>>

\* record_inference_in_queue, once per chunk: the last one stays.
StampInQueue(c) ==
    /\ call[c] = "copying" /\ stamps[c].queuedAt # at[c]
    /\ stamps' = [stamps EXCEPT ![c].queued = clock, ![c].queuedAt = at[c]]
    /\ clock' = clock + 1
    /\ UNCHANGED <<metricVars, warmed, call, core, rows, at, head,
                   written, sessionVars, panicked>>

\* insert_tensors_at: copy and account the chunk.
CopyChunk(c) ==
    /\ call[c] = "copying" /\ stamps[c].queuedAt = at[c]
    /\ written' = [written EXCEPT ![BatchOf(at[c])] = @ + ChunkRows(c)]
    /\ at' = [at EXCEPT ![c] = @ + ChunkRows(c)]
    /\ call' = [call EXCEPT ![c] = IF at'[c] > LastSlot(c) THEN "waiting" ELSE @]
    /\ UNCHANGED <<metricVars, warmed, core, rows, stamps, head,
                   sessionVars, clock, panicked>>

\* The batches that hold rows of c, and the trace its response carries.
BatchesOf(c) == BatchOf(stamps[c].first) .. BatchOf(LastSlot(c))
TraceOf(c)   == trace[BatchOf(stamps[c].first)]

\* record_execution_trace unwraps both stamps of the first batch.
AnswerOk(c) ==
    /\ call[c] = "waiting" /\ \A b \in BatchesOf(c) : output[b] = "ok"
    /\ IF TraceOf(c).start = 0 \/ TraceOf(c).end = 0
       THEN panicked' = TRUE /\ UNCHANGED <<call, stamps, clock, local>>
       ELSE /\ call' = [call EXCEPT ![c] = "ok"]
            /\ stamps' = [stamps EXCEPT ![c].processed = clock]
            /\ clock' = clock + 1
            /\ local' = Observed(core[c], {"ok"} \cup Answered, "client_rows",
                                 rows[c])
            /\ UNCHANGED panicked
    /\ UNCHANGED <<registry, gauge, warmed, core, rows, at,
                   head, written, sessionVars>>

\* get_data stops at the first batch that failed.
AnswerError(c) ==
    /\ call[c] = "waiting"
    /\ \E b \in BatchesOf(c) : /\ output[b] = "err"
                               /\ \A a \in BatchesOf(c) :
                                    a < b => output[a] = "ok"
    /\ call' = [call EXCEPT ![c] = "error"]
    /\ local' = Observed(core[c], {"error"}, "none", 0)
    /\ UNCHANGED <<registry, gauge, warmed, core, rows, at,
                   stamps, head, written, sessionVars, clock, panicked>>

-------------------------------------------------------------------------------
(***************************************************************************)
(* A session thread: OnnxExecutor::run.                                    *)
(***************************************************************************)

\* Rows reserved in batch b.
Reserved(b) ==
    LET above == head - b * BatchSize
    IN  IF above < 0 THEN 0 ELSE IF above < BatchSize THEN above ELSE BatchSize

Claim(s) ==
    /\ Served /\ pc[s] = "await" /\ claimed \in BatchIds /\ batch[s] = -1
    /\ batch' = [batch EXCEPT ![s] = claimed]
    /\ claimed' = claimed + 1
    /\ UNCHANGED <<metricVars, warmed, callVars, head, written, pc,
                   expected, trace, output, inUse, clock, panicked>>

\* The first loop of seal_current_batch, after a chunk at the start or the end
\* of the batch notified its executor.
Seal(s) ==
    /\ pc[s] = "await" /\ batch[s] # -1 /\ written[batch[s]] > 0
    /\ expected' = [expected EXCEPT ![s] = Reserved(batch[s])]
    /\ head' = IF head < (batch[s] + 1) * BatchSize
               THEN (batch[s] + 1) * BatchSize ELSE head
    /\ pc' = [pc EXCEPT ![s] = "sealed"]
    /\ UNCHANGED <<metricVars, warmed, callVars, written, batch, trace,
                   output, inUse, claimed, clock, panicked>>

\* Fault: the batch is started while rows are still being copied.
SomeWritten(s) == written[batch[s]] > 0

\* The second loop spins until every reserved slot is written.
AllWritten(s) == written[batch[s]] = expected[s]

\* Stamp exec_start, load batch_items and count the executor.
StartRun(s) ==
    /\ pc[s] = "sealed" /\ AllWritten(s)
    /\ trace' = [trace EXCEPT ![batch[s]].start = clock,
                              ![batch[s]].items = written[batch[s]]]
    /\ clock' = clock + 1
    /\ inUse' = inUse + 1
    /\ pc' = [pc EXCEPT ![s] = "run"]
    /\ UNCHANGED <<metricVars, warmed, callVars, head, written, batch,
                   expected, output, claimed, panicked>>

\* Fault: the execution is observed although the run failed.
ObservedAlways(ok) ==
    {"model_execution"} \cup (IF ok THEN RunMetrics ELSE {})

\* `?` leaves the closure before anything of a failed run is observed.
ObservedOf(ok) == IF ok THEN RunMetrics \cup {"model_execution"} ELSE {}

Run(s) ==
    /\ pc[s] = "run"
    /\ \E ok \in BOOLEAN :
        /\ local' = Observed(s, ObservedOf(ok), "none", 0)
        /\ trace' = [trace EXCEPT ![batch[s]].result = IF ok THEN "ok"
                                                             ELSE "err"]
    /\ pc' = [pc EXCEPT ![s] = "finish1"]
    /\ UNCHANGED <<registry, gauge, warmed, callVars, head,
                   written, batch, expected, output, inUse, claimed, clock,
                   panicked>>

\* Fault: the output is handed out before exec_end is stamped.
OutputFirst == <<"output", "exec_end">>

\* execute_current_batch after the run.
FinishOrder == <<"exec_end", "output">>

FinishStep(s) ==
    LET k == IF pc[s] = "finish1" THEN 1 ELSE 2 IN
    /\ pc[s] \in {"finish1", "finish2"}
    /\ IF FinishOrder[k] = "exec_end"
       THEN /\ trace' = [trace EXCEPT ![batch[s]].end = clock]
            /\ clock' = clock + 1
            /\ UNCHANGED output
       ELSE /\ output' = [output EXCEPT ![batch[s]] = trace[batch[s]].result]
            /\ UNCHANGED <<trace, clock>>
    /\ pc' = [pc EXCEPT ![s] = IF k = 1 THEN "finish2" ELSE "return"]
    /\ UNCHANGED <<metricVars, warmed, callVars, head, written, batch,
                   expected, inUse, claimed, panicked>>

\* Fault: every batch counts as full.
WholeBatch(b) == BatchSize

Items(b) == trace[b].items

\* execute_on_batch returns, its guard is dropped, batch_items is observed.
Return(s) ==
    /\ pc[s] = "return"
    /\ inUse' = inUse - 1
    /\ local' = Observed(s, {"batch_items"}, "item_rows", Items(batch[s]))
    /\ batch' = [batch EXCEPT ![s] = -1]
    /\ pc' = [pc EXCEPT ![s] = "await"]
    /\ UNCHANGED <<registry, gauge, warmed, callVars, head,
                   written, expected, trace, output, claimed, clock, panicked>>

-------------------------------------------------------------------------------
Init ==
    /\ local = [t \in Threads |-> NoMetrics]
    /\ registry = NoMetrics /\ gauge = 0
    /\ warmed = 0
    /\ call = [c \in Calls |-> "new"]
    /\ core \in Placements
    /\ rows = [c \in Calls |-> 0]
    /\ at   = [c \in Calls |-> 0]
    /\ stamps = [c \in Calls |-> [first |-> 0, serialized |-> 0, queued |-> 0,
                                  queuedAt |-> -1, processed |-> 0]]
    /\ head = 0
    /\ written = [b \in BatchIds |-> 0]
    /\ claimed = 0
    /\ pc = [s \in Sessions |-> "await"]
    /\ batch = [s \in Sessions |-> -1]
    /\ expected = [s \in Sessions |-> 0]
    /\ trace = [b \in BatchIds |-> [start |-> 0, end |-> 0, items |-> 0,
                                    result |-> "none"]]
    /\ output = [b \in BatchIds |-> "none"]
    /\ inUse = 0
    /\ clock = 1
    /\ panicked = FALSE

CallStep(c) == StampInQueue(c) \/ CopyChunk(c) \/ AnswerOk(c) \/ AnswerError(c)

SessionStep(s) == \/ Claim(s) \/ Seal(s) \/ StartRun(s) \/ Run(s) \/ FinishStep(s)
                  \/ Return(s)

Next ==
    /\ ~panicked
    /\ \/ Warmup \/ ReportGauges
       \/ \E t \in Threads : Flush(t)
       \/ \E c \in Calls : Start(c) \/ Refuse(c) \/ CallStep(c)
       \/ \E s \in Sessions : SessionStep(s)

(***************************************************************************)
(* Timers fire and threads keep running: every handler that was started,   *)
(* every session thread, the warmups, the flush of a thread that awaits,   *)
(* the gauge reporter.  No call has to arrive.                             *)
(***************************************************************************)
Fairness ==
    /\ WF_vars(~panicked /\ (Warmup \/ ReportGauges))
    /\ \A t \in Threads : WF_vars(~panicked /\ Flush(t))
    /\ \A c \in Calls : WF_vars(~panicked /\ CallStep(c))
    /\ \A s \in Sessions : WF_vars(~panicked /\ SessionStep(s))

Spec == Init /\ [][Next]_vars /\ Fairness

-------------------------------------------------------------------------------
(***************************************************************************)
(* Properties.                                                             *)
(***************************************************************************)

Counts == [Series -> Nat]

\* Every variable holds a value of its type; no batch holds too many rows.
TypeOK ==
    /\ local \in [Threads -> Counts] /\ registry \in Counts
    /\ gauge \in Nat
    /\ warmed \in 0 .. WarmupRuns * Cardinality(Sessions)
    /\ call \in [Calls -> {"new", "copying", "waiting"} \cup Requests]
    /\ core \in Placements
    /\ rows \in [Calls -> CallRows \cup {0}]
    /\ at \in [Calls -> 0 .. Capacity] /\ head \in 0 .. Capacity
    /\ stamps \in [Calls -> [first : 0 .. Capacity, serialized : Nat,
                             queued : Nat, queuedAt : -1 .. Capacity,
                             processed : Nat]]
    /\ written \in [BatchIds -> 0 .. BatchSize] /\ claimed \in 0 .. MaxBatches
    /\ pc \in [Sessions -> {"await", "sealed", "run", "finish1", "finish2",
                            "return"}]
    /\ batch \in [Sessions -> BatchIds \cup {-1}]
    /\ expected \in [Sessions -> 0 .. BatchSize]
    /\ trace \in [BatchIds -> [start : Nat, end : Nat, items : 0 .. BatchSize,
                               result : {"none", "ok", "err"}]]
    /\ output \in [BatchIds -> {"none", "ok", "err"}]
    /\ inUse \in 0 .. Cardinality(Sessions) /\ clock \in Nat
    /\ panicked \in BOOLEAN

(***************************************************************************)
(* A core that sees the output of a batch finds both time stamps of its    *)
(* execution: record_execution_trace unwraps them, and a panic on a core   *)
(* ends the process.                                                       *)
(***************************************************************************)
AnswersFindTheirTrace == ~panicked

(***************************************************************************)
(* The steps of a call whose rows are in one batch come in the order of    *)
(* their numbers (STEP 1 to STEP 6 of the registry), although two threads  *)
(* stamp them: no rows are queued after their batch started, no answer is  *)
(* made before it ended.  A difference that ran backwards would read 0.    *)
(***************************************************************************)
StepsNeverRunBackwards ==
    \A c \in Calls : call[c] = "ok" /\ Cardinality(BatchesOf(c)) = 1 =>
        /\ stamps[c].serialized < stamps[c].queued
        /\ stamps[c].queued < TraceOf(c).start
        /\ TraceOf(c).start < TraceOf(c).end
        /\ TraceOf(c).end < stamps[c].processed

\* What the threads have not flushed of a series: a pair for each unit.
Unflushed(n) == UNION {{t} \X (1 .. local[t][n]) : t \in Threads}

\* What the registry and all threads hold of a series.
Total(n) == registry[n] + Cardinality(Unflushed(n))

(***************************************************************************)
(* The series agree with each other, whatever was flushed when: every call *)
(* answered ok, and no other, is in each step's histogram; session runs    *)
(* are the warmups and the executions that succeeded; a GPU-bound model,   *)
(* and no other, copies with each run.                                     *)
(***************************************************************************)
AccountsBalance ==
    /\ \A n \in Answered : Total(n) = Total("ok")
    /\ Total("model_session_run") = warmed + Total("model_execution")
    /\ Total("model_execution") <= Total("batch_items")
                + Cardinality({s \in Sessions : pc[s] # "await"})
    /\ Total("model_copies") = IF OnGpu THEN Total("model_session_run") ELSE 0

\* No accepted call waits for a batch and no executor holds a started one.
Quiet ==
    /\ \A c \in Calls : call[c] \notin {"copying", "waiting"}
    /\ \A c \in Calls : call[c] \in {"ok", "error"} =>
           \A b \in BatchesOf(c) : output[b] # "none"
    /\ \A s \in Sessions : pc[s] = "await"

\* The rows of the calls in C: a pair for each of them.
RowsOf(C) == UNION {{c} \X (1 .. rows[c]) : c \in C}

(***************************************************************************)
(* The rows of the batches are the rows of the calls: slots that sealing   *)
(* left empty are not items, and a call over several batches counts once   *)
(* in each with its rows there, also when one of the batches failed.       *)
(***************************************************************************)
RowsAccounted ==
    /\ Quiet => Total("item_rows") = Cardinality(RowsOf(Calls))
    /\ Total("client_rows") = Cardinality(RowsOf({c \in Calls : call[c] = "ok"}))

(***************************************************************************)
(* What Prometheus scrapes never decreases: it would take that for a       *)
(* restart of the server.                                                  *)
(***************************************************************************)
ScrapesGrow == [][\A n \in Series : Encoded[n] <= Encoded'[n]]_vars

(***************************************************************************)
(* When no more calls come, everything the threads measured gets to the    *)
(* registry, and the gauge shows the executors that run: none.             *)
(***************************************************************************)
EventuallyReported ==
    <>[](panicked \/ (gauge = 0 /\ \A t \in Threads : local[t] = NoMetrics))
==============================================================================
