------------------------------ MODULE ModelServer ------------------------------
(***************************************************************************)
(* The process around the SuperTensors (main.rs, model_runtime/manager.rs, *)
(* grpc/mod.rs, metrics/local.rs): main hands the discovered models to the *)
(* manager thread over a bounded channel while the processing cores already *)
(* answer calls; the manager builds, warms up, registers and staffs one    *)
(* model after the other; every core counts its calls in counters of its   *)
(* own, which it adds to the shared registry once a second.                *)
(*                                                                         *)
(* What `infer` and `get_data` do is SuperTensor's subject: here a call    *)
(* that reached a model is refused, fails, or waits for an executor.       *)
(***************************************************************************)
EXTENDS Integers, Sequences, FiniteSets

CONSTANTS Models,       \* the discovered models
          Unknown,      \* a name no model has
          Cores,        \* processing cores, one runtime each
          Requests,     \* gRPC calls, each issued once
          Workloads,    \* which methods the calls may be of
          Placements,   \* which cores they may come to
          QueueSize,    \* places of the load channel
          NumExecutors, \* sessions per model (`num_executors`)
          PinPool       \* CPUs in the executors' pin pool

ASSUME UnknownAssumption == Unknown \notin Models
ASSUME SizesAssumption   == /\ QueueSize \in Nat \ {0}
                            /\ NumExecutors \in Nat \ {0}
                            /\ PinPool \in Nat \ {0}
ASSUME FiniteAssumption  == /\ IsFiniteSet(Models)
                            /\ IsFiniteSet(Cores) /\ IsFiniteSet(Requests)

\* The methods `route` knows, by what their handlers do.
Readers       == {"ModelMetadata", "ModelConfig"}
Constants     == {"ServerLive", "ServerReady", "ServerMetadata", "ModelReady",
                  "RepositoryIndex", "RepositoryModelLoad",
                  "RepositoryModelUnload", "CudaSharedMemoryRegister",
                  "CudaSharedMemoryUnregister"}
Unimplemented == {"ModelStatistics", "SystemSharedMemoryStatus",
                  "SystemSharedMemoryRegister", "SystemSharedMemoryUnregister",
                  "CudaSharedMemoryStatus", "TraceSetting", "LogSettings"}
Methods       == {"ModelInfer"} \cup Readers \cup Constants \cup Unimplemented

ASSUME CallsAssumption == /\ Workloads \subseteq [Requests -> Methods]
                          /\ Placements \subseteq [Requests -> Cores]

VARIABLES
    pending,    \* models main has not sent yet
    queue,      \* the load channel
    expected,   \* models whose reply main waits for, in the order of sending
    reply,      \* the oneshot reply of each model
    stage,      \* what the manager does
    task,       \* the model it does it for
    warmups,    \* warmup runs of each model
    loaded,     \* the shared model map
    gauge,      \* the loaded_models gauge
    threads,    \* session threads of each model
    pins,       \* session threads per place of the pin pool
    pinCounter, \* session threads pinned so far, of all models
    rpc,        \* where each call is
    method,     \* the method it is of
    asked,      \* the model it names
    core,       \* the core that serves it
    local,      \* each core's own counters, per model and status
    total,      \* the registry's inference_requests_total
    aborted     \* a panic aborted the process

mainVars    == <<pending, expected>>
channelVars == <<queue, reply>>
pinVars     == <<pins, pinCounter>>
managerVars == <<stage, task, warmups, loaded, gauge, threads, pinVars>>
callVars    == <<rpc, method, asked, core, local>>
vars == <<mainVars, channelVars, managerVars, callVars, total, aborted>>

Names    == Models \cup {Unknown}
Statuses == {"ok", "not_found", "resource_exhausted", "error"}
Answers  == Statuses \cup {"invalid_argument"}

\* load_model warms every session up three times.
WarmupRuns == 3 * NumExecutors

NoCounts == [n \in Names |-> [s \in Statuses |-> 0]]

Init ==
    /\ pending \in {s \in [1 .. Cardinality(Models) -> Models] :
                        \A m \in Models : \E i \in DOMAIN s : s[i] = m}
    /\ queue = <<>> /\ expected = <<>>
    /\ reply = [m \in Models |-> "none"]
    /\ stage = "idle" /\ task = Unknown
    /\ warmups = [m \in Models |-> 0]
    /\ loaded = {} /\ gauge = 0
    /\ threads = [m \in Models |-> 0]
    /\ pins = [p \in 0 .. PinPool - 1 |-> 0] /\ pinCounter = 0
    /\ rpc   = [q \in Requests |-> "new"]
    /\ asked \in [Requests -> Names]
    /\ method \in Workloads /\ core \in Placements
    /\ local = [c \in Cores |-> NoCounts]
    /\ total = NoCounts
    /\ aborted = FALSE

-------------------------------------------------------------------------------
(***************************************************************************)
(* main: send every model, then collect the replies in the same order.     *)
(***************************************************************************)

\* blocking_send waits for a place in the channel.
Dispatch ==
    /\ pending # <<>> /\ Len(queue) < QueueSize
    /\ queue'    = Append(queue, Head(pending))
    /\ expected' = Append(expected, Head(pending))
    /\ pending'  = Tail(pending)
    /\ UNCHANGED <<reply, managerVars, callVars, total, aborted>>

\* Fault: a load that failed is skipped.
FailureIsSkipped(m) == FALSE

\* A model that failed to load ends the process.
FailureIsFatal(m) == reply[m] = "err"

CollectReply ==
    /\ pending = <<>> /\ expected # <<>>
    /\ reply[Head(expected)] # "none"
    /\ expected' = Tail(expected)
    /\ aborted'  = FailureIsFatal(Head(expected))
    /\ UNCHANGED <<pending, channelVars, managerVars, callVars, total>>

-------------------------------------------------------------------------------
(***************************************************************************)
(* The manager thread: `run` and `load_model`.                             *)
(***************************************************************************)

ReceiveLoad ==
    /\ stage = "idle" /\ queue # <<>>
    /\ task'  = Head(queue)
    /\ queue' = Tail(queue)
    /\ stage' = "build"
    /\ UNCHANGED <<mainVars, reply, warmups, loaded, gauge, threads, pinVars,
                   callVars, total, aborted>>

\* `run` hands the error to main and goes on with the next request.
ReplyError ==
    /\ stage' = "idle" /\ task' = Unknown
    /\ reply' = [reply EXCEPT ![task] = "err"]

\* One session per executor, from the model's file: LoadError::SessionBuild.
BuildSessions ==
    /\ stage = "build"
    /\ \/ stage' = "buffers" /\ UNCHANGED <<task, reply>>
       \/ ReplyError
    /\ UNCHANGED <<mainVars, queue, warmups, loaded, gauge, threads, pinVars,
                   callVars, total, aborted>>

\* The allocator, the SuperTensor and the metadata of the first session; a
\* size that is no power of two and an input that is no tensor panic.
BuildBuffers ==
    /\ stage = "buffers"
    /\ \/ stage' = "warm" /\ UNCHANGED <<task, reply, aborted>>
       \/ ReplyError /\ UNCHANGED aborted
       \/ aborted' = TRUE /\ UNCHANGED <<stage, task, reply>>
    /\ UNCHANGED <<mainVars, queue, warmups, loaded, gauge, threads, pinVars,
                   callVars, total>>

\* A warmup run that fails is unwrapped: the process ends.
WarmUp ==
    /\ stage = "warm"
    /\ \/ /\ warmups' = [warmups EXCEPT ![task] = @ + 1]
          /\ stage' = IF warmups[task] + 1 = WarmupRuns THEN "register" ELSE "warm"
          /\ aborted' = FALSE
       \/ /\ aborted' = TRUE
          /\ UNCHANGED <<warmups, stage>>
    /\ UNCHANGED <<mainVars, channelVars, task, loaded, gauge, threads, pinVars,
                   callVars, total>>

\* Fault: the new map starts empty instead of as a copy of the current one.
FreshMap(m) == {m}

\* The map that replaces the current one.
NewMap(m) == loaded \cup {m}

\* From here on calls find the model, although no executor runs yet.
RegisterModel ==
    /\ stage = "register"
    /\ loaded' = NewMap(task)
    /\ gauge'  = gauge + 1
    /\ stage'  = "spawn"
    /\ UNCHANGED <<mainVars, channelVars, task, warmups, threads, pinVars,
                   callVars, total, aborted>>

\* Fault: the round robin starts over with every model.
PinFromStart(m) == threads[m] % PinPool

\* pin_counter.fetch_add(1) % pool.len(): one counter for all models.
NextPin(m) == pinCounter % PinPool

\* Fault: the loop over the sessions goes once too far.
OneSessionMore(m) == threads[m] <= NumExecutors

SessionLeft(m) == threads[m] < NumExecutors

SpawnSession ==
    /\ stage = "spawn" /\ SessionLeft(task)
    /\ threads' = [threads EXCEPT ![task] = @ + 1]
    /\ pins'    = [pins EXCEPT ![NextPin(task)] = @ + 1]
    /\ pinCounter' = pinCounter + 1
    /\ UNCHANGED <<mainVars, channelVars, stage, task, warmups, loaded, gauge,
                   callVars, total, aborted>>

\* Fault: the reply is sent as soon as one session thread runs.
OneThreadRuns(m) == threads[m] > 0

\* Fault: the reply does not wait for the threads, the rest is never spawned.
RepliesAtOnce(m) == TRUE

AllThreadsRun(m) == threads[m] = NumExecutors

ReplyLoaded ==
    /\ stage = "spawn" /\ AllThreadsRun(task)
    /\ reply' = [reply EXCEPT ![task] = "ok"]
    /\ stage' = "idle" /\ task' = Unknown
    /\ UNCHANGED <<mainVars, queue, warmups, loaded, gauge, threads, pinVars,
                   callVars, total, aborted>>

-------------------------------------------------------------------------------
(***************************************************************************)
(* The processing cores: the methods of the service and the counters.      *)
(***************************************************************************)

\* Fault: a refused call is counted as a failed one, too.
CountedTwice(q, answer) ==
    IF answer = "resource_exhausted" THEN {answer, "error"} ELSE {answer}

\* The counters an answer goes to; an invalid argument goes to none.
CountedAs(q, answer) == {answer} \cap Statuses

\* The answer and its count are one step: nothing is awaited in between.
Answer(q, answer) ==
    /\ rpc' = [rpc EXCEPT ![q] = answer]
    /\ local' = [local EXCEPT ![core[q]][asked[q]] =
                    [s \in Statuses |->
                        IF s \in CountedAs(q, answer) THEN @[s] + 1 ELSE @[s]]]

\* The call looks its model up in the map of the moment.
Lookup(q) ==
    /\ rpc[q] = "new" /\ method[q] = "ModelInfer"
    /\ IF asked[q] \in loaded
       THEN rpc' = [rpc EXCEPT ![q] = "found"] /\ UNCHANGED local
       ELSE Answer(q, "not_found")
    /\ UNCHANGED <<mainVars, channelVars, managerVars, method, asked, core,
                   total, aborted>>

\* The inputs are validated, then `infer` accepts or refuses them.
Enter(q) ==
    /\ rpc[q] = "found"
    /\ \/ rpc' = [rpc EXCEPT ![q] = "wait"] /\ UNCHANGED local
       \/ \E answer \in {"invalid_argument", "resource_exhausted", "error"} :
            Answer(q, answer)
    /\ UNCHANGED <<mainVars, channelVars, managerVars, method, asked, core,
                   total, aborted>>

\* `get_data` returns once an executor ran the call's batches.
Complete(q) ==
    /\ rpc[q] = "wait" /\ threads[asked[q]] > 0
    /\ \E answer \in {"ok", "error"} : Answer(q, answer)
    /\ UNCHANGED <<mainVars, channelVars, managerVars, method, asked, core,
                   total, aborted>>

\* model_metadata and model_config read the map and count nothing.
Describe(q) ==
    /\ rpc[q] = "new" /\ method[q] \in Readers
    /\ rpc' = [rpc EXCEPT ![q] = IF asked[q] \in loaded THEN "ok"
                                                       ELSE "not_found"]
    /\ UNCHANGED <<mainVars, channelVars, managerVars, method, asked, core,
                   local, total, aborted>>

\* Handlers that look at nothing, not even at the model they are asked about.
AnswerConstant(q) ==
    /\ rpc[q] = "new" /\ method[q] \in Constants
    /\ rpc' = [rpc EXCEPT ![q] = "ok"]
    /\ UNCHANGED <<mainVars, channelVars, managerVars, method, asked, core,
                   local, total, aborted>>

\* `todo!()` panics, and a panic ends the process.
Todo(q) ==
    /\ rpc[q] = "new" /\ method[q] \in Unimplemented
    /\ aborted' = TRUE
    /\ UNCHANGED <<mainVars, channelVars, managerVars, callVars, total>>

\* Fault: the flushed counters keep their value.
CountsKept(c) == local[c]

CountsAfterFlush(c) == NoCounts

\* flush_local_metrics, once a second on every core.
Flush(c) ==
    /\ local[c] # NoCounts
    /\ total' = [n \in Names |-> [s \in Statuses |->
                    total[n][s] + local[c][n][s]]]
    /\ local' = [local EXCEPT ![c] = CountsAfterFlush(c)]
    /\ UNCHANGED <<mainVars, channelVars, managerVars, rpc, method, asked,
                   core, aborted>>

-------------------------------------------------------------------------------
Main    == Dispatch \/ CollectReply
Manager == \/ ReceiveLoad \/ BuildSessions \/ BuildBuffers \/ WarmUp
           \/ RegisterModel \/ SpawnSession \/ ReplyLoaded
Call(q) == \/ Lookup(q) \/ Enter(q) \/ Complete(q)
           \/ Describe(q) \/ AnswerConstant(q) \/ Todo(q)

Next ==
    /\ ~aborted
    /\ \/ Main \/ Manager
       \/ \E q \in Requests : Call(q)
       \/ \E c \in Cores : Flush(c)

\* Every thread keeps running; no call has to arrive.
Fairness ==
    /\ WF_vars(~aborted /\ Main) /\ WF_vars(~aborted /\ Manager)
    /\ \A q \in Requests : WF_vars(~aborted /\ rpc[q] # "new" /\ Call(q))

Spec == Init /\ [][Next]_vars /\ Fairness

-------------------------------------------------------------------------------
(***************************************************************************)
(* Properties.                                                             *)
(***************************************************************************)

\* Every variable holds a value of its type.
TypeOK ==
    /\ pending \in Seq(Models) /\ queue \in Seq(Models)
    /\ expected \in Seq(Models) /\ Len(queue) <= QueueSize
    /\ reply \in [Models -> {"none", "ok", "err"}]
    /\ stage \in {"idle", "build", "buffers", "warm", "register", "spawn"}
    /\ task \in Names /\ (stage # "idle" => task \in Models)
    /\ warmups \in [Models -> 0 .. WarmupRuns]
    /\ loaded \subseteq Models /\ gauge \in Nat
    /\ threads \in [Models -> 0 .. NumExecutors]
    /\ pins \in [0 .. PinPool - 1 -> Nat] /\ pinCounter \in Nat
    /\ rpc \in [Requests -> {"new", "found", "wait"} \cup Answers]
    /\ asked \in [Requests -> Names] /\ core \in Placements
    /\ method \in Workloads
    /\ local \in [Cores -> [Names -> [Statuses -> Nat]]]
    /\ total \in [Names -> [Statuses -> Nat]]
    /\ aborted \in BOOLEAN

\* The counts the cores have not flushed yet: one pair for each of them.
Unflushed(n, s) == UNION {{c} \X (1 .. local[c][n][s]) : c \in Cores}

Answered(n, s) ==
    {q \in Requests : method[q] = "ModelInfer" /\ asked[q] = n /\ rpc[q] = s}

(***************************************************************************)
(* The counts of the registry and those the cores have not flushed yet add *)
(* up to the inferences answered that way: none is lost or counted twice   *)
(* by a flush that comes between two calls of the core or of another core. *)
(***************************************************************************)
EveryAnswerCountedOnce ==
    \A n \in Names, s \in Statuses :
        total[n][s] + Cardinality(Unflushed(n, s)) = Cardinality(Answered(n, s))

(***************************************************************************)
(* A model main reports as loaded stays in the map, warmed up, with all of *)
(* its session threads: load_model replies after it registered the model   *)
(* and spawned the threads, and loading another model takes nothing away.  *)
(***************************************************************************)
LoadedModelsAreStaffed ==
    \A m \in Models : reply[m] = "ok" =>
        /\ m \in loaded /\ warmups[m] = WarmupRuns
        /\ threads[m] = NumExecutors

(***************************************************************************)
(* Session threads are spread over the executor CPUs round-robin, over the *)
(* models too: no CPU carries two threads more than another.               *)
(***************************************************************************)
PinsBalanced ==
    \A p, r \in DOMAIN pins : pins[p] <= pins[r] + 1

(***************************************************************************)
(* Main is done with loading only when every model serves; otherwise the   *)
(* process is gone.  A server never goes on with a part of its models.     *)
(***************************************************************************)
AllModelsOrNone ==
    pending = <<>> /\ expected = <<>> /\ ~aborted => loaded = Models

(***************************************************************************)
(* A client that was told about a model can use it: once the metadata or   *)
(* the config of a model was answered, no call for it comes back not_found *)
(* on any core, whatever the manager loads and stores in the map meanwhile.*)
(***************************************************************************)
DescribedModelsAreFound ==
    [][\A q, r \in Requests :
          method[q] \in Readers /\ rpc[q] = "ok" /\ asked[r] = asked[q]
              /\ rpc[r] = "new" => rpc'[r] # "not_found"]_vars

(***************************************************************************)
(* The manager and main never wait for each other for ever: every model is *)
(* loaded, or the process ends, whatever the size of the load channel.     *)
(***************************************************************************)
LoadingEnds == <>(aborted \/ loaded = Models)

(***************************************************************************)
(* A call that found its model is answered, also when it came between the  *)
(* registration of the model and the start of its first session thread.    *)
(***************************************************************************)
FoundCallsAreAnswered ==
    \A q \in Requests : (rpc[q] = "found") ~> (aborted \/ rpc[q] \in Answers)
===============================================================================
