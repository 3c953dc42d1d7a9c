------------------------------- MODULE Startup -------------------------------
(***************************************************************************)
(* `main` up to the point where it hands the models to the manager: plan   *)
(* the SQPOLL pairs, find the models, choose the CPUs of the ORT pool, of  *)
(* the manager, of the executors' pool, and spawn one thread per           *)
(* processing core.  A panic of main ends the process.                     *)
(*                                                                         *)
(* The arguments are the options of cli.rs that matter here.               *)
(***************************************************************************)
EXTENDS CpuPlan, ModelRepository

CONSTANTS CliArgs,      \* command lines
          Machines,     \* machines with the process's cpuset
          Repositories  \* contents of the model repository

ASSUME ArgsAssumption ==
    \A args \in CliArgs :
        /\ args.cpuPinning \in BOOLEAN /\ args.sqpoll \in BOOLEAN
        /\ args.processingCores \in Nat /\ args.executorCores \in Nat
        /\ args.ortIntraThreads \in Nat

\* The siblings of a CPU are those of each of them, on one node; the cpuset
\* has CPUs that are online, each once.
ASSUME MachineAssumption ==
    \A mach \in Machines :
        LET online == DOMAIN mach.sibs IN
        /\ IsFiniteSet(online) /\ online \subseteq Nat
        /\ \A c \in online :
            /\ mach.node[c] \in Nat
            /\ mach.sibs[c] \subseteq online /\ c \in mach.sibs[c]
            /\ \A d \in mach.sibs[c] : /\ mach.sibs[d] = mach.sibs[c]
                                      /\ mach.node[d] = mach.node[c]
        /\ mach.cpus \in Seq(online)
        /\ \A i, j \in DOMAIN mach.cpus : i < j => mach.cpus[i] < mach.cpus[j]

\* The version directories of a model are numbered.
ASSUME RepositoryAssumption ==
    \A repo \in Repositories : \A name \in DOMAIN repo.dirs :
        LET versions == DOMAIN repo.dirs[name].versions
        IN  IsFiniteSet(versions) /\ versions \subseteq Nat

VARIABLES
    input,       \* the command line, the machine and the model repository
    phase,       \* how far main is
    pairs,       \* the (runtime, SQPOLL) pairs
    discovered,  \* the models found, by name
    pins,        \* [role, number, cpu] of the pinned threads
    pinIndex     \* pin_index

vars == <<input, phase, pairs, discovered, pins, pinIndex>>

Args == input.args
Cpus == input.machine.cpus

\* The CPUs for everything but the pairs.
PinPool == IF Args.sqpoll THEN Unreserved(Cpus, pairs) ELSE Cpus

\* No filter means every name there is.
Wanted ==
    IF Args.loadModels = {}
    THEN DOMAIN input.repo.dirs \cup input.repo.strays ELSE Args.loadModels

\* Nothing is planned, found or pinned yet.
Begin ==
    /\ phase = "plan"
    /\ pairs = <<>>
    /\ discovered = <<>>
    /\ pins = {}
    /\ pinIndex = 0

Init ==
    /\ input \in [args : CliArgs, machine : Machines, repo : Repositories]
    /\ Begin

Panic(where) ==
    phase' = where /\ UNCHANGED <<input, pairs, discovered, pins, pinIndex>>

\* --sqpoll-enabled needs --cpu-pinning and a pair for every core.
PlanPairs ==
    LET plan == plan_pairs(ToSet(Cpus), SmtGroups(input.machine),
                           Args.processingCores)
        placed == Args.cpuPinning /\ Len(plan) = Args.processingCores
    IN  /\ phase = "plan"
        /\ \/ /\ ~Args.sqpoll
              /\ phase' = "discover"
              /\ UNCHANGED <<input, pairs, discovered, pins, pinIndex>>
           \/ /\ Args.sqpoll /\ ~placed
              /\ Panic("panic_plan")
           \/ /\ Args.sqpoll /\ placed
              /\ pairs' = plan
              /\ phase' = "discover"
              /\ UNCHANGED <<input, discovered, pins, pinIndex>>

\* Fault: the filter is applied to an S3 repository only.
Unfiltered(models) == models

\* --load-models, applied again to what load_all returned.
Filtered(models) == [name \in DOMAIN models \cap Wanted |-> models[name]]

\* model_source and load_all.
Discover ==
    LET models == load_all(Args.source, input.repo, Wanted)
    IN  /\ phase = "discover"
        /\ \/ Args.source = "none" /\ Panic("exit")
           \/ /\ Args.source # "none" /\ LoadFails(models)
              /\ Panic("panic_discover")
           \/ /\ Args.source # "none" /\ ~LoadFails(models)
              /\ discovered' = Filtered(models)
              /\ phase' = "affinity"
              /\ UNCHANGED <<input, pairs, pins, pinIndex>>

Pin(role, number, cpu) == [role |-> role, number |-> number, cpu |-> cpu]

\* Fault: under SQPOLL the ORT pool is laid out over the whole cpuset.
OrtCpuOfSet(i) == RoundRobin(Cpus, 1 + Args.executorCores + i)

\* The CPU of thread i of ORT's intra-op pool (the affinity string counts
\* CPUs from 1).
OrtCpu(i) ==
    IF Args.sqpoll THEN RoundRobin(PinPool, 1 + Args.executorCores + i)
    ELSE RoundRobin(PinPool, 1 + Args.executorCores + Args.processingCores + i)

\* The calling thread counts as the first of the pool.
OrtAffinity ==
    LET threads == IF Args.cpuPinning THEN 0 .. Args.ortIntraThreads - 2
                                      ELSE {}
    IN  /\ phase = "affinity"
        /\ \/ threads # {} /\ PinPool = <<>> /\ Panic("panic_no_cpu")
           \/ /\ threads = {} \/ PinPool # <<>>
              /\ pins' = {Pin("ort", i, OrtCpu(i)) : i \in threads}
              /\ phase' = "manager"
              /\ UNCHANGED <<input, pairs, discovered, pinIndex>>

\* Fault: the executors start over with the manager's CPU.
PoolAtManager(i) == RoundRobin(PinPool, pinIndex + i)

\* The CPU of place i of the executors' pool; pin_index is 1 by then.
ExecutorCpu(i) == RoundRobin(PinPool, pinIndex + 1 + i)

\* One CPU for the manager, executor_cores places for the session threads.
\* pin_index moves by the executors' places even without pinning.
SpawnManager ==
    /\ phase = "manager"
    /\ \/ Args.cpuPinning /\ PinPool = <<>> /\ Panic("panic_no_cpu")
       \/ /\ Args.cpuPinning /\ PinPool # <<>>
          /\ pins' = pins \cup {Pin("manager", 0, RoundRobin(PinPool, pinIndex))}
                          \cup {Pin("executor", i, ExecutorCpu(i)) :
                                    i \in 0 .. Args.executorCores - 1}
          /\ pinIndex' = pinIndex + 1 + Args.executorCores
          /\ phase' = "processing"
          /\ UNCHANGED <<input, pairs, discovered>>
       \/ /\ ~Args.cpuPinning
          /\ pinIndex' = pinIndex + Args.executorCores
          /\ phase' = "processing"
          /\ UNCHANGED <<input, pairs, discovered, pins>>

ProcessingPins == {p \in pins : p.role = "processing"}

\* Under SQPOLL thread i gets the runtime CPU of pair i, and its kernel thread
\* the other; else the next CPU of the cpuset.
SpawnProcessing ==
    LET i == Cardinality(ProcessingPins)
    IN  /\ phase = "processing" /\ Args.cpuPinning /\ i < Args.processingCores
        /\ IF Args.sqpoll
           THEN /\ pins' = pins \cup
                     {Pin("processing", i, pairs[i + 1].runtime_vcpu),
                      Pin("sqpoll", i, pairs[i + 1].sqpoll_vcpu)}
                /\ UNCHANGED pinIndex
           ELSE /\ pins' = pins \cup
                     {Pin("processing", i, RoundRobin(Cpus, pinIndex))}
                /\ pinIndex' = pinIndex + 1
        /\ UNCHANGED <<input, phase, pairs, discovered>>

\* All threads run; from here on the process is ModelServer's subject.
StartLoading ==
    /\ phase = "processing"
    /\ Args.cpuPinning =>
           Cardinality(ProcessingPins) = Args.processingCores
    /\ phase' = "loading"
    /\ UNCHANGED <<input, pairs, discovered, pins, pinIndex>>

Next == \/ PlanPairs \/ Discover \/ OrtAffinity \/ SpawnManager
        \/ SpawnProcessing \/ StartLoading

Spec == Init /\ [][Next]_vars

-------------------------------------------------------------------------------
(***************************************************************************)
(* Properties.                                                             *)
(***************************************************************************)

\* Every variable holds a value of its type.
TypeOK ==
    /\ phase \in {"plan", "discover", "affinity", "manager", "processing",
                  "loading", "exit", "panic_plan", "panic_discover",
                  "panic_no_cpu"}
    /\ pairs \in Seq([runtime_vcpu : ToSet(Cpus), sqpoll_vcpu : ToSet(Cpus),
                      numa_node : Nat])
    /\ \A name \in DOMAIN discovered :
        discovered[name] \in [version : Nat, config : {"root", "version"}]
    /\ pins \subseteq [role : {"ort", "manager", "executor", "processing",
                               "sqpoll"},
                       number : Nat, cpu : ToSet(Cpus)]
    /\ pinIndex \in Nat

CoreOf(cpu) == input.machine.sibs[cpu]

(***************************************************************************)
(* "Runtime <-> sqpoll never share a physical core (no SMT contention      *)
(* between userspace and kthread)" and the pairs are "grouped within each  *)
(* NUMA node" (plan_pairs): no physical core carries both roles, of one    *)
(* pair or of two, and both CPUs of a pair are on its node.                *)
(***************************************************************************)
PairsKeepApart ==
    /\ \A i, j \in DOMAIN pairs :
        CoreOf(pairs[i].runtime_vcpu) # CoreOf(pairs[j].sqpoll_vcpu)
    /\ \A i \in DOMAIN pairs :
        {input.machine.node[pairs[i].runtime_vcpu],
         input.machine.node[pairs[i].sqpoll_vcpu]} = {pairs[i].numa_node}

(***************************************************************************)
(* "Each runtime gets its own SQPOLL kernel thread pinned to a dedicated   *)
(* vCPU" (cli.rs): no other thread of the server, of ORT's pool included,  *)
(* is pinned to the CPU of a runtime or of its kernel thread.              *)
(***************************************************************************)
SqpollCpusAreDedicated ==
    Args.sqpoll =>
        \A p, q \in pins :
            p.role \in {"processing", "sqpoll"} /\ p # q => p.cpu # q.cpu

CpuLoad(cpu) == Cardinality({p \in pins : p.cpu = cpu})

(***************************************************************************)
(* Without SQPOLL the threads are laid out over the cpuset one after the   *)
(* other, ORT's after the processing cores' although their CPUs are chosen *)
(* first: no CPU is used twice before every other one is used.             *)
(***************************************************************************)
CpusUsedEvenly ==
    phase = "loading" /\ ~Args.sqpoll =>
        \A c, d \in ToSet(Cpus) : CpuLoad(c) <= CpuLoad(d) + 1

\* The whole physical cores in the cpuset.
WholeCores == {core \in {CoreOf(c) : c \in DOMAIN input.machine.sibs} :
                  core \subseteq ToSet(Cpus)}

(***************************************************************************)
(* Pair planning gives up only when there are too few pairs: every two     *)
(* whole cores of a node give a pair per SMT sibling.                      *)
(***************************************************************************)
PlanFailsOnlyWhenShort ==
    LET coresOf(n) == {core \in WholeCores : input.machine.node[Min(core)] = n}
        nodes  == {input.machine.node[c] : c \in DOMAIN input.machine.sibs}
        chunks == MapThenSumSet(LAMBDA n : Cardinality(coresOf(n)) \div 2, nodes)
    IN  phase = "panic_plan" /\ Args.cpuPinning =>
            \A width \in 1 .. Cardinality(DOMAIN input.machine.sibs) :
                (\A core \in WholeCores : Cardinality(core) >= width)
                    => width * chunks < Args.processingCores

(***************************************************************************)
(* What main goes on with is what was asked for: the models named with     *)
(* --load-models that are in the repository ("If omitted, all discovered   *)
(* models are loaded"), each in its newest version, whatever the source.   *)
(***************************************************************************)
NewestOfTheWanted ==
    phase \in {"affinity", "manager", "processing", "loading"} =>
        /\ DOMAIN discovered = DOMAIN input.repo.dirs \cap Wanted
        /\ \A name \in DOMAIN discovered :
            LET versions == DOMAIN input.repo.dirs[name].versions
            IN  /\ discovered[name].version \in versions
                /\ \A v \in versions : v <= discovered[name].version

\* Every version directory has a model.onnx with a config.yaml next to it.
DocumentedLayout ==
    /\ input.repo.strays = {}
    /\ \A name \in DOMAIN input.repo.dirs :
        LET versions == input.repo.dirs[name].versions
        IN  /\ DOMAIN versions # {}
            /\ \A v \in DOMAIN versions :
                versions[v].config = "good" /\ versions[v].onnx

(***************************************************************************)
(* "configuration lives in a `config.yaml` file inside each version        *)
(* directory" and "Both local directories and S3-compatible object storage *)
(* are supported" (README): a repository laid out like that is loaded.     *)
(***************************************************************************)
DocumentedLayoutLoads == DocumentedLayout => phase # "panic_discover"
==============================================================================
