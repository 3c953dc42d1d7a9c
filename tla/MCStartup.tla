------------------------------ MODULE MCStartup ------------------------------
(***************************************************************************)
(* Inputs of Startup for TLC: every cpuset of some machines of up to four  *)
(* physical cores with one good repository, and every small repository     *)
(* with one machine.  The two parts of main do not depend on each other,   *)
(* so the other combinations show nothing more.                            *)
(***************************************************************************)
EXTENDS Startup

\* Core c has the CPUs c and, with SMT, c + 4.
Sibs(smt) == [cpu \in {0, 1, 2, 3} \cup {c + 4 : c \in smt} |->
                 {cpu % 4} \cup (IF cpu % 4 \in smt THEN {(cpu % 4) + 4} ELSE {})]

\* The cores up to `last` are on node 0, the others on node 1.
NodesUpTo(last, sibs) ==
    [cpu \in DOMAIN sibs |-> IF cpu % 4 <= last THEN 0 ELSE 1]

AllMachines ==
    LET Hardware == {[sibs |-> Sibs(s), node |-> NodesUpTo(n, Sibs(s))] :
                        s \in {{}, {0, 1, 3}, {0, 1, 2, 3}}, n \in {0, 1, 3}}
    IN  UNION {{[sibs |-> h.sibs, node |-> h.node, cpus |-> Ascending(set)] :
                    set \in (SUBSET DOMAIN h.sibs) \ {{}}} : h \in Hardware}

OneMachine == CHOOSE mach \in AllMachines : Len(mach.cpus) = 4

Good(config) == [config |-> config, onnx |-> TRUE]

Files    == [config : {"none", "good", "bad"}, onnx : BOOLEAN]
Versions == UNION {[V -> Files] : V \in SUBSET {1, 2}}
Dirs     == [config : {"none", "good", "bad"}, versions : Versions]

SomeDirs == {[config |-> "good", versions |-> (3 :> Good("none"))],
             [config |-> "none", versions |-> (3 :> Good("good"))],
             [config |-> "none", versions |-> (3 :> Good("none"))]}

AllRepositories ==
    {[dirs |-> [a |-> x, b |-> y], strays |-> s] :
        x \in Dirs, y \in SomeDirs, s \in {{}, {"notes"}}}

OneRepository ==
    [dirs   |-> [a |-> [config   |-> "good",
                        versions |-> (1 :> Good("none"))],
                 b |-> [config   |-> "good",
                        versions |-> (3 :> Good("none"))]],
     strays |-> {}]

AllArgs == [cpuPinning : BOOLEAN, sqpoll : BOOLEAN, processingCores : 1 .. 4,
            executorCores : {1, 2}, ortIntraThreads : {1, 3},
            source : {"none", "local", "s3"},
            loadModels : {{}, {"a"}, {"a", "c"}}]

CpuArgs == {x \in AllArgs :
               /\ x.source = "local" /\ x.loadModels = {}
               /\ x.executorCores = 1 <=> x.ortIntraThreads = 1}

CpuCase ==
    input \in [args : CpuArgs, machine : AllMachines, repo : {OneRepository}]

RepositoryArgs == {x \in AllArgs :
                      /\ ~x.cpuPinning /\ ~x.sqpoll
                      /\ x.processingCores = 1 /\ x.executorCores = 1
                      /\ x.ortIntraThreads = 1}

RepositoryCase ==
    input \in [args : RepositoryArgs, machine : {OneMachine},
               repo : AllRepositories]

EitherInit == (CpuCase \/ RepositoryCase) /\ Begin

EitherCase == EitherInit /\ [][Next]_vars

RepositoryInit == RepositoryCase /\ Begin

RepositoryOnly == RepositoryInit /\ [][Next]_vars
==============================================================================
