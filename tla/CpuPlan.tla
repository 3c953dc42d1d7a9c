------------------------------- MODULE CpuPlan -------------------------------
(***************************************************************************)
(* Which CPU each thread is pinned to: the SMT groups read from /sys and   *)
(* the plan of (runtime, SQPOLL) pairs (topology.rs), and the round robin  *)
(* over the cpuset (main.rs).                                              *)
(*                                                                         *)
(* A machine is [sibs, node, cpus]: the online SMT siblings and the NUMA   *)
(* node of each CPU, and the CPUs of the process's cpuset in ascending     *)
(* order, as core_affinity::get_core_ids lists them.                       *)
(***************************************************************************)
EXTENDS Integers, Sequences, FiniteSets, SequencesExt, FiniteSetsExt

\* The numbers of a set in ascending order.
Ascending(S) ==
    [i \in 1 .. Cardinality(S) |->
        CHOOSE x \in S : Cardinality({y \in S : y < x}) = i - 1]

\* The elements of a sequence at some of its positions, in order.
Picked(s, positions) ==
    LET order == Ascending(positions) IN [i \in DOMAIN order |-> s[order[i]]]

\* One group per physical core, by lowest sibling; siblings in order.
SmtGroups(machine) ==
    LET keys == Ascending({Min(machine.sibs[c]) : c \in DOMAIN machine.sibs})
    IN  [i \in DOMAIN keys |-> [vcpus |-> Ascending(machine.sibs[keys[i]]),
                               node  |-> machine.node[keys[i]]]]

\* Fault: one sibling in the cpuset is enough.
PartlyUsable(groups, allowed) ==
    Picked(groups, {i \in DOMAIN groups :
                        ToSet(groups[i].vcpus) \cap allowed # {}})

\* The physical cores that are entirely in the cpuset.
Usable(groups, allowed) ==
    Picked(groups, {i \in DOMAIN groups :
                        ToSet(groups[i].vcpus) \subseteq allowed})

\* Fault: a core contributes its first CPU only.
FirstSiblings(rt, sq) == <<[runtime_vcpu |-> rt.vcpus[1],
                            sqpoll_vcpu  |-> sq.vcpus[1],
                            numa_node    |-> rt.node]>>

\* Two cores of a node: sibling i of the first runs, sibling i of the second
\* polls.
ChunkPairs(rt, sq) ==
    LET width == Min({Len(rt.vcpus), Len(sq.vcpus)})
    IN  [i \in 1 .. width |-> [runtime_vcpu |-> rt.vcpus[i],
                               sqpoll_vcpu  |-> sq.vcpus[i],
                               numa_node    |-> rt.node]]

\* Fault: the chunks overlap by a core.
OverlappingPairs(groups) ==
    FlattenSeq([i \in 1 .. Len(groups) - 1 |->
                    ChunkPairs(groups[i], groups[i + 1])])

\* All pairs of one node; an odd core is left over.
NodePairs(groups) ==
    FlattenSeq([i \in 1 .. Len(groups) \div 2 |->
                    ChunkPairs(groups[2 * i - 1], groups[2 * i])])

\* Fault: the chunks are cut regardless of the nodes.
PairsAcrossNodes(usable) == NodePairs(usable)

OnNode(usable, node) ==
    Picked(usable, {i \in DOMAIN usable : usable[i].node = node})

\* All pairs, node by node.
AllPairs(usable) ==
    LET nodes == Ascending({usable[i].node : i \in DOMAIN usable})
    IN  FlattenSeq([n \in DOMAIN nodes |-> NodePairs(OnNode(usable, nodes[n]))])

\* The first `wanted` pairs; fewer are an error ("could not place").
plan_pairs(allowed, groups, wanted) ==
    LET pairs == AllPairs(Usable(groups, allowed))
    IN  SubSeq(pairs, 1, Min({wanted, Len(pairs)}))

Reserved(pairs) == {pairs[i].runtime_vcpu : i \in DOMAIN pairs}
                       \cup {pairs[i].sqpoll_vcpu : i \in DOMAIN pairs}

\* The cpuset without the CPUs of the pairs.
Unreserved(cpus, pairs) ==
    Picked(cpus, {i \in DOMAIN cpus : cpus[i] \notin Reserved(pairs)})

\* cpus[index % cpus.len()]
RoundRobin(cpus, index) == cpus[(index % Len(cpus)) + 1]
==============================================================================
