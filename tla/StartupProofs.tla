---------------------------- MODULE StartupProofs ----------------------------
(***************************************************************************)
(* Theorems about the start of the server, for every machine, cpuset,      *)
(* command line and model repository: what plan_pairs computes, which CPU  *)
(* each thread is pinned to, and which models main goes on with.           *)
(***************************************************************************)
EXTENDS Startup, DataLemmas

-------------------------------------------------------------------------------
(***************************************************************************)
(* Sets of numbers in order, and picking from a sequence.                  *)
(***************************************************************************)

\* Ascending lists a set of numbers, each once and in order.
LEMMA AscendingOrder ==
    ASSUME NEW S, IsFiniteSet(S), S \subseteq Int
    PROVE  /\ Cardinality(S) \in Nat
           /\ Ascending(S) \in [1 .. Cardinality(S) -> S]
           /\ \A i, j \in 1 .. Cardinality(S) :
                i < j => Ascending(S)[i] < Ascending(S)[j]
           /\ \A x \in S : \E i \in 1 .. Cardinality(S) : Ascending(S)[i] = x
<1> DEFINE n == Cardinality(S)
           a == Ascending(S)
<1>1. n \in Nat
  BY FS_CardinalityType
<1>2. ASSUME NEW i \in 1 .. n
      PROVE  a[i] \in S /\ Cardinality(Below(S, a[i])) = i - 1
  <2>1. a[i] = CHOOSE x \in S : Cardinality(Below(S, x)) = i - 1
    BY DEF Ascending, Below
  <2>2. \E x \in S : Cardinality(Below(S, x)) = i - 1
    BY EachPlaceTaken
  <2> QED  BY <2>1, <2>2
<1>3. a \in [1 .. n -> S]
  BY <1>2 DEF Ascending
<1> HIDE DEF a
<1>4. ASSUME NEW i \in 1 .. n, NEW j \in 1 .. n, i < j PROVE a[i] < a[j]
  <2>1. a[i] \in S /\ a[j] \in S /\ a[i] \in Int /\ a[j] \in Int
    BY <1>2
  <2>2. a[j] < a[i] => Cardinality(Below(S, a[j])) < Cardinality(Below(S, a[i]))
    BY <2>1, BelowGrows
  <2>3. ~(j - 1 < i - 1) /\ j - 1 # i - 1
    BY <1>1, <1>4
  <2> QED  BY <1>2, <2>1, <2>2, <2>3
<1>5. ASSUME NEW x \in S PROVE \E i \in 1 .. n : a[i] = x
  <2> DEFINE i == Cardinality(Below(S, x)) + 1
  <2>1. Cardinality(Below(S, x)) \in Nat /\ Cardinality(Below(S, x)) < n
    BY BelowGrows
  <2>2. i \in 1 .. n /\ i - 1 = Cardinality(Below(S, x))
    BY <1>1, <2>1
  <2>3. a[i] \in S /\ Cardinality(Below(S, a[i])) = Cardinality(Below(S, x))
    BY <1>2, <2>2
  <2>4. ~(a[i] < x) /\ ~(x < a[i])
    <3>1. /\ a[i] < x => Cardinality(Below(S, a[i])) < Cardinality(Below(S, x))
          /\ x < a[i] => Cardinality(Below(S, x)) < Cardinality(Below(S, a[i]))
      BY <2>3, BelowGrows
    <3> QED  BY <2>1, <2>3, <3>1
  <2>5. a[i] \in Int /\ x \in Int
    BY <2>3
  <2>6. a[i] = x
    BY <2>4, <2>5
  <2> QED  BY <2>2, <2>6
<1> QED  BY <1>1, <1>3, <1>4, <1>5 DEF a

\* No number is listed twice.
LEMMA AscendingOnce ==
    ASSUME NEW S, IsFiniteSet(S), S \subseteq Int,
           NEW i \in 1 .. Cardinality(S), NEW j \in 1 .. Cardinality(S),
           Ascending(S)[i] = Ascending(S)[j]
    PROVE  i = j
<1>1. Cardinality(S) \in Nat /\ Ascending(S)[i] \in Int /\ Ascending(S)[j] \in Int
  BY AscendingOrder
<1>2. ~(i < j) /\ ~(j < i)
  <2>1. /\ i < j => Ascending(S)[i] < Ascending(S)[j]
        /\ j < i => Ascending(S)[j] < Ascending(S)[i]
    BY AscendingOrder
  <2> QED  BY <1>1, <2>1
<1> QED  BY <1>1, <1>2

\* Picked takes the elements at the positions, each once.
LEMMA PickedElements ==
    ASSUME NEW T, NEW s \in Seq(T), NEW P, P \subseteq DOMAIN s
    PROVE  /\ IsFiniteSet(P) /\ Cardinality(P) \in Nat
           /\ Picked(s, P) \in Seq(T)
           /\ Len(Picked(s, P)) = Cardinality(P)
           /\ DOMAIN Picked(s, P) = 1 .. Cardinality(P)
           /\ \A i \in 1 .. Cardinality(P) :
                /\ Ascending(P)[i] \in P
                /\ Picked(s, P)[i] = s[Ascending(P)[i]]
           /\ \A i, j \in 1 .. Cardinality(P) :
                Ascending(P)[i] = Ascending(P)[j] => i = j
           /\ \A x \in P : \E i \in 1 .. Cardinality(P) : Ascending(P)[i] = x
<1>1. DOMAIN s = 1 .. Len(s) /\ Len(s) \in Nat
  OBVIOUS
<1>2. IsFiniteSet(P) /\ P \subseteq Int
  <2>1. IsFiniteSet(1 .. Len(s))
    BY <1>1, FS_Interval
  <2> QED  BY <1>1, <2>1, FS_Subset
<1>3. /\ Cardinality(P) \in Nat
      /\ Ascending(P) \in [1 .. Cardinality(P) -> P]
      /\ \A x \in P : \E i \in 1 .. Cardinality(P) : Ascending(P)[i] = x
  BY <1>2, AscendingOrder
<1>4. \A i, j \in 1 .. Cardinality(P) :
          Ascending(P)[i] = Ascending(P)[j] => i = j
  BY <1>2, AscendingOnce
<1>5. Picked(s, P) = [i \in 1 .. Cardinality(P) |-> s[Ascending(P)[i]]]
  BY <1>3 DEF Picked
<1>6. \A i \in 1 .. Cardinality(P) : Ascending(P)[i] \in P /\ s[Ascending(P)[i]] \in T
  BY <1>1, <1>3
<1>7. Picked(s, P) \in [1 .. Cardinality(P) -> T]
  BY <1>5, <1>6
<1>8. Picked(s, P) \in Seq(T) /\ Len(Picked(s, P)) = Cardinality(P)
  BY <1>3, <1>7
<1> QED  BY <1>2, <1>3, <1>4, <1>5, <1>6, <1>8

-------------------------------------------------------------------------------
(***************************************************************************)
(* The physical cores of a machine, as lists of sibling CPUs.              *)
(***************************************************************************)
GroupType == [vcpus : Seq(Nat), node : Nat]

\* Each group lists CPUs of one core, each once, with the node they are on; no
\* core is in two groups.
CoresApart(m, groups) ==
    /\ groups \in Seq(GroupType)
    /\ \A a \in DOMAIN groups :
        /\ \A e \in DOMAIN groups[a].vcpus :
            /\ groups[a].vcpus[e] \in DOMAIN m.sibs
            /\ m.node[groups[a].vcpus[e]] = groups[a].node
        /\ \A e, f \in DOMAIN groups[a].vcpus :
            /\ m.sibs[groups[a].vcpus[e]] = m.sibs[groups[a].vcpus[f]]
            /\ groups[a].vcpus[e] = groups[a].vcpus[f] => e = f
    /\ \A a, b \in DOMAIN groups :
        \A e \in DOMAIN groups[a].vcpus, f \in DOMAIN groups[b].vcpus :
            m.sibs[groups[a].vcpus[e]] = m.sibs[groups[b].vcpus[f]] => a = b

LEMMA MinInSet ==
    ASSUME NEW S, S \subseteq Nat, S # {}
    PROVE  Min(S) \in S /\ \A x \in S : Min(S) <= x
<1>1. \E x \in S : \A y \in S : x <= y
  BY LeastNumber
<1> QED  BY <1>1 DEF Min

\* The groups of a machine are its cores, all of them.
LEMMA GroupsApart ==
    ASSUME NEW m \in Machines
    PROVE  /\ CoresApart(m, SmtGroups(m))
           /\ \A a \in DOMAIN SmtGroups(m) : \E c \in DOMAIN m.sibs :
                ToSet(SmtGroups(m)[a].vcpus) = m.sibs[c]
           /\ \A c \in DOMAIN m.sibs : \E a \in DOMAIN SmtGroups(m) :
                ToSet(SmtGroups(m)[a].vcpus) = m.sibs[c]
           /\ \A a \in DOMAIN SmtGroups(m) :
                Len(SmtGroups(m)[a].vcpus)
                    = Cardinality(ToSet(SmtGroups(m)[a].vcpus))
<1> DEFINE online == DOMAIN m.sibs
           lowest == {Min(m.sibs[c]) : c \in online}
           keys == Ascending(lowest)
           n == Cardinality(lowest)
           groups == SmtGroups(m)
<1>1. /\ IsFiniteSet(online) /\ online \subseteq Nat
      /\ \A c \in online :
            /\ m.node[c] \in Nat
            /\ m.sibs[c] \subseteq online /\ c \in m.sibs[c]
            /\ \A d \in m.sibs[c] : /\ m.sibs[d] = m.sibs[c]
                                   /\ m.node[d] = m.node[c]
  BY MachineAssumption
<1>2. \A c \in online : Min(m.sibs[c]) \in m.sibs[c]
  <2> TAKE c \in online
  <2>1. m.sibs[c] \subseteq Nat /\ m.sibs[c] # {}
    BY <1>1
  <2> QED  BY <2>1, MinInSet
<1>3. lowest \subseteq online
  BY <1>1, <1>2
<1>4. IsFiniteSet(lowest) /\ lowest \subseteq Int
  BY <1>1, <1>3, FS_Subset
<1>5. /\ n \in Nat /\ keys \in [1 .. n -> lowest]
      /\ \A x \in lowest : \E i \in 1 .. n : keys[i] = x
      /\ \A i, j \in 1 .. n : keys[i] = keys[j] => i = j
  <2> HIDE DEF lowest
  <2> QED  BY <1>4, AscendingOrder, AscendingOnce
<1>6. groups = [i \in 1 .. n |-> [vcpus |-> Ascending(m.sibs[keys[i]]),
                                  node  |-> m.node[keys[i]]]]
  BY <1>5 DEF SmtGroups
<1> HIDE DEF keys, n
<1>7. ASSUME NEW i \in 1 .. n
      PROVE  /\ keys[i] \in online /\ keys[i] = Min(m.sibs[keys[i]])
             /\ \E c \in online : keys[i] = Min(m.sibs[c])
  <2>1. PICK c \in online : keys[i] = Min(m.sibs[c])
    BY <1>5
  <2>2. keys[i] \in m.sibs[c]
    BY <1>2, <2>1
  <2>3. keys[i] \in online /\ m.sibs[keys[i]] = m.sibs[c]
    BY <1>1, <2>2
  <2> QED  BY <2>1, <2>3
<1>8. ASSUME NEW i \in 1 .. n
      PROVE  /\ groups[i] \in GroupType
             /\ groups[i].node = m.node[keys[i]]
             /\ Len(groups[i].vcpus) = Cardinality(m.sibs[keys[i]])
             /\ DOMAIN groups[i].vcpus = 1 .. Cardinality(m.sibs[keys[i]])
             /\ \A e \in DOMAIN groups[i].vcpus :
                    groups[i].vcpus[e] \in m.sibs[keys[i]]
             /\ \A e, f \in DOMAIN groups[i].vcpus :
                    groups[i].vcpus[e] = groups[i].vcpus[f] => e = f
             /\ \A x \in m.sibs[keys[i]] : \E e \in DOMAIN groups[i].vcpus :
                    groups[i].vcpus[e] = x
  <2> DEFINE S == m.sibs[keys[i]]
             k == Cardinality(S)
  <2>1. S \subseteq online /\ keys[i] \in online
    BY <1>1, <1>7
  <2>2. IsFiniteSet(S) /\ S \subseteq Int /\ S \subseteq Nat
    BY <1>1, <2>1, FS_Subset
  <2> HIDE DEF S
  <2>3. /\ k \in Nat /\ Ascending(S) \in [1 .. k -> S]
        /\ \A x \in S : \E e \in 1 .. k : Ascending(S)[e] = x
        /\ \A e, f \in 1 .. k : Ascending(S)[e] = Ascending(S)[f] => e = f
    BY <2>2, AscendingOrder, AscendingOnce
  <2>4. groups[i].vcpus = Ascending(S) /\ groups[i].node = m.node[keys[i]]
    BY <1>6 DEF S
  <2>5. Ascending(S) \in Seq(Nat) /\ Len(Ascending(S)) = k
        /\ DOMAIN Ascending(S) = 1 .. k
    <3> HIDE DEF k
    <3>1. PICK f : f = Ascending(S)
      OBVIOUS
    <3>2. f \in [1 .. k -> Nat]
      BY <2>2, <2>3, <3>1
    <3>3. f \in Seq(Nat) /\ Len(f) = k /\ DOMAIN f = 1 .. k
      BY <2>3, <3>2
    <3> QED  BY <3>1, <3>3
  <2>6. groups[i] = [vcpus |-> Ascending(S), node |-> m.node[keys[i]]]
    BY <1>6 DEF S
  <2>7. groups[i] \in GroupType
    BY <1>1, <2>1, <2>5, <2>6 DEF GroupType
  <2> QED  BY <2>3, <2>4, <2>5, <2>7 DEF S
<1>9. DOMAIN groups = 1 .. n /\ groups \in Seq(GroupType)
  <2>1. \A i \in 1 .. n : groups[i] \in GroupType
    BY <1>8, Zenon
  <2>2. DOMAIN groups = 1 .. n /\ groups = [i \in 1 .. n |-> groups[i]]
    BY <1>6, Zenon
  <2>3. n \in Nat
    BY <1>5, Zenon
  <2> HIDE DEF groups
  <2>4. PICK g : g = groups
    OBVIOUS
  <2>5. g \in [1 .. n -> GroupType]
    BY <2>1, <2>2, <2>4, Zenon
  <2>6. g \in Seq(GroupType)
    BY <2>3, <2>5
  <2> QED  BY <2>2, <2>4, <2>6, Zenon
<1> HIDE DEF groups
<1>10. ASSUME NEW i \in 1 .. n, NEW e \in DOMAIN groups[i].vcpus
       PROVE  /\ groups[i].vcpus[e] \in online
              /\ m.sibs[groups[i].vcpus[e]] = m.sibs[keys[i]]
              /\ m.node[groups[i].vcpus[e]] = groups[i].node
  BY <1>1, <1>7, <1>8
<1>11. ASSUME NEW a \in 1 .. n, NEW b \in 1 .. n,
              m.sibs[keys[a]] = m.sibs[keys[b]]
       PROVE  a = b
  BY <1>5, <1>7, <1>11
<1>12. CoresApart(m, groups)
  <2>1. \A a \in DOMAIN groups :
            /\ \A e \in DOMAIN groups[a].vcpus :
                /\ groups[a].vcpus[e] \in DOMAIN m.sibs
                /\ m.node[groups[a].vcpus[e]] = groups[a].node
            /\ \A e, f \in DOMAIN groups[a].vcpus :
                /\ m.sibs[groups[a].vcpus[e]] = m.sibs[groups[a].vcpus[f]]
                /\ groups[a].vcpus[e] = groups[a].vcpus[f] => e = f
    BY <1>8, <1>9, <1>10
  <2>2. \A a, b \in DOMAIN groups :
            \A e \in DOMAIN groups[a].vcpus, f \in DOMAIN groups[b].vcpus :
                m.sibs[groups[a].vcpus[e]] = m.sibs[groups[b].vcpus[f]] => a = b
    BY <1>9, <1>10, <1>11
  <2> QED  BY <1>9, <2>1, <2>2 DEF CoresApart
<1>13. ASSUME NEW a \in 1 .. n
       PROVE  ToSet(groups[a].vcpus) = m.sibs[keys[a]]
  BY <1>8 DEF ToSet
<1>14. ASSUME NEW c \in online
       PROVE  \E a \in 1 .. n : m.sibs[keys[a]] = m.sibs[c]
  <2>1. PICK a \in 1 .. n : keys[a] = Min(m.sibs[c])
    BY <1>5
  <2>2. keys[a] \in m.sibs[c]
    BY <1>2, <2>1
  <2> QED  BY <1>1, <2>2
<1> QED
  <2>1. \A a \in DOMAIN groups : \E c \in DOMAIN m.sibs :
            ToSet(groups[a].vcpus) = m.sibs[c]
    BY <1>7, <1>9, <1>13
  <2>2. \A c \in DOMAIN m.sibs : \E a \in DOMAIN groups :
            ToSet(groups[a].vcpus) = m.sibs[c]
    BY <1>9, <1>13, <1>14
  <2>3. \A a \in DOMAIN groups :
            Len(groups[a].vcpus) = Cardinality(ToSet(groups[a].vcpus))
    BY <1>8, <1>9, <1>13
  <2> QED  BY <1>12, <2>1, <2>2, <2>3 DEF groups

\* Cores picked from a list of cores.
LEMMA PickedApart ==
    ASSUME NEW m, NEW groups, CoresApart(m, groups),
           NEW P, P \subseteq DOMAIN groups
    PROVE  CoresApart(m, Picked(groups, P))
<1>1. groups \in Seq(GroupType)
  BY DEF CoresApart
<1> DEFINE some == Picked(groups, P)
           at == Ascending(P)
<1>2. /\ some \in Seq(GroupType)
      /\ \A i \in DOMAIN some : at[i] \in DOMAIN groups /\ some[i] = groups[at[i]]
      /\ \A i, j \in DOMAIN some : at[i] = at[j] => i = j
  <2>1. /\ some \in Seq(GroupType) /\ DOMAIN some = 1 .. Cardinality(P)
        /\ \A i \in 1 .. Cardinality(P) : at[i] \in P /\ some[i] = groups[at[i]]
        /\ \A i, j \in 1 .. Cardinality(P) : at[i] = at[j] => i = j
    <3>1. P \subseteq DOMAIN groups
      OBVIOUS
    <3> QED  BY <1>1, <3>1, PickedElements
  <2> HIDE DEF some, at
  <2> QED  BY <2>1
<1> HIDE DEF some, at
<1>3. \A a \in DOMAIN some :
        /\ \A e \in DOMAIN some[a].vcpus :
            /\ some[a].vcpus[e] \in DOMAIN m.sibs
            /\ m.node[some[a].vcpus[e]] = some[a].node
        /\ \A e, f \in DOMAIN some[a].vcpus :
            /\ m.sibs[some[a].vcpus[e]] = m.sibs[some[a].vcpus[f]]
            /\ some[a].vcpus[e] = some[a].vcpus[f] => e = f
  BY <1>2 DEF CoresApart
<1>4. ASSUME NEW a \in DOMAIN some, NEW b \in DOMAIN some,
             NEW e \in DOMAIN some[a].vcpus, NEW f \in DOMAIN some[b].vcpus,
             m.sibs[some[a].vcpus[e]] = m.sibs[some[b].vcpus[f]]
      PROVE  a = b
  <2>1. at[a] = at[b]
    BY <1>2, <1>4 DEF CoresApart
  <2> QED  BY <1>2, <2>1
<1> QED  BY <1>2, <1>3, <1>4 DEF CoresApart, some

\* The CPUs of the groups that plan_pairs uses are in the cpuset.
LEMMA UsableApart ==
    ASSUME NEW m \in Machines, NEW allowed
    PROVE  /\ CoresApart(m, Usable(SmtGroups(m), allowed))
           /\ \A a \in DOMAIN Usable(SmtGroups(m), allowed) :
                ToSet(Usable(SmtGroups(m), allowed)[a].vcpus) \subseteq allowed
<1> DEFINE groups == SmtGroups(m)
           P == {i \in DOMAIN groups : ToSet(groups[i].vcpus) \subseteq allowed}
<1>1. CoresApart(m, groups)
  BY GroupsApart
<1>2. Usable(groups, allowed) = Picked(groups, P)
  BY DEF Usable
<1>3. P \subseteq DOMAIN groups
  OBVIOUS
<1>4. \A i \in P : ToSet(groups[i].vcpus) \subseteq allowed
  OBVIOUS
<1> HIDE DEF groups, P
<1>5. CoresApart(m, Picked(groups, P))
  BY <1>1, <1>3, PickedApart
<1>6. groups \in Seq(GroupType)
  BY <1>1 DEF CoresApart
<1>7. \A i \in DOMAIN Picked(groups, P) : \E j \in P :
            Picked(groups, P)[i] = groups[j]
  <2>1. /\ DOMAIN Picked(groups, P) = 1 .. Cardinality(P)
        /\ \A i \in 1 .. Cardinality(P) :
            /\ Ascending(P)[i] \in P
            /\ Picked(groups, P)[i] = groups[Ascending(P)[i]]
    BY <1>3, <1>6, PickedElements
  <2> QED  BY <2>1
<1>8. \A i \in DOMAIN Picked(groups, P) :
            ToSet(Picked(groups, P)[i].vcpus) \subseteq allowed
  BY <1>4, <1>7
<1> QED  BY <1>2, <1>5, <1>8 DEF groups

-------------------------------------------------------------------------------
(***************************************************************************)
(* The pairs, chunk by chunk and node by node.                             *)
(***************************************************************************)
PairType == [runtime_vcpu : Nat, sqpoll_vcpu : Nat, numa_node : Nat]

LEMMA ChunkElements ==
    ASSUME NEW rt \in GroupType, NEW sq \in GroupType
    PROVE  /\ ChunkPairs(rt, sq) \in Seq(PairType)
           /\ \/ Len(ChunkPairs(rt, sq)) = Len(rt.vcpus)
              \/ Len(ChunkPairs(rt, sq)) = Len(sq.vcpus)
           /\ \A e \in 1 .. Len(ChunkPairs(rt, sq)) :
                /\ e \in DOMAIN rt.vcpus /\ e \in DOMAIN sq.vcpus
                /\ ChunkPairs(rt, sq)[e] = [runtime_vcpu |-> rt.vcpus[e],
                                            sqpoll_vcpu  |-> sq.vcpus[e],
                                            numa_node    |-> rt.node]
<1>1. /\ rt.vcpus \in Seq(Nat) /\ sq.vcpus \in Seq(Nat) /\ rt.node \in Nat
  BY DEF GroupType
<1>2. PICK r \in Nat, q \in Nat : /\ r = Len(rt.vcpus) /\ q = Len(sq.vcpus)
                                  /\ DOMAIN rt.vcpus = 1 .. r
                                  /\ DOMAIN sq.vcpus = 1 .. q
  BY <1>1
<1>3. Min({r, q}) \in {r, q} /\ Min({r, q}) <= r /\ Min({r, q}) <= q
  BY MinInSet
<1> DEFINE w == Min({r, q})
           chunk == ChunkPairs(rt, sq)
<1>4. chunk = [e \in 1 .. w |-> [runtime_vcpu |-> rt.vcpus[e],
                                 sqpoll_vcpu  |-> sq.vcpus[e],
                                 numa_node    |-> rt.node]]
  BY <1>2 DEF ChunkPairs
<1> HIDE DEF w, chunk
<1>5. w \in Nat /\ w <= r /\ w <= q
  BY <1>3 DEF w
<1>6. \A e \in 1 .. w : e \in DOMAIN rt.vcpus /\ e \in DOMAIN sq.vcpus
  BY <1>2, <1>5
<1>7. chunk \in [1 .. w -> PairType]
  BY <1>1, <1>4, <1>6, SMTT(30) DEF PairType
<1>8. chunk \in Seq(PairType) /\ Len(chunk) = w
  BY <1>5, <1>7
<1>9. w = Len(rt.vcpus) \/ w = Len(sq.vcpus)
  BY <1>2, <1>3 DEF w
<1> QED  BY <1>4, <1>6, <1>8, <1>9 DEF chunk

\* The chunks of a node.
Chunks(groups) == [i \in 1 .. Len(groups) \div 2 |->
                      ChunkPairs(groups[2 * i - 1], groups[2 * i])]

LEMMA FlattenJoined ==
    ASSUME NEW ss
    PROVE  FlattenSeq(ss) = Joined(ss)
BY DEF FlattenSeq, Joined, EndToEnd

LEMMA NodePairsJoined ==
    ASSUME NEW groups \in Seq(GroupType)
    PROVE  /\ Chunks(groups) \in Seq(Seq(PairType))
           /\ Len(Chunks(groups)) = Len(groups) \div 2
           /\ \A i \in 1 .. Len(groups) \div 2 :
                /\ 2 * i - 1 \in DOMAIN groups /\ 2 * i \in DOMAIN groups
                /\ Chunks(groups)[i]
                        = ChunkPairs(groups[2 * i - 1], groups[2 * i])
           /\ NodePairs(groups) = Joined(Chunks(groups))
           /\ NodePairs(groups) \in Seq(PairType)
<1> DEFINE half == Len(groups) \div 2
           cs == Chunks(groups)
<1>1. PICK n \in Nat : n = Len(groups) /\ DOMAIN groups = 1 .. n
  OBVIOUS
<1>2. half \in Nat /\ \A i \in 1 .. half : 2 * i - 1 \in 1 .. n /\ 2 * i \in 1 .. n
  <2>1. n \div 2 \in Nat /\ \A i \in 1 .. n \div 2 : 2 * i - 1 \in 1 .. n /\ 2 * i \in 1 .. n
    OBVIOUS
  <2> QED  BY <1>1, <2>1
<1>3. \A i \in 1 .. half : cs[i] = ChunkPairs(groups[2 * i - 1], groups[2 * i])
  BY DEF Chunks
<1>4. \A i \in 1 .. half : cs[i] \in Seq(PairType)
  <2> TAKE i \in 1 .. half
  <2>1. groups[2 * i - 1] \in GroupType /\ groups[2 * i] \in GroupType
    BY <1>1, <1>2
  <2> QED  BY <1>3, <2>1, ChunkElements
<1>5. cs \in Seq(Seq(PairType)) /\ Len(cs) = half
  <2>1. cs \in [1 .. half -> Seq(PairType)]
    BY <1>4 DEF Chunks
  <2> HIDE DEF cs, half
  <2> QED  BY <1>2, <2>1
<1>6. NodePairs(groups) = Joined(cs)
  BY FlattenJoined DEF NodePairs, Chunks
<1>7. Joined(cs) \in Seq(PairType)
  <2> HIDE DEF cs
  <2> QED  BY <1>5, JoinedElements
<1> QED  BY <1>1, <1>2, <1>3, <1>5, <1>6, <1>7

\* The groups of node number n, and the pairs of each node.
NodesOf(us)   == {us[i].node : i \in DOMAIN us}
OnNth(us, n)  == OnNode(us, Ascending(NodesOf(us))[n])
ByNode(us)    == [n \in 1 .. Cardinality(NodesOf(us)) |-> NodePairs(OnNth(us, n))]

LEMMA OnNthElements ==
    ASSUME NEW us \in Seq(GroupType)
    PROVE  /\ Cardinality(NodesOf(us)) \in Nat
           /\ \A x \in NodesOf(us) : \E n \in 1 .. Cardinality(NodesOf(us)) :
                Ascending(NodesOf(us))[n] = x
           /\ \A n \in 1 .. Cardinality(NodesOf(us)) :
                LET P == {i \in DOMAIN us : us[i].node = Ascending(NodesOf(us))[n]}
                IN  /\ Ascending(NodesOf(us))[n] \in NodesOf(us)
                    /\ OnNth(us, n) \in Seq(GroupType)
                    /\ IsFiniteSet(P)
                    /\ Len(OnNth(us, n)) = Cardinality(P)
                    /\ \A i \in DOMAIN OnNth(us, n) :
                        /\ Ascending(P)[i] \in P
                        /\ OnNth(us, n)[i] = us[Ascending(P)[i]]
                        /\ \A j \in DOMAIN OnNth(us, n) :
                            Ascending(P)[i] = Ascending(P)[j] => i = j
           /\ \A n, o \in 1 .. Cardinality(NodesOf(us)) :
                Ascending(NodesOf(us))[n] = Ascending(NodesOf(us))[o] => n = o
           /\ DOMAIN Ascending(NodesOf(us)) = 1 .. Cardinality(NodesOf(us))
<1> DEFINE S == NodesOf(us)
           count == Cardinality(S)
<1>1. IsFiniteSet(S) /\ S \subseteq Int
  <2> DEFINE g == [i \in DOMAIN us |-> us[i].node]
  <2>1. g \in Surjection(DOMAIN us, S)
    BY DEF Surjection, NodesOf
  <2>2. IsFiniteSet(DOMAIN us)
    <3>1. DOMAIN us = 1 .. Len(us) /\ Len(us) \in Nat
      OBVIOUS
    <3> QED  BY <3>1, FS_Interval
  <2>3. S \subseteq Int
    <3>1. \A i \in DOMAIN us : us[i] \in GroupType
      OBVIOUS
    <3>2. \A i \in DOMAIN us : us[i].node \in Int
      BY <3>1 DEF GroupType
    <3> QED  BY <3>2 DEF NodesOf
  <2> HIDE DEF g
  <2> QED  BY <2>1, <2>2, <2>3, FS_Surjection
<1> HIDE DEF S
<1>2. /\ count \in Nat /\ Ascending(S) \in [1 .. count -> S]
      /\ \A x \in S : \E n \in 1 .. count : Ascending(S)[n] = x
      /\ \A n, o \in 1 .. count : Ascending(S)[n] = Ascending(S)[o] => n = o
  BY <1>1, AscendingOrder, AscendingOnce
<1> HIDE DEF count
<1>3. ASSUME NEW n \in 1 .. count
      PROVE  LET P == {i \in DOMAIN us : us[i].node = Ascending(S)[n]}
             IN  /\ Ascending(S)[n] \in S
                 /\ OnNth(us, n) \in Seq(GroupType)
                 /\ IsFiniteSet(P)
                 /\ Len(OnNth(us, n)) = Cardinality(P)
                 /\ \A i \in DOMAIN OnNth(us, n) :
                    /\ Ascending(P)[i] \in P
                    /\ OnNth(us, n)[i] = us[Ascending(P)[i]]
                    /\ \A j \in DOMAIN OnNth(us, n) :
                        Ascending(P)[i] = Ascending(P)[j] => i = j
  <2> DEFINE P == {i \in DOMAIN us : us[i].node = Ascending(S)[n]}
  <2>1. OnNth(us, n) = Picked(us, P)
    BY DEF OnNth, OnNode, S
  <2>2. P \subseteq DOMAIN us
    OBVIOUS
  <2>3. Ascending(S)[n] \in S
    BY <1>2
  <2> HIDE DEF P
  <2>4. /\ IsFiniteSet(P) /\ Picked(us, P) \in Seq(GroupType)
        /\ Len(Picked(us, P)) = Cardinality(P)
        /\ DOMAIN Picked(us, P) = 1 .. Cardinality(P)
        /\ \A i \in 1 .. Cardinality(P) :
            Ascending(P)[i] \in P /\ Picked(us, P)[i] = us[Ascending(P)[i]]
        /\ \A i, j \in 1 .. Cardinality(P) :
            Ascending(P)[i] = Ascending(P)[j] => i = j
    BY <2>2, PickedElements
  <2>5. /\ Ascending(S)[n] \in S
        /\ OnNth(us, n) \in Seq(GroupType)
        /\ IsFiniteSet(P)
        /\ Len(OnNth(us, n)) = Cardinality(P)
        /\ \A i \in DOMAIN OnNth(us, n) :
            /\ Ascending(P)[i] \in P
            /\ OnNth(us, n)[i] = us[Ascending(P)[i]]
            /\ \A j \in DOMAIN OnNth(us, n) :
                Ascending(P)[i] = Ascending(P)[j] => i = j
    BY <2>1, <2>3, <2>4
  <2> QED  BY <2>5 DEF P
<1>4. DOMAIN Ascending(S) = 1 .. count
  BY <1>2
<1> QED  BY <1>2, <1>3, <1>4 DEF S, count

LEMMA AllPairsJoined ==
    ASSUME NEW us \in Seq(GroupType)
    PROVE  /\ ByNode(us) \in Seq(Seq(PairType))
           /\ Len(ByNode(us)) = Cardinality(NodesOf(us))
           /\ AllPairs(us) = Joined(ByNode(us))
           /\ AllPairs(us) \in Seq(PairType)
<1> DEFINE count == Cardinality(NodesOf(us))
<1>1. count \in Nat /\ DOMAIN Ascending(NodesOf(us)) = 1 .. count
  BY OnNthElements
<1>2. \A n \in 1 .. count : NodePairs(OnNth(us, n)) \in Seq(PairType)
  <2> TAKE n \in 1 .. count
  <2>1. OnNth(us, n) \in Seq(GroupType)
    BY OnNthElements
  <2> QED  BY <2>1, NodePairsJoined
<1>3. ByNode(us) \in Seq(Seq(PairType)) /\ Len(ByNode(us)) = count
  <2>1. ByNode(us) \in [1 .. count -> Seq(PairType)]
    BY <1>2 DEF ByNode
  <2> HIDE DEF count
  <2> QED  BY <1>1, <2>1
<1>4. AllPairs(us) = Joined(ByNode(us))
  BY <1>1, FlattenJoined DEF AllPairs, ByNode, OnNth, NodesOf
<1>5. Joined(ByNode(us)) \in Seq(PairType)
  BY <1>3, JoinedElements
<1> QED  BY <1>3, <1>4, <1>5

\* The pairs of a list are those of its chunks, one chunk after the other.
InPieces(pairList, cs) ==
    /\ pairList \in Seq(PairType)
    /\ Starts(cs) \in [1 .. Len(cs) + 1 -> Nat]
    /\ \A i \in 1 .. Len(cs) :
        /\ Starts(cs)[i + 1] = Starts(cs)[i] + Len(cs[i])
        /\ Starts(cs)[i + 1] <= Len(pairList)
        /\ \A e \in 1 .. Len(cs[i]) : pairList[Starts(cs)[i] + e] = cs[i][e]
    /\ \A j \in 1 .. Len(pairList) : \E i \in 1 .. Len(cs) :
            \E e \in 1 .. Len(cs[i]) : j = Starts(cs)[i] + e

\* Pair k is pair e of chunk i of node number n.
InChunk(us, k, n, i, e) ==
    /\ n \in 1 .. Cardinality(NodesOf(us))
    /\ i \in 1 .. Len(OnNth(us, n)) \div 2
    /\ e \in 1 .. Len(Chunks(OnNth(us, n))[i])
    /\ k = Starts(ByNode(us))[n] + (Starts(Chunks(OnNth(us, n)))[i] + e)

LEMMA ChunkOfPair ==
    ASSUME NEW us \in Seq(GroupType)
    PROVE  /\ \A k \in 1 .. Len(AllPairs(us)) : \E n, i, e \in Nat : InChunk(us, k, n, i, e)
           /\ \A n \in 1 .. Cardinality(NodesOf(us)) :
              \A i \in 1 .. Len(OnNth(us, n)) \div 2 :
              \A e \in 1 .. Len(Chunks(OnNth(us, n))[i]) :
                LET k == Starts(ByNode(us))[n] + (Starts(Chunks(OnNth(us, n)))[i] + e)
                IN  /\ k \in 1 .. Len(AllPairs(us))
                    /\ AllPairs(us)[k] = Chunks(OnNth(us, n))[i][e]
<1> DEFINE count == Cardinality(NodesOf(us))
           all == AllPairs(us)
           at == Starts(ByNode(us))
<1>1. count \in Nat
  BY OnNthElements
<1>2. /\ all \in Seq(PairType) /\ at \in [1 .. count + 1 -> Nat]
      /\ \A n \in 1 .. count :
            /\ at[n + 1] = at[n] + Len(ByNode(us)[n])
            /\ at[n + 1] <= Len(all)
            /\ \A j \in 1 .. Len(ByNode(us)[n]) : all[at[n] + j] = ByNode(us)[n][j]
      /\ \A k \in 1 .. Len(all) : \E n \in 1 .. count :
            \E j \in 1 .. Len(ByNode(us)[n]) : k = at[n] + j
  BY AllPairsJoined, JoinedElements, SMTT(30)
<1>3. ASSUME NEW n \in 1 .. count
      PROVE  LET cs == Chunks(OnNth(us, n)) IN
             /\ ByNode(us)[n] \in Seq(PairType)
             /\ Len(cs) = Len(OnNth(us, n)) \div 2 /\ cs \in Seq(Seq(PairType))
             /\ Starts(cs) \in [1 .. Len(cs) + 1 -> Nat]
             /\ \A i \in 1 .. Len(cs) :
                /\ Starts(cs)[i + 1] = Starts(cs)[i] + Len(cs[i])
                /\ Starts(cs)[i + 1] <= Len(ByNode(us)[n])
                /\ \A e \in 1 .. Len(cs[i]) :
                        ByNode(us)[n][Starts(cs)[i] + e] = cs[i][e]
             /\ \A j \in 1 .. Len(ByNode(us)[n]) : \E i \in 1 .. Len(cs) :
                    \E e \in 1 .. Len(cs[i]) : j = Starts(cs)[i] + e
  <2> DEFINE cs == Chunks(OnNth(us, n))
  <2>1. OnNth(us, n) \in Seq(GroupType)
    BY OnNthElements
  <2>2. /\ cs \in Seq(Seq(PairType)) /\ Len(cs) = Len(OnNth(us, n)) \div 2
        /\ NodePairs(OnNth(us, n)) = Joined(cs)
    BY <2>1, NodePairsJoined
  <2>3. ByNode(us)[n] = Joined(cs)
    BY <2>2 DEF ByNode
  <2> HIDE DEF cs
  <2>4. /\ Joined(cs) \in Seq(PairType)
        /\ Starts(cs) \in [1 .. Len(cs) + 1 -> Nat]
        /\ \A i \in 1 .. Len(cs) :
                /\ Starts(cs)[i + 1] = Starts(cs)[i] + Len(cs[i])
                /\ Starts(cs)[i + 1] <= Len(Joined(cs))
                /\ \A e \in 1 .. Len(cs[i]) :
                        Joined(cs)[Starts(cs)[i] + e] = cs[i][e]
        /\ \A j \in 1 .. Len(Joined(cs)) : \E i \in 1 .. Len(cs) :
                    \E e \in 1 .. Len(cs[i]) : j = Starts(cs)[i] + e
    BY <2>2, JoinedElements, ZenonT(60)
  <2>5. InPieces(Joined(cs), cs)
    BY <2>4, Zenon DEF InPieces
  <2>6. InPieces(ByNode(us)[n], cs)
    BY <2>3, <2>5, Zenon
  <2> QED  BY <2>2, <2>6, Zenon DEF cs, InPieces
<1> HIDE DEF all, at, count
<1>4. ASSUME NEW k \in 1 .. Len(all)
      PROVE  \E n, i, e \in Nat : InChunk(us, k, n, i, e)
  <2>1. PICK n \in 1 .. count : \E j \in 1 .. Len(ByNode(us)[n]) : k = at[n] + j
    BY <1>2
  <2>2. PICK j \in 1 .. Len(ByNode(us)[n]) : k = at[n] + j
    BY <2>1
  <2> DEFINE cs == Chunks(OnNth(us, n))
  <2>3. PICK i \in 1 .. Len(cs) : \E e \in 1 .. Len(cs[i]) : j = Starts(cs)[i] + e
    BY <1>3
  <2>4. PICK e \in 1 .. Len(cs[i]) : j = Starts(cs)[i] + e
    BY <2>3
  <2>5. Len(cs) = Len(OnNth(us, n)) \div 2
    BY <1>3
  <2>6. InChunk(us, k, n, i, e)
    BY <2>2, <2>4, <2>5 DEF InChunk, at, count
  <2>7. n \in Nat /\ i \in Nat /\ e \in Nat
    BY <1>1
  <2> QED  BY <2>6, <2>7
<1>5. ASSUME NEW n \in 1 .. count, NEW i \in 1 .. Len(OnNth(us, n)) \div 2,
             NEW e \in 1 .. Len(Chunks(OnNth(us, n))[i])
      PROVE  /\ at[n] + (Starts(Chunks(OnNth(us, n)))[i] + e) \in 1 .. Len(all)
             /\ all[at[n] + (Starts(Chunks(OnNth(us, n)))[i] + e)]
                    = Chunks(OnNth(us, n))[i][e]
  <2> DEFINE cs == Chunks(OnNth(us, n))
             j == Starts(cs)[i] + e
  <2>1. i \in 1 .. Len(cs)
    BY <1>3
  <2>2. /\ Starts(cs)[i + 1] = Starts(cs)[i] + Len(cs[i])
        /\ Starts(cs)[i + 1] <= Len(ByNode(us)[n])
        /\ ByNode(us)[n][j] = cs[i][e]
        /\ Starts(cs) \in [1 .. Len(cs) + 1 -> Nat]
        /\ cs \in Seq(Seq(PairType)) /\ ByNode(us)[n] \in Seq(PairType)
    BY <1>3, <2>1
  <2>3. PICK a \in Nat, b \in Nat, c \in Nat :
            a = Starts(cs)[i] /\ b = Len(cs[i]) /\ c = Len(ByNode(us)[n])
    BY <2>1, <2>2
  <2>4. j \in 1 .. Len(ByNode(us)[n])
    <3>1. e \in 1 .. b /\ a + b <= c
      BY <2>2, <2>3
    <3>2. a + e \in 1 .. c
      BY <3>1
    <3> QED  BY <2>3, <3>2
  <2> HIDE DEF j, cs
  <2>5. all[at[n] + j] = ByNode(us)[n][j]
    BY <1>2, <2>4
  <2>6. at[n] + j \in 1 .. Len(all)
    <3>1. PICK a1 \in Nat, b1 \in Nat : a1 = at[n] /\ b1 = Len(all)
      BY <1>1, <1>2
    <3>2. j \in 1 .. c /\ a1 + c <= b1
      BY <1>2, <2>3, <2>4, <3>1
    <3>3. a1 + j \in 1 .. b1
      BY <3>2
    <3> QED  BY <3>1, <3>3
  <2> QED  BY <2>2, <2>5, <2>6 DEF j, cs
<1> QED  BY <1>4, <1>5 DEF all, at, count

\* Pair p has sibling e of core a for the runtime, of core b for the kernel
\* thread.
FromCores(us, p, a, b, e) ==
    /\ a \in DOMAIN us /\ b \in DOMAIN us /\ a # b
    /\ us[a].node = us[b].node
    /\ e \in DOMAIN us[a].vcpus /\ e \in DOMAIN us[b].vcpus
    /\ p = [runtime_vcpu |-> us[a].vcpus[e], sqpoll_vcpu |-> us[b].vcpus[e],
            numa_node |-> us[a].node]

\* The two cores of chunk i of node number n.
CoreAt(us, n, j) ==
    Ascending({x \in DOMAIN us : us[x].node = Ascending(NodesOf(us))[n]})[j]

LEMMA CoreAtElements ==
    ASSUME NEW us \in Seq(GroupType), NEW n \in 1 .. Cardinality(NodesOf(us))
    PROVE  /\ \A y \in DOMAIN OnNth(us, n) :
                /\ CoreAt(us, n, y) \in DOMAIN us
                /\ us[CoreAt(us, n, y)].node = Ascending(NodesOf(us))[n]
                /\ OnNth(us, n)[y] = us[CoreAt(us, n, y)]
           /\ \A y, z \in DOMAIN OnNth(us, n) :
                CoreAt(us, n, y) = CoreAt(us, n, z) => y = z
BY OnNthElements DEF CoreAt

LEMMA OnNthCount ==
    ASSUME NEW us \in Seq(GroupType), NEW n \in 1 .. Cardinality(NodesOf(us))
    PROVE  Len(OnNth(us, n)) = Cardinality({i \in DOMAIN us :
                                    us[i].node = Ascending(NodesOf(us))[n]})
BY OnNthElements

LEMMA ChunkFromCores ==
    ASSUME NEW us \in Seq(GroupType), NEW n \in 1 .. Cardinality(NodesOf(us)),
           NEW i \in 1 .. Len(OnNth(us, n)) \div 2,
           NEW e \in 1 .. Len(Chunks(OnNth(us, n))[i])
    PROVE  FromCores(us, Chunks(OnNth(us, n))[i][e],
                     CoreAt(us, n, 2 * i - 1), CoreAt(us, n, 2 * i), e)
<1> DEFINE g == OnNth(us, n)
           a == CoreAt(us, n, 2 * i - 1)
           b == CoreAt(us, n, 2 * i)
           x == Ascending(NodesOf(us))[n]
<1>1. g \in Seq(GroupType)
  BY OnNthElements
<1>2. /\ 2 * i - 1 \in DOMAIN g /\ 2 * i \in DOMAIN g
      /\ Chunks(g)[i] = ChunkPairs(g[2 * i - 1], g[2 * i])
  BY <1>1, NodePairsJoined
<1>3. /\ a \in DOMAIN us /\ us[a].node = x /\ g[2 * i - 1] = us[a]
      /\ b \in DOMAIN us /\ us[b].node = x /\ g[2 * i] = us[b]
      /\ (a = b => 2 * i - 1 = 2 * i)
  <2>1. /\ \A y \in DOMAIN g : /\ CoreAt(us, n, y) \in DOMAIN us
                              /\ us[CoreAt(us, n, y)].node = x
                              /\ g[y] = us[CoreAt(us, n, y)]
        /\ \A y, z \in DOMAIN g : CoreAt(us, n, y) = CoreAt(us, n, z) => y = z
    BY CoreAtElements
  <2> HIDE DEF g, x
  <2> QED  BY <1>2, <2>1
<1> HIDE DEF g, a, b, x
<1>4. us[a] \in GroupType /\ us[b] \in GroupType
  BY <1>3
<1>5. e \in 1 .. Len(ChunkPairs(us[a], us[b]))
  BY <1>2, <1>3 DEF g
<1>6. /\ e \in DOMAIN us[a].vcpus /\ e \in DOMAIN us[b].vcpus
      /\ ChunkPairs(us[a], us[b])[e]
            = [runtime_vcpu |-> us[a].vcpus[e], sqpoll_vcpu |-> us[b].vcpus[e],
               numa_node |-> us[a].node]
  BY <1>4, <1>5, ChunkElements
<1>7. a # b
  <2>1. i \in Int
    OBVIOUS
  <2> QED  BY <1>3, <2>1
<1>8. FromCores(us, Chunks(g)[i][e], a, b, e)
  BY <1>2, <1>3, <1>6, <1>7 DEF FromCores
<1> QED  BY <1>8 DEF g, a, b

\* Pair k has its CPUs on cores a and b, pair l on c and d: the same two cores
\* or four of them.
TwoPairs(us, k, l, a, b, e, c, d, f) ==
    /\ FromCores(us, AllPairs(us)[k], a, b, e)
    /\ FromCores(us, AllPairs(us)[l], c, d, f)
    /\ \/ a = c /\ b = d /\ (k # l => e # f)
       \/ {a, b} \cap {c, d} = {}

\* Two pairs are of the same two cores, or of four.
LEMMA PairsFromCores ==
    ASSUME NEW us \in Seq(GroupType),
           NEW k \in 1 .. Len(AllPairs(us)), NEW l \in 1 .. Len(AllPairs(us))
    PROVE  \E a, b, c, d, e, f \in Nat : TwoPairs(us, k, l, a, b, e, c, d, f)
<1>1. PICK n \in Nat, i \in Nat, e \in Nat : InChunk(us, k, n, i, e)
  BY ChunkOfPair
<1>2. PICK o \in Nat, j \in Nat, f \in Nat : InChunk(us, l, o, j, f)
  BY ChunkOfPair
<1> DEFINE a == CoreAt(us, n, 2 * i - 1)
           b == CoreAt(us, n, 2 * i)
           c == CoreAt(us, o, 2 * j - 1)
           d == CoreAt(us, o, 2 * j)
<1>3. FromCores(us, AllPairs(us)[k], a, b, e)
  <2>1. AllPairs(us)[k] = Chunks(OnNth(us, n))[i][e]
    BY <1>1, ChunkOfPair DEF InChunk
  <2>2. FromCores(us, Chunks(OnNth(us, n))[i][e], a, b, e)
    BY <1>1, ChunkFromCores DEF InChunk
  <2> HIDE DEF a, b
  <2> QED  BY <2>1, <2>2
<1>4. FromCores(us, AllPairs(us)[l], c, d, f)
  <2>1. AllPairs(us)[l] = Chunks(OnNth(us, o))[j][f]
    BY <1>2, ChunkOfPair DEF InChunk
  <2>2. FromCores(us, Chunks(OnNth(us, o))[j][f], c, d, f)
    BY <1>2, ChunkFromCores DEF InChunk
  <2> HIDE DEF c, d
  <2> QED  BY <2>1, <2>2
<1>5. \A m \in {a, b, c, d} : m \in Nat
  <2>1. \A m \in {a, b, c, d} : m \in DOMAIN us
    BY <1>3, <1>4 DEF FromCores
  <2> HIDE DEF a, b, c, d
  <2> QED  BY <2>1
<1>6. CASE n # o
  <2>1. /\ us[a].node = Ascending(NodesOf(us))[n] /\ us[b].node = Ascending(NodesOf(us))[n]
        /\ us[c].node = Ascending(NodesOf(us))[o] /\ us[d].node = Ascending(NodesOf(us))[o]
    <3>1. \A v \in 1 .. Cardinality(NodesOf(us)) : \A y \in DOMAIN OnNth(us, v) :
              us[CoreAt(us, v, y)].node = Ascending(NodesOf(us))[v]
      BY OnNthElements DEF CoreAt
    <3>2. /\ 2 * i - 1 \in DOMAIN OnNth(us, n) /\ 2 * i \in DOMAIN OnNth(us, n)
          /\ 2 * j - 1 \in DOMAIN OnNth(us, o) /\ 2 * j \in DOMAIN OnNth(us, o)
      <4>1. OnNth(us, n) \in Seq(GroupType) /\ OnNth(us, o) \in Seq(GroupType)
        BY <1>1, <1>2, OnNthElements DEF InChunk
      <4> QED  BY <1>1, <1>2, <4>1, NodePairsJoined DEF InChunk
    <3> QED  BY <1>1, <1>2, <3>1, <3>2 DEF InChunk
  <2>2. Ascending(NodesOf(us))[n] # Ascending(NodesOf(us))[o]
    BY <1>1, <1>2, <1>6, OnNthElements DEF InChunk
  <2>3. {a, b} \cap {c, d} = {}
    <3> HIDE DEF a, b, c, d
    <3> QED  BY <2>1, <2>2
  <2> HIDE DEF a, b, c, d
  <2>9. a \in Nat /\ b \in Nat /\ c \in Nat /\ d \in Nat
    BY <1>5
  <2>10. TwoPairs(us, k, l, a, b, e, c, d, f)
    BY <1>3, <1>4, <2>3 DEF TwoPairs
  <2> QED  BY <2>9, <2>10
<1>7. CASE n = o /\ i # j
  <2>1. \A y, z \in DOMAIN OnNth(us, n) : CoreAt(us, n, y) = CoreAt(us, n, z) => y = z
    BY <1>1, OnNthElements DEF CoreAt, InChunk
  <2>2. /\ 2 * i - 1 \in DOMAIN OnNth(us, n) /\ 2 * i \in DOMAIN OnNth(us, n)
        /\ 2 * j - 1 \in DOMAIN OnNth(us, n) /\ 2 * j \in DOMAIN OnNth(us, n)
    <3>1. OnNth(us, n) \in Seq(GroupType)
      BY <1>1, OnNthElements DEF InChunk
    <3> QED  BY <1>1, <1>2, <1>7, <3>1, NodePairsJoined DEF InChunk
  <2>3. 2 * i - 1 # 2 * j - 1 /\ 2 * i - 1 # 2 * j /\ 2 * i # 2 * j - 1 /\ 2 * i # 2 * j
    BY <1>7
  <2>4. a # c /\ a # d /\ b # c /\ b # d
    BY <1>7, <2>1, <2>2, <2>3
  <2>5. {a, b} \cap {c, d} = {}
    <3> HIDE DEF a, b, c, d
    <3> QED  BY <2>4
  <2> HIDE DEF a, b, c, d
  <2>9. a \in Nat /\ b \in Nat /\ c \in Nat /\ d \in Nat
    BY <1>5
  <2>10. TwoPairs(us, k, l, a, b, e, c, d, f)
    BY <1>3, <1>4, <2>5 DEF TwoPairs
  <2> QED  BY <2>9, <2>10
<1>8. CASE n = o /\ i = j
  <2>1. k # l => e # f
    BY <1>1, <1>2, <1>8 DEF InChunk
  <2>2. a = c /\ b = d
    BY <1>8
  <2> HIDE DEF a, b, c, d
  <2>9. a \in Nat /\ b \in Nat /\ c \in Nat /\ d \in Nat
    BY <1>5
  <2>10. TwoPairs(us, k, l, a, b, e, c, d, f)
    BY <1>3, <1>4, <2>1, <2>2 DEF TwoPairs
  <2> QED  BY <2>9, <2>10
<1> QED  BY <1>6, <1>7, <1>8

(***************************************************************************)
(* What plan_pairs promises: each CPU of the pairs is in the cpuset, is on *)
(* the pair's node and has one role in one pair, and no core has both.     *)
(***************************************************************************)
LEMMA PlanKeepsApart ==
    ASSUME NEW m \in Machines, NEW allowed, NEW wanted \in Nat
    PROVE  LET plan == plan_pairs(allowed, SmtGroups(m), wanted)
           IN  /\ plan \in Seq(PairType)
               /\ \A k \in DOMAIN plan :
                    /\ {plan[k].runtime_vcpu, plan[k].sqpoll_vcpu} \subseteq allowed
                    /\ m.node[plan[k].runtime_vcpu] = plan[k].numa_node
                    /\ m.node[plan[k].sqpoll_vcpu] = plan[k].numa_node
               /\ \A k, l \in DOMAIN plan :
                    /\ m.sibs[plan[k].runtime_vcpu] # m.sibs[plan[l].sqpoll_vcpu]
                    /\ plan[k].runtime_vcpu = plan[l].runtime_vcpu => k = l
                    /\ plan[k].sqpoll_vcpu = plan[l].sqpoll_vcpu => k = l
<1> DEFINE us == Usable(SmtGroups(m), allowed)
           all == AllPairs(us)
           plan == plan_pairs(allowed, SmtGroups(m), wanted)
<1>1. /\ CoresApart(m, us) /\ us \in Seq(GroupType)
      /\ \A a \in DOMAIN us : ToSet(us[a].vcpus) \subseteq allowed
  BY UsableApart DEF CoresApart
<1> HIDE DEF us
<1>2. all \in Seq(PairType)
  BY <1>1, AllPairsJoined
<1>3. /\ plan \in Seq(PairType)
      /\ \A k \in DOMAIN plan : k \in 1 .. Len(all) /\ plan[k] = all[k]
  <2> DEFINE some == Min({wanted, Len(all)})
  <2>1. some \in {wanted, Len(all)} /\ some <= Len(all) /\ some \in Nat
    <3>1. Len(all) \in Nat
      BY <1>2
    <3>2. {wanted, Len(all)} \subseteq Nat /\ {wanted, Len(all)} # {}
      BY <3>1
    <3> HIDE DEF all
    <3> QED  BY <3>2, MinInSet
  <2>2. plan = SubSeq(all, 1, some)
    BY DEF plan_pairs, us
  <2> HIDE DEF plan, some, all
  <2>3. SubSeq(all, 1, some) = [k \in 1 .. some |-> all[k]]
    BY <1>2, <2>1
  <2>4. Len(all) \in Nat /\ \A k \in 1 .. some : k \in 1 .. Len(all) /\ all[k] \in PairType
    BY <1>2, <2>1
  <2>5. plan \in [1 .. some -> PairType] /\ \A k \in 1 .. some : plan[k] = all[k]
    BY <2>2, <2>3, <2>4
  <2> QED  BY <2>1, <2>4, <2>5
<1> HIDE DEF plan
<1>4. ASSUME NEW k \in DOMAIN plan
      PROVE  /\ {plan[k].runtime_vcpu, plan[k].sqpoll_vcpu} \subseteq allowed
             /\ m.node[plan[k].runtime_vcpu] = plan[k].numa_node
             /\ m.node[plan[k].sqpoll_vcpu] = plan[k].numa_node
  <2>1. PICK a \in Nat, b \in Nat, e \in Nat : FromCores(us, plan[k], a, b, e)
    <3>1. k \in 1 .. Len(AllPairs(us)) /\ plan[k] = AllPairs(us)[k]
      BY <1>3
    <3>2. PICK a, b, c, d, e, f \in Nat : TwoPairs(us, k, k, a, b, e, c, d, f)
      BY <1>1, <3>1, PairsFromCores
    <3> QED  BY <3>1, <3>2 DEF TwoPairs
  <2>2. /\ plan[k].runtime_vcpu = us[a].vcpus[e] /\ plan[k].sqpoll_vcpu = us[b].vcpus[e]
        /\ plan[k].numa_node = us[a].node /\ us[a].node = us[b].node
        /\ a \in DOMAIN us /\ b \in DOMAIN us
        /\ e \in DOMAIN us[a].vcpus /\ e \in DOMAIN us[b].vcpus
    BY <2>1 DEF FromCores
  <2>3. us[a].vcpus[e] \in allowed /\ us[b].vcpus[e] \in allowed
    BY <1>1, <2>2 DEF ToSet
  <2>4. m.node[us[a].vcpus[e]] = us[a].node /\ m.node[us[b].vcpus[e]] = us[b].node
    BY <1>1, <2>2 DEF CoresApart
  <2> QED  BY <2>2, <2>3, <2>4
<1>5. ASSUME NEW k \in DOMAIN plan, NEW l \in DOMAIN plan
      PROVE  /\ m.sibs[plan[k].runtime_vcpu] # m.sibs[plan[l].sqpoll_vcpu]
             /\ plan[k].runtime_vcpu = plan[l].runtime_vcpu => k = l
             /\ plan[k].sqpoll_vcpu = plan[l].sqpoll_vcpu => k = l
  <2>1. /\ k \in 1 .. Len(AllPairs(us)) /\ plan[k] = AllPairs(us)[k]
        /\ l \in 1 .. Len(AllPairs(us)) /\ plan[l] = AllPairs(us)[l]
    BY <1>3
  <2>11. PICK a, b, c, d, e, f \in Nat : TwoPairs(us, k, l, a, b, e, c, d, f)
    BY <1>1, <2>1, PairsFromCores
  <2>12. \/ a = c /\ b = d /\ (k # l => e # f)
         \/ {a, b} \cap {c, d} = {}
    BY <2>11 DEF TwoPairs
  <2>2. /\ plan[k].runtime_vcpu = us[a].vcpus[e] /\ plan[k].sqpoll_vcpu = us[b].vcpus[e]
        /\ plan[l].runtime_vcpu = us[c].vcpus[f] /\ plan[l].sqpoll_vcpu = us[d].vcpus[f]
        /\ a \in DOMAIN us /\ b \in DOMAIN us /\ c \in DOMAIN us /\ d \in DOMAIN us
        /\ e \in DOMAIN us[a].vcpus /\ e \in DOMAIN us[b].vcpus
        /\ f \in DOMAIN us[c].vcpus /\ f \in DOMAIN us[d].vcpus
        /\ a # b /\ c # d
    BY <2>1, <2>11 DEF TwoPairs, FromCores
  <2>3. a # d
    BY <2>12, <2>2
  <2>4. m.sibs[us[a].vcpus[e]] # m.sibs[us[d].vcpus[f]]
    BY <1>1, <2>2, <2>3 DEF CoresApart
  <2>5. us[a].vcpus[e] = us[c].vcpus[f] => a = c
    BY <1>1, <2>2 DEF CoresApart
  <2>6. us[b].vcpus[e] = us[d].vcpus[f] => b = d
    BY <1>1, <2>2 DEF CoresApart
  <2>7. a = c => (us[a].vcpus[e] = us[c].vcpus[f] => e = f)
    BY <1>1, <2>2 DEF CoresApart
  <2>8. b = d => (us[b].vcpus[e] = us[d].vcpus[f] => e = f)
    BY <1>1, <2>2 DEF CoresApart
  <2>9. us[a].vcpus[e] = us[c].vcpus[f] => k = l
    BY <2>12, <2>5, <2>7
  <2>10. us[b].vcpus[e] = us[d].vcpus[f] => k = l
    BY <2>12, <2>6, <2>8
  <2> QED  BY <2>2, <2>4, <2>9, <2>10
<1> QED  BY <1>3, <1>4, <1>5 DEF plan

-------------------------------------------------------------------------------
(***************************************************************************)
(* The inductive invariant: what the later phases know of the earlier      *)
(* ones, and which threads are pinned where in each of them.               *)
(***************************************************************************)
Plan == plan_pairs(ToSet(Cpus), SmtGroups(input.machine), Args.processingCores)

PairsOfPlan ==
    IF Args.sqpoll /\ phase \notin {"plan", "panic_plan"}
    THEN /\ Args.cpuPinning
         /\ pairs = Plan
         /\ Len(pairs) = Args.processingCores
    ELSE pairs = <<>>

ModelsFound ==
    LET models == load_all(Args.source, input.repo, Wanted)
    IN  IF phase \in {"affinity", "manager", "processing", "loading", "panic_no_cpu"}
        THEN discovered = Filtered(models) /\ ~LoadFails(models)
        ELSE discovered = <<>>

PlanGaveUp ==
    phase = "panic_plan" =>
        Args.sqpoll /\ ~(Args.cpuPinning /\ Len(Plan) = Args.processingCores)

OrtThreads == IF Args.cpuPinning THEN 0 .. Args.ortIntraThreads - 2 ELSE {}

OrtPins == {Pin("ort", i, OrtCpu(i)) : i \in OrtThreads}

ManagerPins == {Pin("manager", 0, RoundRobin(PinPool, 0))}
                   \cup {Pin("executor", i, RoundRobin(PinPool, 1 + i)) :
                            i \in 0 .. Args.executorCores - 1}

\* The pins of the first n processing cores.
CorePins(n) ==
    IF Args.sqpoll
    THEN {Pin("processing", i, pairs[i + 1].runtime_vcpu) : i \in 0 .. n - 1}
            \cup {Pin("sqpoll", i, pairs[i + 1].sqpoll_vcpu) : i \in 0 .. n - 1}
    ELSE {Pin("processing", i, RoundRobin(Cpus, 1 + Args.executorCores + i)) :
            i \in 0 .. n - 1}

\* The first n processing cores are pinned.
PinnedCores(n) ==
    IF Args.cpuPinning
    THEN /\ PinPool # <<>>
         /\ n <= Args.processingCores
         /\ pins = OrtPins \cup ManagerPins \cup CorePins(n)
         /\ pinIndex = 1 + Args.executorCores + (IF Args.sqpoll THEN 0 ELSE n)
    ELSE pins = {} /\ pinIndex = Args.executorCores

PinsByPhase ==
    CASE phase = "manager" ->
            /\ OrtThreads # {} => PinPool # <<>>
            /\ pins = OrtPins /\ pinIndex = 0
      [] phase = "processing" -> \E n \in Nat : PinnedCores(n)
      [] phase = "loading" -> PinnedCores(Args.processingCores)
      [] OTHER -> pins = {} /\ pinIndex = 0

StartupInv ==
    /\ input \in [args : CliArgs, machine : Machines, repo : Repositories]
    /\ phase \in {"plan", "discover", "affinity", "manager", "processing",
                  "loading", "exit", "panic_plan", "panic_discover",
                  "panic_no_cpu"}
    /\ PairsOfPlan
    /\ ModelsFound
    /\ PlanGaveUp
    /\ PinsByPhase

LEMMA ArgTypes ==
    ASSUME input \in [args : CliArgs, machine : Machines, repo : Repositories]
    PROVE  /\ Args.cpuPinning \in BOOLEAN /\ Args.sqpoll \in BOOLEAN
           /\ Args.processingCores \in Nat /\ Args.executorCores \in Nat
           /\ Args.ortIntraThreads \in Nat
           /\ input.machine \in Machines /\ input.repo \in Repositories
<1>1. /\ Args \in CliArgs /\ input.machine \in Machines
      /\ input.repo \in Repositories
  BY DEF Args
<1> QED  BY <1>1, ArgsAssumption

\* The pins of the processing cores, counted.
LEMMA CoresCounted ==
    ASSUME input \in [args : CliArgs, machine : Machines, repo : Repositories],
           Args.cpuPinning, NEW n \in Nat, PinnedCores(n)
    PROVE  Cardinality(ProcessingPins) = n
<1> DEFINE cpu(i) == IF Args.sqpoll THEN pairs[i + 1].runtime_vcpu
                     ELSE RoundRobin(Cpus, 1 + Args.executorCores + i)
           f == [i \in 0 .. n - 1 |-> Pin("processing", i, cpu(i))]
<1>1. pins = OrtPins \cup ManagerPins \cup CorePins(n)
  BY DEF PinnedCores
<1>2. ProcessingPins = {Pin("processing", i, cpu(i)) : i \in 0 .. n - 1}
  <2>1. \A p \in OrtPins \cup ManagerPins : p.role # "processing"
    BY DEF OrtPins, ManagerPins, Pin
  <2>2. {p \in CorePins(n) : p.role = "processing"}
            = {Pin("processing", i, cpu(i)) : i \in 0 .. n - 1}
    <3>1. CASE Args.sqpoll
      BY <3>1 DEF CorePins, Pin
    <3>2. CASE ~Args.sqpoll
      BY <3>2 DEF CorePins, Pin
    <3> QED  BY <3>1, <3>2
  <2> HIDE DEF cpu
  <2> QED  BY <1>1, <2>1, <2>2 DEF ProcessingPins
<1>3. f \in Surjection(0 .. n - 1, ProcessingPins)
  <2> HIDE DEF cpu
  <2> QED  BY <1>2 DEF Surjection
<1>4. f \in Injection(0 .. n - 1, ProcessingPins)
  <2>1. \A i, j \in 0 .. n - 1 : f[i] = f[j] => i = j
    <3> HIDE DEF cpu
    <3> QED  BY DEF Pin
  <2>2. f \in [0 .. n - 1 -> ProcessingPins]
    BY <1>3 DEF Surjection
  <2> HIDE DEF f
  <2> QED  BY <2>1, <2>2, Fun_IsInj
<1>5. IsFiniteSet(0 .. n - 1) /\ Cardinality(0 .. n - 1) = n
  <2>1. /\ IsFiniteSet(0 .. n - 1)
        /\ Cardinality(0 .. n - 1) = IF 0 > n - 1 THEN 0 ELSE n - 1 - 0 + 1
    BY FS_Interval
  <2> QED  BY <2>1
<1>6. Cardinality(ProcessingPins) = Cardinality(0 .. n - 1)
  <2> HIDE DEF f
  <2> QED  BY <1>3, <1>4, <1>5, FS_Surjection
<1> QED  BY <1>5, <1>6

LEMMA InitInvariant == Init => StartupInv
BY DEF Init, Begin, StartupInv, PairsOfPlan, ModelsFound, PlanGaveUp, PinsByPhase

\* What depends on the input and the pairs only.
LEMMA PinsKept ==
    ASSUME UNCHANGED <<input, pairs>>
    PROVE  /\ Args' = Args /\ Cpus' = Cpus /\ PinPool' = PinPool
           /\ Plan' = Plan /\ Wanted' = Wanted
           /\ OrtThreads' = OrtThreads /\ OrtPins' = OrtPins
           /\ ManagerPins' = ManagerPins
           /\ \A n \in Nat : CorePins(n)' = CorePins(n)
<1>1. Args' = Args /\ Cpus' = Cpus /\ Wanted' = Wanted
  BY DEF Args, Cpus, Wanted
<1>2. PinPool' = PinPool /\ Plan' = Plan /\ OrtThreads' = OrtThreads
  BY <1>1 DEF PinPool, Plan, OrtThreads
<1>3. OrtPins' = OrtPins /\ ManagerPins' = ManagerPins
  BY <1>1, <1>2 DEF OrtPins, OrtCpu, ManagerPins
<1>4. \A n \in Nat : CorePins(n)' = CorePins(n)
  BY <1>1 DEF CorePins
<1> QED  BY <1>1, <1>2, <1>3, <1>4

LEMMA NextInvariant == StartupInv /\ [Next]_vars => StartupInv'
<1> SUFFICES ASSUME StartupInv, [Next]_vars PROVE StartupInv'
  OBVIOUS
<1> USE DEF StartupInv
<1>0. /\ input \in [args : CliArgs, machine : Machines, repo : Repositories]
      /\ Args.processingCores \in Nat /\ Args.executorCores \in Nat
  BY ArgTypes
<1>1. CASE PlanPairs
  <2>1. /\ phase = "plan" /\ pairs = <<>> /\ discovered = <<>>
        /\ pins = {} /\ pinIndex = 0
    BY <1>1 DEF PlanPairs, PairsOfPlan, ModelsFound, PinsByPhase
  <2>2. /\ input' = input /\ Args' = Args /\ Plan' = Plan
        /\ discovered' = <<>> /\ pins' = {} /\ pinIndex' = 0
    BY <1>1, <2>1 DEF PlanPairs, Panic, Args, Plan, Cpus
  <2>3. \/ ~Args.sqpoll /\ phase' = "discover" /\ pairs' = pairs
        \/ /\ Args.sqpoll
           /\ ~(Args.cpuPinning /\ Len(Plan) = Args.processingCores)
           /\ phase' = "panic_plan" /\ pairs' = pairs
        \/ /\ Args.sqpoll /\ Args.cpuPinning
           /\ Len(Plan) = Args.processingCores
           /\ phase' = "discover" /\ pairs' = Plan
    BY <1>1 DEF PlanPairs, Panic, Plan
  <2>4. phase' \in {"discover", "panic_plan"}
    BY <2>3
  <2>5. PairsOfPlan' /\ PlanGaveUp'
    BY <2>1, <2>2, <2>3 DEF PairsOfPlan, PlanGaveUp
  <2>6. ModelsFound' /\ PinsByPhase'
    BY <2>2, <2>4 DEF ModelsFound, PinsByPhase
  <2> QED  BY <1>0, <2>2, <2>4, <2>5, <2>6
<1>2. CASE Discover
  <2>1. /\ phase = "discover" /\ discovered = <<>>
        /\ pins = {} /\ pinIndex = 0
        /\ UNCHANGED <<input, pairs, pins, pinIndex>>
    BY <1>2 DEF Discover, Panic, ModelsFound, PinsByPhase
  <2>2. Args' = Args /\ Plan' = Plan /\ Wanted' = Wanted
    BY <2>1, PinsKept
  <2> DEFINE models == load_all(Args.source, input.repo, Wanted)
  <2>3. \/ phase' \in {"exit", "panic_discover"} /\ discovered' = <<>>
        \/ /\ phase' = "affinity"
           /\ ~LoadFails(models) /\ discovered' = Filtered(models)
    BY <1>2, <2>1 DEF Discover, Panic
  <2>4. phase' \in {"exit", "panic_discover", "affinity"}
    BY <2>3
  <2>5. PairsOfPlan'
    BY <2>1, <2>2, <2>4 DEF PairsOfPlan
  <2>6. Filtered(models)' = Filtered(models) /\ models' = models
    BY <2>1, <2>2 DEF Filtered
  <2>7. ModelsFound'
    <3> HIDE DEF models
    <3>1. ModelsFound' <=>
             IF phase' \in {"affinity", "manager", "processing", "loading", "panic_no_cpu"}
             THEN discovered' = Filtered(models') /\ ~LoadFails(models')
             ELSE discovered' = <<>>
      BY <2>1, <2>2, <2>6 DEF ModelsFound, models, Filtered
    <3> QED  BY <2>3, <2>6, <3>1 DEF Filtered
  <2>8. PlanGaveUp' /\ PinsByPhase'
    BY <2>1, <2>4 DEF PlanGaveUp, PinsByPhase
  <2> QED  BY <1>0, <2>1, <2>4, <2>5, <2>7, <2>8
<1>3. ASSUME UNCHANGED <<input, pairs, discovered>>,
             phase \in {"affinity", "manager", "processing"},
             phase' \in {"manager", "processing", "loading", "panic_no_cpu"}
      PROVE  PairsOfPlan' /\ ModelsFound' /\ PlanGaveUp'
  <2>1. Args' = Args /\ Plan' = Plan /\ Wanted' = Wanted
    BY <1>3, PinsKept
  <2>2. PairsOfPlan' /\ PlanGaveUp'
    BY <1>3, <2>1 DEF PairsOfPlan, PlanGaveUp
  <2>3. ModelsFound'
    BY <1>3, <2>1 DEF ModelsFound, Filtered
  <2> QED  BY <2>2, <2>3
<1>4. CASE OrtAffinity
  <2>1. /\ phase = "affinity" /\ pins = {} /\ pinIndex = 0
        /\ UNCHANGED <<input, pairs, discovered, pinIndex>>
    BY <1>4 DEF OrtAffinity, Panic, PinsByPhase
  <2>2. \/ phase' = "panic_no_cpu" /\ pins' = pins
        \/ /\ phase' = "manager" /\ pins' = OrtPins
           /\ OrtThreads = {} \/ PinPool # <<>>
    BY <1>4 DEF OrtAffinity, Panic, OrtPins, OrtThreads
  <2>3. PinPool' = PinPool /\ OrtThreads' = OrtThreads /\ OrtPins' = OrtPins
    BY <2>1, PinsKept
  <2>4. PinsByPhase'
    BY <2>1, <2>2, <2>3 DEF PinsByPhase
  <2>5. PairsOfPlan' /\ ModelsFound' /\ PlanGaveUp'
    BY <1>3, <2>1, <2>2
  <2> QED  BY <1>0, <2>1, <2>2, <2>4, <2>5
<1>5. CASE SpawnManager
  <2>1. /\ phase = "manager" /\ pins = OrtPins /\ pinIndex = 0
        /\ OrtThreads # {} => PinPool # <<>>
        /\ UNCHANGED <<input, pairs, discovered>>
    BY <1>5 DEF SpawnManager, Panic, PinsByPhase
  <2>2. /\ Args' = Args /\ PinPool' = PinPool /\ OrtPins' = OrtPins
        /\ ManagerPins' = ManagerPins
        /\ \A n \in Nat : CorePins(n)' = CorePins(n)
    BY <2>1, PinsKept
  <2>3. OrtThreads = {} => OrtPins = {}
    BY DEF OrtPins
  <2>4. CorePins(0) = {}
    BY DEF CorePins
  <2>5. CASE phase' = "panic_no_cpu"
    <3>1. pins' = pins /\ pinIndex' = 0 /\ PinPool = <<>>
      BY <1>5, <2>1, <2>5 DEF SpawnManager, Panic
    <3>2. PinsByPhase'
      BY <2>1, <2>3, <2>5, <3>1 DEF PinsByPhase
    <3>3. PairsOfPlan' /\ ModelsFound' /\ PlanGaveUp'
      BY <1>3, <2>1, <2>5
    <3> QED  BY <1>0, <2>1, <2>5, <3>2, <3>3
  <2>6. CASE phase' = "processing"
    <3>1. PinnedCores(0)'
      <4>1. CASE Args.cpuPinning
        <5>1. /\ PinPool # <<>>
              /\ pins' = pins \cup {Pin("manager", 0, RoundRobin(PinPool, pinIndex))}
                              \cup {Pin("executor", i, ExecutorCpu(i)) :
                                        i \in 0 .. Args.executorCores - 1}
              /\ pinIndex' = pinIndex + 1 + Args.executorCores
          BY <1>5, <2>6, <4>1 DEF SpawnManager, Panic
        <5>2. \A i \in 0 .. Args.executorCores - 1 :
                    ExecutorCpu(i) = RoundRobin(PinPool, 1 + i)
          BY <2>1 DEF ExecutorCpu
        <5>3. pins' = OrtPins \cup ManagerPins
          BY <2>1, <5>1, <5>2 DEF ManagerPins
        <5>4. pinIndex' = 1 + Args.executorCores + (IF Args.sqpoll THEN 0 ELSE 0)
          BY <1>0, <2>1, <5>1
        <5>5. CorePins(0)' = {}
          BY <2>2, <2>4
        <5> QED  BY <1>0, <2>2, <4>1, <5>1, <5>3, <5>4, <5>5 DEF PinnedCores
      <4>2. CASE ~Args.cpuPinning
        <5>1. pins' = pins /\ pinIndex' = Args.executorCores
          BY <1>0, <1>5, <2>1, <2>6, <4>2 DEF SpawnManager, Panic
        <5>2. pins = {}
          BY <2>1, <2>3, <4>2 DEF OrtThreads
        <5> QED  BY <2>2, <4>2, <5>1, <5>2 DEF PinnedCores
      <4> QED  BY <4>1, <4>2
    <3>2. PinsByPhase'
      BY <2>6, <3>1 DEF PinsByPhase
    <3>3. PairsOfPlan' /\ ModelsFound' /\ PlanGaveUp'
      BY <1>3, <2>1, <2>6
    <3> QED  BY <1>0, <2>1, <2>6, <3>2, <3>3
  <2>7. phase' = "panic_no_cpu" \/ phase' = "processing"
    BY <1>5 DEF SpawnManager, Panic
  <2> QED  BY <2>5, <2>6, <2>7
<1>6. CASE SpawnProcessing
  <2>1. /\ phase = "processing" /\ Args.cpuPinning
        /\ UNCHANGED <<input, phase, pairs, discovered>>
    BY <1>6 DEF SpawnProcessing
  <2>2. PICK n \in Nat : PinnedCores(n)
    BY <2>1 DEF PinsByPhase
  <2>3. Cardinality(ProcessingPins) = n
    BY <1>0, <2>1, <2>2, CoresCounted
  <2>4. n < Args.processingCores
    BY <1>6, <2>3 DEF SpawnProcessing
  <2>5. /\ PinPool # <<>>
        /\ pins = OrtPins \cup ManagerPins \cup CorePins(n)
        /\ pinIndex = 1 + Args.executorCores + (IF Args.sqpoll THEN 0 ELSE n)
    BY <2>1, <2>2 DEF PinnedCores
  <2>6. n + 1 \in Nat /\ 0 .. (n + 1) - 1 = (0 .. n - 1) \cup {n}
    OBVIOUS
  <2>7. /\ pins' = OrtPins \cup ManagerPins \cup CorePins(n + 1)
        /\ pinIndex' = 1 + Args.executorCores + (IF Args.sqpoll THEN 0 ELSE n + 1)
    <3>1. CASE Args.sqpoll
      <4>1. /\ pins' = pins \cup {Pin("processing", n, pairs[n + 1].runtime_vcpu),
                                  Pin("sqpoll", n, pairs[n + 1].sqpoll_vcpu)}
            /\ pinIndex' = pinIndex
        BY <1>6, <2>3, <3>1 DEF SpawnProcessing
      <4>2. CorePins(n + 1) = CorePins(n)
                \cup {Pin("processing", n, pairs[n + 1].runtime_vcpu),
                      Pin("sqpoll", n, pairs[n + 1].sqpoll_vcpu)}
        BY <2>6, <3>1 DEF CorePins
      <4> QED  BY <2>5, <3>1, <4>1, <4>2
    <3>2. CASE ~Args.sqpoll
      <4>1. /\ pins' = pins \cup {Pin("processing", n, RoundRobin(Cpus, pinIndex))}
            /\ pinIndex' = pinIndex + 1
        BY <1>6, <2>3, <3>2 DEF SpawnProcessing
      <4>2. pinIndex = 1 + Args.executorCores + n
        BY <2>5, <3>2
      <4>3. CorePins(n + 1) = CorePins(n) \cup
                {Pin("processing", n, RoundRobin(Cpus, 1 + Args.executorCores + n))}
        BY <2>6, <3>2 DEF CorePins
      <4>4. pinIndex' = 1 + Args.executorCores + (n + 1)
        BY <1>0, <4>1, <4>2
      <4> QED  BY <2>5, <3>2, <4>1, <4>2, <4>3, <4>4
    <3> QED  BY <3>1, <3>2
  <2>8. /\ Args' = Args /\ PinPool' = PinPool /\ OrtPins' = OrtPins
        /\ ManagerPins' = ManagerPins
        /\ \A k \in Nat : CorePins(k)' = CorePins(k)
    BY <2>1, PinsKept
  <2>9. PinnedCores(n + 1)'
    <3>1. CorePins(n + 1)' = CorePins(n + 1)
      BY <2>6, <2>8
    <3>2. n + 1 <= Args.processingCores
      BY <1>0, <2>4
    <3> QED  BY <2>1, <2>5, <2>7, <2>8, <3>1, <3>2 DEF PinnedCores
  <2>10. PinsByPhase'
    BY <2>1, <2>6, <2>9 DEF PinsByPhase
  <2>11. PairsOfPlan' /\ ModelsFound' /\ PlanGaveUp'
    BY <1>3, <2>1
  <2> QED  BY <1>0, <2>1, <2>10, <2>11
<1>7. CASE StartLoading
  <2>1. /\ phase = "processing" /\ phase' = "loading"
        /\ Args.cpuPinning => Cardinality(ProcessingPins) = Args.processingCores
        /\ UNCHANGED <<input, pairs, discovered, pins, pinIndex>>
    BY <1>7 DEF StartLoading
  <2>2. PICK n \in Nat : PinnedCores(n)
    BY <2>1 DEF PinsByPhase
  <2>3. PinnedCores(Args.processingCores)
    <3>1. CASE Args.cpuPinning
      BY <1>0, <2>1, <2>2, <3>1, CoresCounted
    <3>2. CASE ~Args.cpuPinning
      BY <2>2, <3>2 DEF PinnedCores
    <3> QED  BY <3>1, <3>2
  <2>4. /\ Args' = Args /\ PinPool' = PinPool /\ OrtPins' = OrtPins
        /\ ManagerPins' = ManagerPins
        /\ \A k \in Nat : CorePins(k)' = CorePins(k)
    BY <2>1, PinsKept
  <2>5. PinnedCores(Args.processingCores)'
    <3>1. CorePins(Args.processingCores)' = CorePins(Args.processingCores)
      BY <1>0, <2>4
    <3> QED  BY <2>1, <2>3, <2>4, <3>1 DEF PinnedCores
  <2>6. PinsByPhase'
    BY <2>1, <2>5 DEF PinsByPhase
  <2>7. PairsOfPlan' /\ ModelsFound' /\ PlanGaveUp'
    BY <1>3, <2>1
  <2> QED  BY <1>0, <2>1, <2>6, <2>7
<1>8. CASE UNCHANGED vars
  <2>1. UNCHANGED <<input, phase, pairs, discovered, pins, pinIndex>>
    BY <1>8 DEF vars
  <2>2. /\ Args' = Args /\ PinPool' = PinPool /\ OrtPins' = OrtPins
        /\ ManagerPins' = ManagerPins /\ Plan' = Plan /\ Wanted' = Wanted
        /\ OrtThreads' = OrtThreads
        /\ \A k \in Nat : CorePins(k)' = CorePins(k)
    BY <2>1, PinsKept
  <2>3. PairsOfPlan' /\ PlanGaveUp'
    BY <2>1, <2>2 DEF PairsOfPlan, PlanGaveUp
  <2>4. ModelsFound'
    BY <2>1, <2>2 DEF ModelsFound, Filtered
  <2>5. \A n \in Nat : PinnedCores(n)' <=> PinnedCores(n)
    BY <2>1, <2>2 DEF PinnedCores
  <2>6. PinsByPhase'
    BY <1>0, <2>1, <2>2, <2>5 DEF PinsByPhase
  <2> QED  BY <2>1, <2>3, <2>4, <2>6
<1> QED  BY <1>1, <1>2, <1>4, <1>5, <1>6, <1>7, <1>8 DEF Next

LEMMA Invariance == Spec => []StartupInv
BY InitInvariant, NextInvariant, PTL DEF Spec

-------------------------------------------------------------------------------
(***************************************************************************)
(* What the invariant says.                                                *)
(***************************************************************************)
LEMMA RoundRobinIn ==
    ASSUME NEW s \in Seq(Nat), s # <<>>, NEW i \in Int
    PROVE  /\ i % Len(s) \in Nat /\ (i % Len(s)) + 1 \in DOMAIN s
           /\ RoundRobin(s, i) = s[(i % Len(s)) + 1]
           /\ RoundRobin(s, i) \in ToSet(s)
<1>1. PICK n \in Nat \ {0} : n = Len(s) /\ DOMAIN s = 1 .. n
  OBVIOUS
<1>2. i % n \in Nat /\ i % n < n
  BY <1>1, Division
<1>3. (i % Len(s)) + 1 \in DOMAIN s /\ i % Len(s) \in Nat
  BY <1>1, <1>2
<1>4. RoundRobin(s, i) = s[(i % Len(s)) + 1]
  BY DEF RoundRobin
<1> QED  BY <1>3, <1>4 DEF ToSet

\* The cpuset has every CPU once, and the pool is a part of it.
LEMMA CpuLists ==
    ASSUME input \in [args : CliArgs, machine : Machines, repo : Repositories]
    PROVE  /\ Cpus \in Seq(Nat) /\ ToSet(Cpus) \subseteq DOMAIN input.machine.sibs
           /\ ToSet(Cpus) \subseteq Nat
           /\ \A i, j \in DOMAIN Cpus : Cpus[i] = Cpus[j] => i = j
           /\ PinPool \in Seq(Nat) /\ ToSet(PinPool) \subseteq ToSet(Cpus)
           /\ Args.sqpoll => ToSet(PinPool) \cap Reserved(pairs) = {}
<1> DEFINE online == DOMAIN input.machine.sibs
           P == {i \in DOMAIN Cpus : Cpus[i] \notin Reserved(pairs)}
<1>1. input.machine \in Machines
  BY ArgTypes
<1>2. /\ Cpus \in Seq(online) /\ online \subseteq Nat
      /\ \A i, j \in DOMAIN Cpus : i < j => Cpus[i] < Cpus[j]
  BY <1>1, MachineAssumption DEF Cpus
<1>3. \A i \in DOMAIN Cpus : Cpus[i] \in online
  BY <1>2
<1>4. /\ ToSet(Cpus) \subseteq online /\ ToSet(Cpus) \subseteq Nat
      /\ Cpus \in Seq(Nat)
  <2>1. ToSet(Cpus) \subseteq online
    BY <1>3 DEF ToSet
  <2>2. Cpus \in Seq(Nat)
    BY <1>2, <1>3
  <2> QED  BY <1>2, <2>1, <2>2
<1>5. ASSUME NEW i \in DOMAIN Cpus, NEW j \in DOMAIN Cpus, Cpus[i] = Cpus[j]
      PROVE  i = j
  <2>1. i \in Nat /\ j \in Nat /\ Cpus[i] \in Nat /\ Cpus[j] \in Nat
    BY <1>2, <1>3
  <2>2. ~(i < j) /\ ~(j < i)
    BY <1>2, <1>5, <2>1
  <2> QED  BY <2>1, <2>2
<1>6. /\ Unreserved(Cpus, pairs) \in Seq(Nat)
      /\ \A i \in DOMAIN Unreserved(Cpus, pairs) : \E j \in P :
            Unreserved(Cpus, pairs)[i] = Cpus[j]
  <2>1. Unreserved(Cpus, pairs) = Picked(Cpus, P) /\ P \subseteq DOMAIN Cpus
    BY DEF Unreserved
  <2> HIDE DEF P
  <2>2. /\ Picked(Cpus, P) \in Seq(Nat)
        /\ DOMAIN Picked(Cpus, P) = 1 .. Cardinality(P)
        /\ \A i \in 1 .. Cardinality(P) :
                Ascending(P)[i] \in P /\ Picked(Cpus, P)[i] = Cpus[Ascending(P)[i]]
    BY <1>4, <2>1, PickedElements
  <2> QED  BY <2>1, <2>2
<1>7. /\ ToSet(Unreserved(Cpus, pairs)) \subseteq ToSet(Cpus)
      /\ ToSet(Unreserved(Cpus, pairs)) \cap Reserved(pairs) = {}
  BY <1>6 DEF ToSet
<1> QED  BY <1>4, <1>5, <1>6, <1>7 DEF PinPool

\* The pairs are none or those of the plan.
LEMMA PairsPlanned ==
    ASSUME StartupInv
    PROVE  /\ pairs \in Seq(PairType)
           /\ \A k \in DOMAIN pairs :
                /\ pairs[k].runtime_vcpu \in ToSet(Cpus)
                /\ pairs[k].sqpoll_vcpu \in ToSet(Cpus)
                /\ input.machine.node[pairs[k].runtime_vcpu] = pairs[k].numa_node
                /\ input.machine.node[pairs[k].sqpoll_vcpu] = pairs[k].numa_node
           /\ \A k, l \in DOMAIN pairs :
                /\ CoreOf(pairs[k].runtime_vcpu) # CoreOf(pairs[l].sqpoll_vcpu)
                /\ pairs[k].runtime_vcpu = pairs[l].runtime_vcpu => k = l
                /\ pairs[k].sqpoll_vcpu = pairs[l].sqpoll_vcpu => k = l
<1>1. input.machine \in Machines /\ Args.processingCores \in Nat
  BY ArgTypes DEF StartupInv
<1>2. CASE pairs = <<>>
  BY <1>2
<1>3. CASE pairs # <<>>
  <2>1. pairs = Plan
    BY <1>3 DEF StartupInv, PairsOfPlan
  <2>2. /\ Plan \in Seq(PairType)
        /\ \A k \in DOMAIN Plan :
            /\ {Plan[k].runtime_vcpu, Plan[k].sqpoll_vcpu} \subseteq ToSet(Cpus)
            /\ input.machine.node[Plan[k].runtime_vcpu] = Plan[k].numa_node
            /\ input.machine.node[Plan[k].sqpoll_vcpu] = Plan[k].numa_node
        /\ \A k, l \in DOMAIN Plan :
            /\ input.machine.sibs[Plan[k].runtime_vcpu]
                    # input.machine.sibs[Plan[l].sqpoll_vcpu]
            /\ Plan[k].runtime_vcpu = Plan[l].runtime_vcpu => k = l
            /\ Plan[k].sqpoll_vcpu = Plan[l].sqpoll_vcpu => k = l
    BY <1>1, PlanKeepsApart DEF Plan
  <2> QED  BY <2>1, <2>2 DEF CoreOf
<1> QED  BY <1>2, <1>3

(***************************************************************************)
(* Every thread is pinned to a CPU of the cpuset, and everything else has  *)
(* its type.                                                               *)
(***************************************************************************)
LEMMA PinsTyped ==
    ASSUME StartupInv
    PROVE  /\ pins \subseteq [role : {"ort", "manager", "executor", "processing",
                                      "sqpoll"},
                              number : Nat, cpu : ToSet(Cpus)]
           /\ pinIndex \in Nat
<1> DEFINE PinType == [role : {"ort", "manager", "executor", "processing",
                               "sqpoll"},
                       number : Nat, cpu : ToSet(Cpus)]
<1>1. /\ input \in [args : CliArgs, machine : Machines, repo : Repositories]
      /\ Args.processingCores \in Nat /\ Args.executorCores \in Nat
      /\ Args.ortIntraThreads \in Nat
  BY ArgTypes DEF StartupInv
<1>2. /\ Cpus \in Seq(Nat) /\ PinPool \in Seq(Nat)
      /\ ToSet(PinPool) \subseteq ToSet(Cpus)
  BY <1>1, CpuLists
<1>3. ASSUME OrtThreads # {} => PinPool # <<>> PROVE OrtPins \subseteq PinType
  <2> SUFFICES ASSUME NEW i \in OrtThreads PROVE Pin("ort", i, OrtCpu(i)) \in PinType
    BY DEF OrtPins
  <2>1. i \in Nat /\ PinPool # <<>>
    BY <1>1, <1>3 DEF OrtThreads
  <2>2. OrtCpu(i) \in ToSet(PinPool)
    <3>1. /\ 1 + Args.executorCores + i \in Int
          /\ 1 + Args.executorCores + Args.processingCores + i \in Int
      BY <1>1, <2>1
    <3> QED  BY <1>2, <2>1, <3>1, RoundRobinIn DEF OrtCpu
  <2> QED  BY <1>2, <2>1, <2>2 DEF Pin
<1>4. ASSUME PinPool # <<>> PROVE ManagerPins \subseteq PinType
  <2>1. RoundRobin(PinPool, 0) \in ToSet(Cpus)
    BY <1>2, <1>4, RoundRobinIn
  <2>2. \A i \in 0 .. Args.executorCores - 1 :
            i \in Nat /\ RoundRobin(PinPool, 1 + i) \in ToSet(Cpus)
    <3> TAKE i \in 0 .. Args.executorCores - 1
    <3>1. 1 + i \in Int /\ i \in Nat
      OBVIOUS
    <3>2. RoundRobin(PinPool, 1 + i) \in ToSet(PinPool)
      BY <1>2, <1>4, <3>1, RoundRobinIn
    <3> QED  BY <1>2, <3>1, <3>2
  <2> QED  BY <2>1, <2>2 DEF ManagerPins, Pin
<1>5. ASSUME NEW n \in Nat, Args.cpuPinning, PinnedCores(n),
             phase \in {"processing", "loading"}
      PROVE  CorePins(n) \subseteq PinType
  <2>1. n <= Args.processingCores /\ PinPool # <<>>
    BY <1>5 DEF PinnedCores
  <2>2. CASE Args.sqpoll
    <3>1. Len(pairs) = Args.processingCores
      BY <1>5, <2>2 DEF StartupInv, PairsOfPlan
    <3>2. /\ pairs \in Seq(PairType)
          /\ \A k \in DOMAIN pairs : /\ pairs[k].runtime_vcpu \in ToSet(Cpus)
                                    /\ pairs[k].sqpoll_vcpu \in ToSet(Cpus)
      BY PairsPlanned
    <3>3. \A i \in 0 .. n - 1 : i \in Nat /\ i + 1 \in DOMAIN pairs
      BY <1>1, <2>1, <3>1, <3>2
    <3> QED  BY <2>2, <3>2, <3>3 DEF CorePins, Pin
  <2>3. CASE ~Args.sqpoll
    <3>1. Cpus # <<>>
      BY <2>1, <2>3 DEF PinPool
    <3>2. \A i \in 0 .. n - 1 : /\ i \in Nat
            /\ RoundRobin(Cpus, 1 + Args.executorCores + i) \in ToSet(Cpus)
      <4> TAKE i \in 0 .. n - 1
      <4>1. i \in Nat /\ 1 + Args.executorCores + i \in Int
        BY <1>1
      <4> QED  BY <1>2, <3>1, <4>1, RoundRobinIn
    <3> QED  BY <2>3, <3>2 DEF CorePins, Pin
  <2> QED  BY <2>2, <2>3
<1>6. ASSUME NEW n \in Nat, PinnedCores(n), phase \in {"processing", "loading"}
      PROVE  pins \subseteq PinType /\ pinIndex \in Nat
  <2>1. CASE Args.cpuPinning
    <3>1. PinPool # <<>>
      BY <1>6, <2>1 DEF PinnedCores
    <3>2. OrtPins \subseteq PinType /\ ManagerPins \subseteq PinType
      BY <1>3, <1>4, <3>1
    <3>3. CorePins(n) \subseteq PinType
      BY <1>5, <1>6, <2>1
    <3>4. pins = OrtPins \cup ManagerPins \cup CorePins(n)
      BY <1>6, <2>1 DEF PinnedCores
    <3>5. pinIndex \in Nat
      BY <1>1, <1>6, <2>1 DEF PinnedCores
    <3> HIDE DEF PinType
    <3> QED  BY <3>2, <3>3, <3>4, <3>5
  <2>2. CASE ~Args.cpuPinning
    BY <1>1, <1>6, <2>2 DEF PinnedCores
  <2> QED  BY <2>1, <2>2
<1> HIDE DEF PinType
<1>7. pins \subseteq PinType /\ pinIndex \in Nat
  <2>1. CASE phase = "manager"
    BY <1>3, <2>1 DEF StartupInv, PinsByPhase
  <2>2. CASE phase = "processing"
    BY <1>6, <2>2 DEF StartupInv, PinsByPhase
  <2>3. CASE phase = "loading"
    BY <1>1, <1>6, <2>3 DEF StartupInv, PinsByPhase
  <2>4. CASE phase \notin {"manager", "processing", "loading"}
    BY <2>4 DEF StartupInv, PinsByPhase
  <2> QED  BY <2>1, <2>2, <2>3, <2>4
<1> QED  BY <1>7 DEF PinType

\* The versions of a model, and what its load gives.
LEMMA MaxInSet ==
    ASSUME NEW S, IsFiniteSet(S), S \subseteq Int, S # {}
    PROVE  Max(S) \in S /\ \A x \in S : x <= Max(S)
<1> DEFINE n == Cardinality(S)
           a == Ascending(S)
<1>1. /\ n \in Nat /\ a \in [1 .. n -> S]
      /\ \A i, j \in 1 .. n : i < j => a[i] < a[j]
      /\ \A x \in S : \E i \in 1 .. n : a[i] = x
  BY AscendingOrder
<1> HIDE DEF n, a
<1>2. n \in 1 .. n
  <2>1. 1 .. n # {}
    BY <1>1
  <2> QED  BY <1>1, <2>1
<1>3. \E x \in S : \A y \in S : x >= y
  <2>1. a[n] \in S
    BY <1>1, <1>2
  <2>2. \A y \in S : a[n] >= y
    <3> TAKE y \in S
    <3>1. PICK i \in 1 .. n : a[i] = y
      BY <1>1
    <3>2. i < n \/ i = n
      BY <1>1
    <3>3. y \in Int /\ a[n] \in Int
      BY <2>1
    <3>4. i < n => y < a[n]
      BY <1>1, <1>2, <3>1
    <3> QED  BY <3>1, <3>2, <3>3, <3>4
  <2> QED  BY <2>1, <2>2
<1>4. Max(S) \in S /\ \A y \in S : Max(S) >= y
  BY <1>3 DEF Max
<1> QED  BY <1>4

LEMMA ModelsLoaded ==
    ASSUME StartupInv,
           phase \in {"affinity", "manager", "processing", "loading", "panic_no_cpu"}
    PROVE  /\ DOMAIN discovered = DOMAIN input.repo.dirs \cap Wanted
           /\ \A name \in DOMAIN discovered :
                LET versions == DOMAIN input.repo.dirs[name].versions
                IN  /\ versions \subseteq Nat
                    /\ discovered[name] \in
                            [version : Nat, config : {"root", "version"}]
                    /\ discovered[name].version \in versions
                    /\ \A v \in versions : v <= discovered[name].version
<1> DEFINE models == load_all(Args.source, input.repo, Wanted)
           dirs == input.repo.dirs
<1>1. input.repo \in Repositories
  BY ArgTypes DEF StartupInv
<1>2. discovered = [name \in DOMAIN models \cap Wanted |-> models[name]]
  BY DEF StartupInv, ModelsFound, Filtered
<1>3. \A name \in DOMAIN models : models[name] # Failed
  BY DEF StartupInv, ModelsFound, LoadFails
<1>4. DOMAIN models \cap Wanted = DOMAIN dirs \cap Wanted
  <2>1. CASE Args.source = "local"
    BY <2>1 DEF load_all, LocalModels
  <2>2. CASE Args.source # "local"
    <3>1. models = [name \in (DOMAIN dirs \cup input.repo.strays) \cap Wanted |->
                        IF name \in DOMAIN dirs THEN S3Model(dirs[name]) ELSE Failed]
      BY <2>2 DEF load_all, S3Models
    <3> HIDE DEF models
    <3>2. \A name \in input.repo.strays \cap Wanted : name \in DOMAIN dirs
      BY <1>3, <3>1
    <3>3. DOMAIN models = (DOMAIN dirs \cup input.repo.strays) \cap Wanted
      BY <3>1
    <3> QED  BY <3>2, <3>3
  <2> QED  BY <2>1, <2>2
<1>5. ASSUME NEW name \in DOMAIN dirs \cap Wanted
      PROVE  models[name] = LocalModel(dirs[name]) \/ models[name] = S3Model(dirs[name])
  <2>1. CASE Args.source = "local"
    BY <2>1 DEF load_all, LocalModels
  <2>2. CASE Args.source # "local"
    BY <2>2 DEF load_all, S3Models
  <2> QED  BY <2>1, <2>2
<1> HIDE DEF models
<1>6. ASSUME NEW name \in DOMAIN dirs \cap Wanted
      PROVE  LET versions == DOMAIN dirs[name].versions
             IN  /\ versions \subseteq Nat
                 /\ models[name] \in [version : Nat, config : {"root", "version"}]
                 /\ models[name].version \in versions
                 /\ \A v \in versions : v <= models[name].version
  <2> DEFINE versions == DOMAIN dirs[name].versions
             new == LatestVersion(dirs[name])
  <2>1. IsFiniteSet(versions) /\ versions \subseteq Nat
    BY <1>1, RepositoryAssumption
  <2>2. models[name] # Failed
    BY <1>3, <1>4
  <2>3. /\ versions # {}
        /\ \/ models[name] = [version |-> new, config |-> "version"]
           \/ models[name] = [version |-> new, config |-> "root"]
    <3>1. CASE models[name] = LocalModel(dirs[name])
      BY <2>2, <3>1 DEF LocalModel
    <3>2. CASE models[name] = S3Model(dirs[name])
      BY <2>2, <3>2 DEF S3Model
    <3> QED  BY <1>5, <3>1, <3>2
  <2>4. new \in versions /\ \A v \in versions : v <= new
    <3>1. versions \subseteq Int
      BY <2>1
    <3> HIDE DEF versions
    <3>2. Max(versions) \in versions /\ \A v \in versions : v <= Max(versions)
      BY <2>1, <2>3, <3>1, MaxInSet
    <3> QED  BY <3>2 DEF LatestVersion, versions
  <2>5. new \in Nat
    BY <2>1, <2>4
  <2> HIDE DEF new
  <2> QED  BY <2>1, <2>3, <2>4, <2>5
<1>7. DOMAIN discovered = DOMAIN dirs \cap Wanted
      /\ \A name \in DOMAIN discovered : discovered[name] = models[name]
  BY <1>2, <1>4
<1> QED  BY <1>6, <1>7

\* Every variable of Startup holds a value of its type, each pinned CPU one
\* of the cpuset (TypeOK).
THEOREM StartupTypeCorrect == Spec => []TypeOK
<1>1. ASSUME StartupInv PROVE TypeOK
  <2>1. pairs \in Seq([runtime_vcpu : ToSet(Cpus), sqpoll_vcpu : ToSet(Cpus),
                       numa_node : Nat])
    <3>1. pairs \in Seq(PairType) /\ \A k \in DOMAIN pairs :
                pairs[k].runtime_vcpu \in ToSet(Cpus) /\ pairs[k].sqpoll_vcpu \in ToSet(Cpus)
      BY <1>1, PairsPlanned
    <3> DEFINE Planned == [runtime_vcpu : ToSet(Cpus), sqpoll_vcpu : ToSet(Cpus),
                           numa_node : Nat]
    <3>2. ASSUME NEW k \in DOMAIN pairs PROVE pairs[k] \in Planned
      <4>1. pairs[k] \in PairType
        BY <3>1
      <4>2. /\ pairs[k] = [runtime_vcpu |-> pairs[k].runtime_vcpu,
                           sqpoll_vcpu |-> pairs[k].sqpoll_vcpu,
                           numa_node |-> pairs[k].numa_node]
            /\ pairs[k].numa_node \in Nat
        BY <4>1 DEF PairType
      <4> QED  BY <3>1, <4>2
    <3> HIDE DEF Planned
    <3>3. PICK n \in Nat : DOMAIN pairs = 1 .. n /\ pairs = [k \in 1 .. n |-> pairs[k]]
      BY <3>1
    <3>4. pairs \in [1 .. n -> Planned]
      BY <3>2, <3>3
    <3>5. pairs \in Seq(Planned)
      BY <3>4
    <3> QED  BY <3>5 DEF Planned
  <2>2. \A name \in DOMAIN discovered :
            discovered[name] \in [version : Nat, config : {"root", "version"}]
    <3>1. CASE phase \in {"affinity", "manager", "processing", "loading", "panic_no_cpu"}
      BY <1>1, <3>1, ModelsLoaded
    <3>2. CASE phase \notin {"affinity", "manager", "processing", "loading", "panic_no_cpu"}
      BY <1>1, <3>2 DEF StartupInv, ModelsFound
    <3> QED  BY <3>1, <3>2
  <2>3. /\ pins \subseteq [role : {"ort", "manager", "executor", "processing",
                                   "sqpoll"},
                           number : Nat, cpu : ToSet(Cpus)]
        /\ pinIndex \in Nat
    BY <1>1, PinsTyped
  <2> QED  BY <1>1, <2>1, <2>2, <2>3 DEF TypeOK, StartupInv
<1> QED  BY <1>1, Invariance, PTL

\* No core, of whatever machine, serves a runtime and a kernel thread, and
\* both CPUs of a pair are on its NUMA node (PairsKeepApart).
THEOREM PairsStayApart == Spec => []PairsKeepApart
<1>1. ASSUME StartupInv PROVE PairsKeepApart
  BY <1>1, PairsPlanned DEF PairsKeepApart
<1> QED  BY <1>1, Invariance, PTL

\* main goes on with the newest version of each model that was asked for and
\* is there, whatever the repository holds (NewestOfTheWanted).
THEOREM NewestModelsFound == Spec => []NewestOfTheWanted
<1>1. ASSUME StartupInv PROVE NewestOfTheWanted
  BY <1>1, ModelsLoaded DEF NewestOfTheWanted
<1> QED  BY <1>1, Invariance, PTL

\* The pins of ORT and of the manager are of the pool.
LEMMA PoolPins ==
    ASSUME StartupInv, PinPool # <<>>
    PROVE  \A q \in OrtPins \cup ManagerPins :
              q.cpu \in ToSet(PinPool) /\ q.role \in {"ort", "manager", "executor"}
<1>1. /\ input \in [args : CliArgs, machine : Machines, repo : Repositories]
      /\ Args.processingCores \in Nat /\ Args.executorCores \in Nat
      /\ Args.ortIntraThreads \in Nat
  BY ArgTypes DEF StartupInv
<1>2. PinPool \in Seq(Nat)
  BY <1>1, CpuLists
<1>3. ASSUME NEW i \in OrtThreads PROVE OrtCpu(i) \in ToSet(PinPool)
  <2>1. i \in Int
    BY <1>1 DEF OrtThreads
  <2>2. /\ 1 + Args.executorCores + i \in Int
        /\ 1 + Args.executorCores + Args.processingCores + i \in Int
    BY <1>1, <2>1
  <2> QED  BY <1>2, <2>2, RoundRobinIn DEF OrtCpu
<1>4. \A i \in 0 .. Args.executorCores - 1 : RoundRobin(PinPool, 1 + i) \in ToSet(PinPool)
  <2> TAKE i \in 0 .. Args.executorCores - 1
  <2>1. 1 + i \in Int
    OBVIOUS
  <2> QED  BY <1>2, <2>1, RoundRobinIn
<1>5. RoundRobin(PinPool, 0) \in ToSet(PinPool)
  BY <1>2, RoundRobinIn
<1> QED  BY <1>3, <1>4, <1>5 DEF OrtPins, ManagerPins, Pin

(***************************************************************************)
(* Under SQPOLL the CPU of a runtime, and that of its kernel thread, is    *)
(* the CPU of no other thread of the server (SqpollCpusAreDedicated).      *)
(***************************************************************************)
THEOREM SqpollDedicated == Spec => []SqpollCpusAreDedicated
<1>1. ASSUME StartupInv, Args.sqpoll, NEW p \in pins, NEW q \in pins,
             p.role \in {"processing", "sqpoll"}, p # q
      PROVE  p.cpu # q.cpu
  <2>1. /\ input \in [args : CliArgs, machine : Machines, repo : Repositories]
        /\ Args.processingCores \in Nat /\ Args.executorCores \in Nat
    BY <1>1, ArgTypes DEF StartupInv
  <2>2. phase \in {"processing", "loading"}
    <3>1. CASE phase = "manager"
      BY <1>1, <3>1 DEF StartupInv, PinsByPhase, OrtPins, Pin
    <3>2. CASE phase \notin {"manager", "processing", "loading"}
      BY <1>1, <3>2 DEF StartupInv, PinsByPhase
    <3> QED  BY <3>1, <3>2
  <2>3. Args.cpuPinning /\ Len(pairs) = Args.processingCores
    BY <1>1, <2>2 DEF StartupInv, PairsOfPlan
  <2>4. PICK n \in Nat : PinnedCores(n)
    BY <1>1, <2>1, <2>2 DEF StartupInv, PinsByPhase
  <2>5. /\ PinPool # <<>> /\ n <= Args.processingCores
        /\ pins = OrtPins \cup ManagerPins \cup CorePins(n)
    BY <2>3, <2>4 DEF PinnedCores
  <2>6. \A o \in OrtPins \cup ManagerPins :
            o.cpu \in ToSet(PinPool) /\ o.role \in {"ort", "manager", "executor"}
    BY <1>1, <2>5, PoolPins
  <2>7. ToSet(PinPool) \cap Reserved(pairs) = {}
    BY <1>1, <2>1, CpuLists
  <2>8. /\ pairs \in Seq(PairType)
        /\ \A k, l \in DOMAIN pairs :
            /\ CoreOf(pairs[k].runtime_vcpu) # CoreOf(pairs[l].sqpoll_vcpu)
            /\ pairs[k].runtime_vcpu = pairs[l].runtime_vcpu => k = l
            /\ pairs[k].sqpoll_vcpu = pairs[l].sqpoll_vcpu => k = l
    BY <1>1, PairsPlanned
  <2>9. \A i \in 0 .. n - 1 : i + 1 \in DOMAIN pairs
    BY <2>1, <2>3, <2>5, <2>8
  <2>10. \A o \in CorePins(n) : \E i \in 0 .. n - 1 :
            \/ o = Pin("processing", i, pairs[i + 1].runtime_vcpu)
            \/ o = Pin("sqpoll", i, pairs[i + 1].sqpoll_vcpu)
    BY <1>1 DEF CorePins
  <2>11. p \in CorePins(n)
    BY <1>1, <2>5, <2>6
  <2>12. PICK i \in 0 .. n - 1 :
            \/ p = Pin("processing", i, pairs[i + 1].runtime_vcpu)
            \/ p = Pin("sqpoll", i, pairs[i + 1].sqpoll_vcpu)
    BY <2>10, <2>11
  <2>13. CASE q \in OrtPins \cup ManagerPins
    <3>1. p.cpu \in Reserved(pairs)
      BY <2>9, <2>12 DEF Reserved, Pin
    <3> QED  BY <2>6, <2>7, <2>13, <3>1
  <2>14. CASE q \in CorePins(n)
    <3>1. PICK j \in 0 .. n - 1 :
            \/ q = Pin("processing", j, pairs[j + 1].runtime_vcpu)
            \/ q = Pin("sqpoll", j, pairs[j + 1].sqpoll_vcpu)
      BY <2>10, <2>14
    <3>2. i + 1 \in DOMAIN pairs /\ j + 1 \in DOMAIN pairs /\ (i + 1 = j + 1 => i = j)
      BY <2>9
    <3>3. /\ pairs[i + 1].runtime_vcpu # pairs[j + 1].sqpoll_vcpu
          /\ pairs[j + 1].runtime_vcpu # pairs[i + 1].sqpoll_vcpu
      BY <2>8, <3>2
    <3>4. i # j => /\ pairs[i + 1].runtime_vcpu # pairs[j + 1].runtime_vcpu
                   /\ pairs[i + 1].sqpoll_vcpu # pairs[j + 1].sqpoll_vcpu
      BY <2>8, <3>2
    <3> QED  BY <1>1, <2>12, <3>1, <3>3, <3>4 DEF Pin
  <2> QED  BY <2>5, <2>13, <2>14
<1>2. StartupInv => SqpollCpusAreDedicated
  BY <1>1 DEF SqpollCpusAreDedicated
<1> QED  BY <1>2, Invariance, PTL

-------------------------------------------------------------------------------
(***************************************************************************)
(* Without SQPOLL: the place of each thread in the round robin over the    *)
(* cpuset.                                                                 *)
(***************************************************************************)
PlaceOf(p) ==
    CASE p.role = "manager"    -> 0
      [] p.role = "executor"   -> 1 + p.number
      [] p.role = "processing" -> 1 + Args.executorCores + p.number
      [] OTHER -> 1 + Args.executorCores + Args.processingCores + p.number

\* All places.
Places == 1 + Args.executorCores + Args.processingCores + Cardinality(OrtThreads)

LEMMA PinsInPlaces ==
    ASSUME StartupInv, phase = "loading", ~Args.sqpoll, Args.cpuPinning
    PROVE  /\ Places \in Nat
           /\ \A p \in pins : /\ PlaceOf(p) \in 0 .. Places - 1
                              /\ p.cpu = RoundRobin(Cpus, PlaceOf(p))
           /\ \A p, q \in pins : PlaceOf(p) = PlaceOf(q) => p = q
           /\ \A x \in 0 .. Places - 1 : \E p \in pins : PlaceOf(p) = x
<1> DEFINE E == Args.executorCores
           C == Args.processingCores
           T == Cardinality(OrtThreads)
<1>1. E \in Nat /\ C \in Nat /\ Args.ortIntraThreads \in Nat
  BY ArgTypes DEF StartupInv
<1>2. T \in Nat /\ OrtThreads = 0 .. T - 1
  <2>1. PICK k \in Int : k = Args.ortIntraThreads - 2 /\ OrtThreads = 0 .. k
    BY <1>1 DEF OrtThreads
  <2>2. T = IF 0 > k THEN 0 ELSE k - 0 + 1
    <3>1. Cardinality(0 .. k) = IF 0 > k THEN 0 ELSE k - 0 + 1
      BY FS_Interval
    <3> QED  BY <2>1, <3>1, Zenon
  <2>3. T \in Nat /\ 0 .. k = 0 .. T - 1
    <3>1. PICK t \in Int : t = T
      BY <2>2
    <3>2. t \in Nat /\ 0 .. k = 0 .. t - 1
      BY <2>2, <3>1
    <3> QED  BY <3>1, <3>2
  <2> QED  BY <2>1, <2>3
<1>3. pins = OrtPins \cup ManagerPins \cup CorePins(C)
  BY DEF StartupInv, PinsByPhase, PinnedCores
<1> HIDE DEF T, E, C
<1>4. PinPool = Cpus
  BY DEF PinPool
<1>5. OrtPins = {Pin("ort", i, RoundRobin(Cpus, 1 + E + C + i)) : i \in 0 .. T - 1}
  BY <1>2, <1>4 DEF OrtPins, OrtCpu, E, C
<1>6. ManagerPins = {Pin("manager", 0, RoundRobin(Cpus, 0))}
        \cup {Pin("executor", i, RoundRobin(Cpus, 1 + i)) : i \in 0 .. E - 1}
  BY <1>4 DEF ManagerPins, E
<1>7. CorePins(C) = {Pin("processing", i, RoundRobin(Cpus, 1 + E + i)) : i \in 0 .. C - 1}
  BY DEF CorePins, E
<1>8. \A p \in pins :
        \/ p = Pin("manager", 0, RoundRobin(Cpus, 0))
        \/ \E i \in 0 .. E - 1 : p = Pin("executor", i, RoundRobin(Cpus, 1 + i))
        \/ \E i \in 0 .. C - 1 : p = Pin("processing", i, RoundRobin(Cpus, 1 + E + i))
        \/ \E i \in 0 .. T - 1 : p = Pin("ort", i, RoundRobin(Cpus, 1 + E + C + i))
  BY <1>3, <1>5, <1>6, <1>7
<1>9. /\ PlaceOf(Pin("manager", 0, RoundRobin(Cpus, 0))) = 0
      /\ \A i, c : /\ PlaceOf(Pin("executor", i, c)) = 1 + i
                   /\ PlaceOf(Pin("processing", i, c)) = 1 + E + i
                   /\ PlaceOf(Pin("ort", i, c)) = 1 + E + C + i
  BY DEF PlaceOf, Pin, E, C
<1>10. Places = 1 + E + C + T
  BY DEF Places, E, C, T
<1>11. \A p \in pins :
        \/ p = Pin("manager", 0, RoundRobin(Cpus, 0)) /\ PlaceOf(p) = 0
        \/ \E i \in 0 .. E - 1 : /\ p = Pin("executor", i, RoundRobin(Cpus, 1 + i))
                                 /\ PlaceOf(p) = 1 + i
        \/ \E i \in 0 .. C - 1 : /\ p = Pin("processing", i, RoundRobin(Cpus, 1 + E + i))
                                 /\ PlaceOf(p) = 1 + E + i
        \/ \E i \in 0 .. T - 1 : /\ p = Pin("ort", i, RoundRobin(Cpus, 1 + E + C + i))
                                 /\ PlaceOf(p) = 1 + E + C + i
  BY <1>8, <1>9
<1>12. \A p \in pins : /\ PlaceOf(p) \in 0 .. Places - 1
                       /\ p.cpu = RoundRobin(Cpus, PlaceOf(p))
  BY <1>1, <1>2, <1>10, <1>11 DEF Pin
<1>13. ASSUME NEW p \in pins, NEW q \in pins, PlaceOf(p) = PlaceOf(q) PROVE p = q
  <2>1. CASE PlaceOf(p) = 0
    <3>1. \A o \in pins : PlaceOf(o) = 0 => o = Pin("manager", 0, RoundRobin(Cpus, 0))
      <4> TAKE o \in pins
      <4>1. /\ \A i \in 0 .. E - 1 : 1 + i # 0
            /\ \A i \in 0 .. C - 1 : 1 + E + i # 0
            /\ \A i \in 0 .. T - 1 : 1 + E + C + i # 0
        BY <1>1, <1>2
      <4> QED  BY <1>11, <4>1
    <3> QED  BY <1>13, <2>1, <3>1
  <2>2. CASE PlaceOf(p) \in 1 .. E
    BY <1>1, <1>2, <1>11, <1>13, <2>2
  <2>3. CASE PlaceOf(p) \in 1 + E .. E + C
    BY <1>1, <1>2, <1>11, <1>13, <2>3
  <2>4. CASE PlaceOf(p) \in 1 + E + C .. E + C + T
    BY <1>1, <1>2, <1>11, <1>13, <2>4
  <2>5. PlaceOf(p) \in 0 .. E + C + T
    BY <1>1, <1>2, <1>10, <1>12
  <2> QED  BY <1>1, <1>2, <2>1, <2>2, <2>3, <2>4, <2>5
<1>14. ASSUME NEW x \in 0 .. Places - 1 PROVE \E p \in pins : PlaceOf(p) = x
  <2>1. x \in 0 .. E + C + T
    BY <1>1, <1>2, <1>10, <1>14
  <2>2. CASE x = 0
    <3>1. Pin("manager", 0, RoundRobin(Cpus, 0)) \in pins
      BY <1>3, <1>6
    <3> QED  BY <1>9, <2>2, <3>1
  <2>3. CASE x \in 1 .. E
    <3>1. x - 1 \in 0 .. E - 1 /\ 1 + (x - 1) = x
      BY <1>1, <2>3
    <3>2. Pin("executor", x - 1, RoundRobin(Cpus, 1 + (x - 1))) \in pins
      BY <1>3, <1>6, <3>1
    <3> QED  BY <1>9, <3>1, <3>2
  <2>4. CASE x \in 1 + E .. E + C
    <3>1. x - 1 - E \in 0 .. C - 1 /\ 1 + E + (x - 1 - E) = x
      BY <1>1, <2>4
    <3>2. Pin("processing", x - 1 - E, RoundRobin(Cpus, 1 + E + (x - 1 - E))) \in pins
      BY <1>3, <1>7, <3>1
    <3> QED  BY <1>9, <3>1, <3>2
  <2>5. CASE x \in 1 + E + C .. E + C + T
    <3>1. x - 1 - E - C \in 0 .. T - 1 /\ 1 + E + C + (x - 1 - E - C) = x
      BY <1>1, <1>2, <2>5
    <3>2. Pin("ort", x - 1 - E - C, RoundRobin(Cpus, 1 + E + C + (x - 1 - E - C))) \in pins
      BY <1>3, <1>5, <3>1
    <3> QED  BY <1>9, <3>1, <3>2
  <2> QED  BY <1>1, <1>2, <2>1, <2>2, <2>3, <2>4, <2>5
<1> QED  BY <1>1, <1>2, <1>10, <1>12, <1>13, <1>14

\* Places of the round robin that fall on position j of n.
Shares(n, K, j) == {x \in 0 .. K - 1 : x % n = j}

\* Any two positions get the same number of places, but one.
LEMMA SharesEven ==
    ASSUME NEW n \in Nat \ {0}, NEW K \in Nat,
           NEW i \in 0 .. n - 1, NEW j \in 0 .. n - 1
    PROVE  /\ IsFiniteSet(Shares(n, K, i)) /\ IsFiniteSet(Shares(n, K, j))
           /\ Cardinality(Shares(n, K, i)) <= Cardinality(Shares(n, K, j)) + 1
<1> DEFINE A == Shares(n, K, i)
           B == Shares(n, K, j)
           g == [x \in A \ {i} |-> x - i - n + j]
<1>1. IsFiniteSet(A) /\ IsFiniteSet(B)
  <2>1. IsFiniteSet(0 .. K - 1)
    BY FS_Interval
  <2>2. A \in SUBSET (0 .. K - 1) /\ B \in SUBSET (0 .. K - 1)
    BY DEF Shares
  <2> QED  BY <2>1, <2>2, FS_Subset
<1>2. ASSUME NEW x \in A \ {i} PROVE x - i - n + j \in B
  <2>1. x \in 0 .. K - 1 /\ x % n = i /\ x # i
    BY DEF Shares
  <2>2. PICK q \in Int : x = q * n + i
    <3>1. x \in Int
      BY <2>1
    <3>2. PICK q \in Int : x = q * n + (x % n)
      BY <3>1, Division
    <3> QED  BY <2>1, <3>2
  <2>3. q # 0
    BY <2>1, <2>2
  <2>4. q >= 1
    <3> SUFFICES ASSUME q < 0 PROVE FALSE
      BY <2>3
    <3>1. PICK m \in Int : m = q * n
      BY SMT
    <3>2. m <= -n
      BY <3>1, SMT
    <3> QED  BY <2>1, <2>2, <3>1, <3>2
  <2>5. PICK m \in Int : m = (q - 1) * n
    BY SMT
  <2>6. q * n = m + n /\ m >= 0
    BY <2>4, <2>5, SMT
  <2>7. x - i - n + j = m + j
    BY <2>1, <2>2, <2>6
  <2>8. m + j \in 0 .. K - 1
    BY <2>1, <2>2, <2>6
  <2>9. (m + j) % n = j
    <3>1. q - 1 \in Int /\ j \in Nat /\ j < n
      OBVIOUS
    <3>2. ((q - 1) * n + j) % n = j
      BY <3>1, RemainderUnique
    <3> QED  BY <2>5, <3>2
  <2> QED  BY <2>7, <2>8, <2>9 DEF Shares
<1>3. g \in Injection(A \ {i}, B)
  <2>1. g \in [A \ {i} -> B]
    BY <1>2
  <2>2. \A x, y \in A \ {i} : g[x] = g[y] => x = y
    <3> TAKE x, y \in A \ {i}
    <3>1. x \in Int /\ y \in Int
      BY DEF Shares
    <3>2. x - i - n + j = y - i - n + j => x = y
      BY <3>1
    <3> HIDE DEF A
    <3> QED  BY <3>2
  <2> HIDE DEF g, A, B
  <2> QED  BY <2>1, <2>2, Fun_IsInj
<1> HIDE DEF A, B, g
<1>4. Cardinality(A \ {i}) <= Cardinality(B)
  BY <1>1, <1>3, FS_Injection
<1>5. Cardinality(A) <= Cardinality(A \ {i}) + 1
  <2>1. Cardinality(A \ {i}) = IF i \in A THEN Cardinality(A) - 1 ELSE Cardinality(A)
    BY <1>1, FS_RemoveElement
  <2>2. Cardinality(A) \in Nat
    BY <1>1, FS_CardinalityType
  <2> QED  BY <2>1, <2>2
<1>6. Cardinality(A) \in Nat /\ Cardinality(B) \in Nat /\ Cardinality(A \ {i}) \in Nat
  BY <1>1, FS_CardinalityType, FS_RemoveElement
<1> QED  BY <1>1, <1>4, <1>5, <1>6 DEF A, B

(***************************************************************************)
(* Without SQPOLL no CPU gets two threads more than another, whatever the  *)
(* numbers of threads and CPUs (CpusUsedEvenly).                           *)
(***************************************************************************)
THEOREM UsedEvenly == Spec => []CpusUsedEvenly
<1>1. ASSUME StartupInv, phase = "loading", ~Args.sqpoll,
             NEW c \in ToSet(Cpus), NEW d \in ToSet(Cpus)
      PROVE  CpuLoad(c) <= CpuLoad(d) + 1
  <2>1. CASE ~Args.cpuPinning
    <3>1. pins = {}
      BY <1>1, <2>1 DEF StartupInv, PinsByPhase, PinnedCores
    <3>2. CpuLoad(c) = 0 /\ CpuLoad(d) = 0
      BY <3>1, FS_EmptySet DEF CpuLoad
    <3> QED  BY <3>2
  <2>2. CASE Args.cpuPinning
    <3> DEFINE n == Len(Cpus)
               On(x) == {p \in pins : p.cpu = x}
    <3>1. /\ Cpus \in Seq(Nat)
          /\ \A i, j \in DOMAIN Cpus : Cpus[i] = Cpus[j] => i = j
      BY <1>1, CpuLists DEF StartupInv
    <3>2. /\ Places \in Nat
          /\ \A p \in pins : /\ PlaceOf(p) \in 0 .. Places - 1
                             /\ p.cpu = RoundRobin(Cpus, PlaceOf(p))
          /\ \A p, q \in pins : PlaceOf(p) = PlaceOf(q) => p = q
          /\ \A x \in 0 .. Places - 1 : \E p \in pins : PlaceOf(p) = x
      BY <1>1, <2>2, PinsInPlaces
    <3>3. PICK i \in DOMAIN Cpus : Cpus[i] = c
      BY DEF ToSet
    <3>4. PICK j \in DOMAIN Cpus : Cpus[j] = d
      BY DEF ToSet
    <3>5. /\ n \in Nat \ {0} /\ DOMAIN Cpus = 1 .. n /\ Cpus # <<>>
          /\ i - 1 \in 0 .. n - 1 /\ j - 1 \in 0 .. n - 1
      BY <3>1, <3>3, <3>4
    <3>6. ASSUME NEW k \in DOMAIN Cpus
          PROVE  Cardinality(Shares(n, Places, k - 1)) = Cardinality(On(Cpus[k]))
      <4> DEFINE S == Shares(n, Places, k - 1)
                 O == On(Cpus[k])
                 f == [p \in O |-> PlaceOf(p)]
      <4>1. IsFiniteSet(S)
        <5>1. k - 1 \in 0 .. n - 1
          BY <3>5
        <5> HIDE DEF n
        <5> QED  BY <3>2, <3>5, <5>1, SharesEven
      <4>2. ASSUME NEW p \in pins PROVE p.cpu = Cpus[k] <=> PlaceOf(p) \in S
        <5>1. PICK x \in 0 .. Places - 1 : x = PlaceOf(p) /\ p.cpu = RoundRobin(Cpus, x)
          BY <3>2
        <5>2. /\ x % n \in Nat /\ (x % n) + 1 \in DOMAIN Cpus
              /\ p.cpu = Cpus[(x % n) + 1]
          <6>1. x \in Int
            BY <5>1
          <6>2. /\ x % Len(Cpus) \in Nat /\ (x % Len(Cpus)) + 1 \in DOMAIN Cpus
                /\ RoundRobin(Cpus, x) = Cpus[(x % Len(Cpus)) + 1]
            BY <3>1, <3>5, <6>1, RoundRobinIn
          <6> QED  BY <5>1, <6>2
        <5>3. p.cpu = Cpus[k] <=> (x % n) + 1 = k
          BY <3>1, <5>2
        <5>4. (x % n) + 1 = k <=> x % n = k - 1
          <6>1. PICK r \in Nat : r = x % n
            BY <5>2
          <6>2. k \in Int
            BY <3>5
          <6>3. r + 1 = k <=> r = k - 1
            BY <6>2
          <6> QED  BY <6>1, <6>3
        <5> QED  BY <5>1, <5>3, <5>4 DEF Shares
      <4>3. f \in [O -> S] /\ \A x \in S : \E p \in O : f[p] = x
        <5>1. \A p \in O : PlaceOf(p) \in S
          BY <4>2
        <5>2. \A x \in S : \E p \in O : PlaceOf(p) = x
          <6> TAKE x \in S
          <6>1. x \in 0 .. Places - 1
            BY DEF Shares
          <6>2. PICK p \in pins : PlaceOf(p) = x
            BY <3>2, <6>1
          <6>3. p \in O
            BY <4>2, <6>2
          <6> QED  BY <6>2, <6>3
        <5> HIDE DEF O, S
        <5> QED  BY <5>1, <5>2
      <4>4. \A p, q \in O : f[p] = f[q] => p = q
        BY <3>2
      <4> HIDE DEF f, O, S
      <4>5. f \in Injection(O, S) /\ f \in Surjection(O, S)
        <5>1. f \in Injection(O, S)
          BY <4>3, <4>4, Fun_IsInj
        <5> QED  BY <4>3, <5>1 DEF Surjection
      <4>6. Cardinality(O) = Cardinality(S)
        BY <4>1, <4>5, FS_Injection
      <4> QED  BY <4>6 DEF O, S
    <3>7. Cardinality(Shares(n, Places, i - 1))
              <= Cardinality(Shares(n, Places, j - 1)) + 1
      <4> HIDE DEF n
      <4> QED  BY <3>2, <3>5, SharesEven
    <3>8. /\ CpuLoad(c) = Cardinality(Shares(n, Places, i - 1))
          /\ CpuLoad(d) = Cardinality(Shares(n, Places, j - 1))
      BY <3>3, <3>4, <3>6 DEF CpuLoad
    <3> QED  BY <3>7, <3>8
  <2> QED  BY <2>1, <2>2
<1>2. StartupInv => CpusUsedEvenly
  BY <1>1 DEF CpusUsedEvenly
<1> QED  BY <1>2, Invariance, PTL

-------------------------------------------------------------------------------
(***************************************************************************)
(* How many pairs there are: the sum over the nodes, and a place for every *)
(* pair that two cores of a node can give.                                 *)
(***************************************************************************)
\* The chunks that the whole cores of a node give.
ChunksOn(n) ==
    Cardinality({core \in WholeCores : input.machine.node[Min(core)] = n}) \div 2

NodeSet == {input.machine.node[c] : c \in DOMAIN input.machine.sibs}

ChunkUnits(S) == Units(S, [n \in S |-> ChunksOn(n)])

LEMMA SumOfChunks ==
    ASSUME NEW S, IsFiniteSet(S), \A n \in S : ChunksOn(n) \in Nat
    PROVE  MapThenSumSet(LAMBDA n : ChunksOn(n), S) = Cardinality(ChunkUnits(S))
<1> DEFINE Step(iter) ==
               [s \in SUBSET S |->
                    IF s = {} THEN 0
                    ELSE ChunksOn(CHOOSE x \in s : TRUE)
                            + iter[s \ {CHOOSE x \in s : TRUE}]]
           fold == CHOOSE iter : iter = Step(iter)
           sum == [s \in SUBSET S |-> Cardinality(ChunkUnits(s))]
<1>1. MapThenSumSet(LAMBDA n : ChunksOn(n), S) = fold[S]
  BY Zenon DEF MapThenSumSet, MapThenFoldSet
<1>2. ASSUME NEW s \in SUBSET S, s # {}
      PROVE  LET c == CHOOSE x \in s : TRUE
             IN  /\ c \in s /\ s \ {c} \in SUBSET S
                 /\ IsFiniteSet(s)
                 /\ Cardinality(ChunkUnits(s))
                        = ChunksOn(c) + Cardinality(ChunkUnits(s \ {c}))
  <2> DEFINE c == CHOOSE x \in s : TRUE
             f == [n \in s |-> ChunksOn(n)]
  <2>1. c \in s
    BY <1>2
  <2>2. IsFiniteSet(s) /\ f \in [s -> Nat] /\ f[c] = ChunksOn(c)
    BY <2>1, FS_Subset
  <2> HIDE DEF c
  <2>3. /\ Cardinality(Units(s \ {c}, f)) \in Nat
        /\ Cardinality(Units(s, f)) = Cardinality(Units(s \ {c}, f)) + f[c]
    <3> HIDE DEF f
    <3> QED  BY <2>1, <2>2, UnitsSplit
  <2>4. Units(s \ {c}, f) = ChunkUnits(s \ {c}) /\ Units(s, f) = ChunkUnits(s)
    BY DEF ChunkUnits, Units
  <2>5. f[c] \in Nat
    BY <2>1, <2>2
  <2>6. Cardinality(ChunkUnits(s)) = ChunksOn(c) + Cardinality(ChunkUnits(s \ {c}))
    <3> HIDE DEF f
    <3> QED  BY <2>2, <2>3, <2>4, <2>5
  <2> QED  BY <2>1, <2>2, <2>6 DEF c
<1>3. Cardinality(ChunkUnits({})) = 0
  <2>1. ChunkUnits({}) = {}
    BY DEF ChunkUnits, Units
  <2> QED  BY <2>1, FS_EmptySet
<1>4. sum = Step(sum)
  <2>1. ASSUME NEW s \in SUBSET S
        PROVE  sum[s] = IF s = {} THEN 0
                        ELSE ChunksOn(CHOOSE x \in s : TRUE)
                                + sum[s \ {CHOOSE x \in s : TRUE}]
    BY <1>2, <1>3
  <2> HIDE DEF sum
  <2>2. sum = [s \in SUBSET S |-> sum[s]]
    BY DEF sum
  <2> QED  BY <2>1, <2>2
<1> HIDE DEF sum
<1>5. fold = Step(fold)
  BY <1>4
<1> HIDE DEF fold
<1> DEFINE Wrong == {s \in SUBSET S : fold[s] # sum[s]}
           Sizes == {Cardinality(s) : s \in Wrong}
<1>6. Wrong = {}
  <2> SUFFICES ASSUME Wrong # {} PROVE FALSE
    OBVIOUS
  <2>1. \A s \in SUBSET S : IsFiniteSet(s) /\ Cardinality(s) \in Nat
    BY FS_Subset, FS_CardinalityType
  <2>2. PICK m \in Sizes : \A k \in Sizes : m <= k
    <3>1. Sizes \subseteq Nat /\ Sizes # {}
      BY <2>1
    <3> QED  BY <3>1, LeastNumber
  <2>3. PICK s \in Wrong : Cardinality(s) = m
    OBVIOUS
  <2>4. s \in SUBSET S /\ fold[s] # sum[s]
    OBVIOUS
  <2>5. s # {}
    <3>1. fold[{}] = 0 /\ sum[{}] = 0
      BY <1>3, <1>5 DEF sum
    <3> QED  BY <2>4, <3>1
  <2> DEFINE c == CHOOSE x \in s : TRUE
  <2>6. c \in s /\ s \ {c} \in SUBSET S /\ IsFiniteSet(s)
    BY <1>2, <2>4, <2>5
  <2>7. s \ {c} \notin Wrong
    <3>1. Cardinality(s \ {c}) = m - 1 /\ m \in Nat
      BY <2>1, <2>3, <2>4, <2>6, FS_RemoveElement
    <3>2. m - 1 \notin Sizes
      <4> HIDE DEF Sizes
      <4>1. ~(m <= m - 1)
        BY <3>1
      <4> QED  BY <2>2, <4>1
    <3> QED  BY <3>1, <3>2
  <2>8. fold[s \ {c}] = sum[s \ {c}]
    BY <2>6, <2>7
  <2>9. fold[s] = ChunksOn(c) + fold[s \ {c}]
    BY <1>5, <2>4, <2>5
  <2>10. sum[s] = ChunksOn(c) + sum[s \ {c}]
    <3>1. Cardinality(ChunkUnits(s)) = ChunksOn(c) + Cardinality(ChunkUnits(s \ {c}))
      BY <1>2, <2>4, <2>5
    <3> HIDE DEF c
    <3> QED  BY <2>4, <2>6, <3>1 DEF sum
  <2> HIDE DEF c
  <2> QED  BY <2>4, <2>8, <2>9, <2>10
<1>7. fold[S] = sum[S]
  BY <1>6
<1> QED  BY <1>1, <1>7 DEF sum

\* The cores that plan_pairs uses are the whole cores of the cpuset, each once.
LEMMA UsableCores ==
    ASSUME StartupInv
    PROVE  LET us == Usable(SmtGroups(input.machine), ToSet(Cpus))
           IN  /\ us \in Seq(GroupType) /\ CoresApart(input.machine, us)
               /\ \A a \in DOMAIN us :
                    /\ ToSet(us[a].vcpus) \in WholeCores
                    /\ Len(us[a].vcpus) = Cardinality(ToSet(us[a].vcpus))
                    /\ us[a].node = input.machine.node[Min(ToSet(us[a].vcpus))]
                    /\ us[a].node \in NodeSet
               /\ \A core \in WholeCores : \E a \in DOMAIN us :
                    ToSet(us[a].vcpus) = core
               /\ \A a, b \in DOMAIN us :
                    ToSet(us[a].vcpus) = ToSet(us[b].vcpus) => a = b
<1> DEFINE m == input.machine
           groups == SmtGroups(m)
           P == {i \in DOMAIN groups : ToSet(groups[i].vcpus) \subseteq ToSet(Cpus)}
           us == Usable(groups, ToSet(Cpus))
<1>1. m \in Machines
  BY ArgTypes DEF StartupInv
<1>2. CoresApart(m, us) /\ us \in Seq(GroupType)
  BY <1>1, UsableApart DEF CoresApart
<1>3. /\ groups \in Seq(GroupType)
      /\ \A a \in DOMAIN groups : \E c \in DOMAIN m.sibs :
            ToSet(groups[a].vcpus) = m.sibs[c]
      /\ \A c \in DOMAIN m.sibs : \E a \in DOMAIN groups :
            ToSet(groups[a].vcpus) = m.sibs[c]
      /\ \A a \in DOMAIN groups :
            Len(groups[a].vcpus) = Cardinality(ToSet(groups[a].vcpus))
  BY <1>1, GroupsApart DEF CoresApart
<1>4. /\ \A i \in DOMAIN us : \E j \in P : us[i] = groups[j]
      /\ \A j \in P : \E i \in DOMAIN us : us[i] = groups[j]
  <2>1. us = Picked(groups, P) /\ P \subseteq DOMAIN groups
    BY DEF Usable
  <2> HIDE DEF P, us, groups
  <2>2. /\ DOMAIN Picked(groups, P) = 1 .. Cardinality(P)
        /\ \A i \in 1 .. Cardinality(P) :
            /\ Ascending(P)[i] \in P
            /\ Picked(groups, P)[i] = groups[Ascending(P)[i]]
        /\ \A x \in P : \E i \in 1 .. Cardinality(P) : Ascending(P)[i] = x
    BY <1>3, <2>1, PickedElements
  <2> QED  BY <2>1, <2>2
<1>5. /\ \A i \in P : i \in DOMAIN groups /\ ToSet(groups[i].vcpus) \subseteq ToSet(Cpus)
      /\ \A i \in DOMAIN groups : ToSet(groups[i].vcpus) \subseteq ToSet(Cpus) => i \in P
  OBVIOUS
<1> HIDE DEF P, us, groups, m
<1>6. WholeCores = {core \in {m.sibs[c] : c \in DOMAIN m.sibs} :
                        core \subseteq ToSet(Cpus)}
  BY DEF WholeCores, CoreOf, m
<1>7. \A a \in DOMAIN us : /\ ToSet(us[a].vcpus) \in WholeCores
                          /\ Len(us[a].vcpus) = Cardinality(ToSet(us[a].vcpus))
  BY <1>3, <1>4, <1>5, <1>6
<1>8. ASSUME NEW core \in WholeCores
      PROVE  \E a \in DOMAIN us : ToSet(us[a].vcpus) = core
  <2>1. PICK c \in DOMAIN m.sibs : core = m.sibs[c] /\ core \subseteq ToSet(Cpus)
    BY <1>6
  <2>2. PICK j \in DOMAIN groups : ToSet(groups[j].vcpus) = core
    BY <1>3, <2>1
  <2>3. j \in P
    BY <1>5, <2>1, <2>2
  <2> QED  BY <1>4, <2>2, <2>3
<1>9. \A core \in WholeCores : core # {} /\ core \subseteq Nat /\ core \subseteq DOMAIN m.sibs
  BY <1>1, <1>6, MachineAssumption
<1>10. ASSUME NEW a \in DOMAIN us
       PROVE  /\ us[a].node = m.node[Min(ToSet(us[a].vcpus))]
              /\ us[a].node \in NodeSet
  <2>1. Min(ToSet(us[a].vcpus)) \in ToSet(us[a].vcpus)
    BY <1>7, <1>9, MinInSet
  <2>2. PICK e \in DOMAIN us[a].vcpus : Min(ToSet(us[a].vcpus)) = us[a].vcpus[e]
    BY <2>1 DEF ToSet
  <2>3. us[a].vcpus[e] \in DOMAIN m.sibs /\ m.node[us[a].vcpus[e]] = us[a].node
    BY <1>2 DEF CoresApart
  <2> QED  BY <2>2, <2>3 DEF NodeSet, m
<1>11. ASSUME NEW a \in DOMAIN us, NEW b \in DOMAIN us,
              ToSet(us[a].vcpus) = ToSet(us[b].vcpus)
       PROVE  a = b
  <2>1. ToSet(us[a].vcpus) # {}
    BY <1>7, <1>9
  <2>2. PICK e \in DOMAIN us[a].vcpus, f \in DOMAIN us[b].vcpus :
            us[a].vcpus[e] = us[b].vcpus[f]
    BY <1>11, <2>1 DEF ToSet
  <2> QED  BY <1>2, <2>2 DEF CoresApart
<1>12. /\ us \in Seq(GroupType) /\ CoresApart(m, us)
       /\ \A a \in DOMAIN us :
            /\ ToSet(us[a].vcpus) \in WholeCores
            /\ Len(us[a].vcpus) = Cardinality(ToSet(us[a].vcpus))
            /\ us[a].node = m.node[Min(ToSet(us[a].vcpus))]
            /\ us[a].node \in NodeSet
       /\ \A core \in WholeCores : \E a \in DOMAIN us : ToSet(us[a].vcpus) = core
       /\ \A a, b \in DOMAIN us : ToSet(us[a].vcpus) = ToSet(us[b].vcpus) => a = b
  BY <1>2, <1>7, <1>8, <1>10, <1>11
<1> QED  BY <1>12 DEF us, m, groups

\* plan_pairs cuts the cores of each node into as many chunks.
LEMMA ChunksOfNode ==
    ASSUME StartupInv, NEW n \in NodeSet,
           NEW us, us = Usable(SmtGroups(input.machine), ToSet(Cpus))
    PROVE  /\ ChunksOn(n) \in Nat
           /\ ChunksOn(n) # 0 =>
                \E k \in 1 .. Cardinality(NodesOf(us)) :
                    /\ Ascending(NodesOf(us))[k] = n
                    /\ Len(OnNth(us, k)) \div 2 = ChunksOn(n)
<1> DEFINE node(core) == input.machine.node[Min(core)]
           cores == {core \in WholeCores : node(core) = n}
           P == {i \in DOMAIN us : us[i].node = n}
           f == [i \in P |-> ToSet(us[i].vcpus)]
<1>1. /\ us \in Seq(GroupType)
      /\ \A a \in DOMAIN us :
            /\ ToSet(us[a].vcpus) \in WholeCores
            /\ us[a].node = node(ToSet(us[a].vcpus))
      /\ \A core \in WholeCores : \E a \in DOMAIN us : ToSet(us[a].vcpus) = core
      /\ \A a, b \in DOMAIN us : ToSet(us[a].vcpus) = ToSet(us[b].vcpus) => a = b
  BY UsableCores
<1> HIDE DEF node
<1>2. IsFiniteSet(P)
  <2>1. DOMAIN us = 1 .. Len(us) /\ Len(us) \in Nat /\ P \subseteq DOMAIN us
    BY <1>1
  <2>2. IsFiniteSet(1 .. Len(us))
    BY <2>1, FS_Interval
  <2> QED  BY <2>1, <2>2, FS_Subset
<1>3. f \in Surjection(P, cores)
  <2>1. \A i \in P : ToSet(us[i].vcpus) \in cores
    BY <1>1
  <2>2. \A core \in cores : \E i \in P : ToSet(us[i].vcpus) = core
    BY <1>1
  <2> HIDE DEF P, cores
  <2> QED  BY <2>1, <2>2 DEF Surjection
<1>4. f \in Injection(P, cores)
  <2>1. \A i, j \in P : f[i] = f[j] => i = j
    BY <1>1
  <2>2. f \in [P -> cores]
    BY <1>3 DEF Surjection
  <2> HIDE DEF f, P, cores
  <2> QED  BY <2>1, <2>2, Fun_IsInj
<1>5. Cardinality(cores) = Cardinality(P) /\ Cardinality(P) \in Nat
  <2> HIDE DEF f, P, cores
  <2> QED  BY <1>2, <1>3, <1>4, FS_Surjection, FS_CardinalityType
<1>6. ChunksOn(n) = Cardinality(P) \div 2
  BY <1>5 DEF ChunksOn, node
<1>7. ChunksOn(n) \in Nat
  <2>1. PICK c \in Nat : c = Cardinality(P)
    BY <1>5
  <2>2. c \div 2 \in Nat
    OBVIOUS
  <2> QED  BY <1>6, <2>1, <2>2
<1>8. ASSUME ChunksOn(n) # 0
      PROVE  \E k \in 1 .. Cardinality(NodesOf(us)) :
                /\ Ascending(NodesOf(us))[k] = n
                /\ Len(OnNth(us, k)) \div 2 = ChunksOn(n)
  <2>1. P # {}
    <3>1. Cardinality(P) # 0
      <4> HIDE DEF P
      <4>1. PICK c \in Nat : c = Cardinality(P)
        BY <1>5
      <4>2. c = 0 => c \div 2 = 0
        OBVIOUS
      <4> QED  BY <1>6, <1>8, <4>1, <4>2
    <3> QED  BY <3>1, FS_EmptySet
  <2>2. n \in NodesOf(us)
    BY <2>1 DEF NodesOf
  <2>3. PICK k \in 1 .. Cardinality(NodesOf(us)) : Ascending(NodesOf(us))[k] = n
    BY <1>1, <2>2, OnNthElements
  <2>4. Len(OnNth(us, k)) = Cardinality(P)
    <3>1. Len(OnNth(us, k)) = Cardinality({i \in DOMAIN us :
                                us[i].node = Ascending(NodesOf(us))[k]})
      BY <1>1, OnNthCount
    <3> QED  BY <2>3, <3>1
  <2> QED  BY <1>6, <2>3, <2>4
<1> QED  BY <1>7, <1>8

\* When every whole core has `width` siblings, there are that many pairs for
\* each chunk.
LEMMA PairsForChunks ==
    ASSUME StartupInv, NEW width \in Nat,
           \A core \in WholeCores : Cardinality(core) >= width,
           NEW us, us = Usable(SmtGroups(input.machine), ToSet(Cpus))
    PROVE  /\ IsFiniteSet(ChunkUnits(NodeSet))
           /\ width * Cardinality(ChunkUnits(NodeSet)) <= Len(AllPairs(us))
<1> DEFINE all == AllPairs(us)
           C == ChunkUnits(NodeSet)
           W == 1 .. width
           On(n) == CHOOSE k \in 1 .. Cardinality(NodesOf(us)) :
                        /\ Ascending(NodesOf(us))[k] = n
                        /\ Len(OnNth(us, k)) \div 2 = ChunksOn(n)
           At(k, i, e) == Starts(ByNode(us))[k] + (Starts(Chunks(OnNth(us, k)))[i] + e)
           place == [x \in C \X W |-> At(On(x[1][1]), x[1][2], x[2])]
<1>1. /\ us \in Seq(GroupType) /\ CoresApart(input.machine, us)
      /\ \A a \in DOMAIN us : /\ ToSet(us[a].vcpus) \in WholeCores
                              /\ Len(us[a].vcpus) = Cardinality(ToSet(us[a].vcpus))
  BY UsableCores
<1>2. IsFiniteSet(NodeSet)
  <2>1. input.machine \in Machines
    BY ArgTypes DEF StartupInv
  <2>2. IsFiniteSet(DOMAIN input.machine.sibs)
    BY <2>1, MachineAssumption
  <2> DEFINE g == [c \in DOMAIN input.machine.sibs |-> input.machine.node[c]]
  <2>3. g \in Surjection(DOMAIN input.machine.sibs, NodeSet)
    BY DEF Surjection, NodeSet
  <2> HIDE DEF g
  <2> QED  BY <2>2, <2>3, FS_Surjection
<1>3. \A n \in NodeSet : ChunksOn(n) \in Nat
  BY ChunksOfNode
<1>4. IsFiniteSet(C) /\ Cardinality(C) \in Nat
  <2>1. [n \in NodeSet |-> ChunksOn(n)] \in [NodeSet -> Nat]
    BY <1>3
  <2> QED  BY <1>2, <2>1, UnitsFinite DEF ChunkUnits
<1>5. \A u \in C : \E n \in NodeSet : \E i \in 1 .. ChunksOn(n) : u = <<n, i>>
  BY UnitsMember DEF ChunkUnits
<1>6. ASSUME NEW n \in NodeSet, NEW i \in 1 .. ChunksOn(n), NEW e \in W
      PROVE  /\ On(n) \in 1 .. Cardinality(NodesOf(us))
             /\ Ascending(NodesOf(us))[On(n)] = n
             /\ i \in 1 .. Len(OnNth(us, On(n))) \div 2
             /\ At(On(n), i, e) \in 1 .. Len(all)
             /\ LET a == CoreAt(us, On(n), 2 * i - 1)
                IN  /\ 2 * i - 1 \in DOMAIN OnNth(us, On(n))
                    /\ a \in DOMAIN us /\ e \in DOMAIN us[a].vcpus
                    /\ us[a].node = n
                    /\ all[At(On(n), i, e)].runtime_vcpu = us[a].vcpus[e]
  <2> DEFINE k == On(n)
             a == CoreAt(us, k, 2 * i - 1)
             chunk == Chunks(OnNth(us, k))[i]
  <2>1. ChunksOn(n) # 0
    BY <1>3
  <2>2. /\ k \in 1 .. Cardinality(NodesOf(us)) /\ Ascending(NodesOf(us))[k] = n
        /\ Len(OnNth(us, k)) \div 2 = ChunksOn(n)
    <3>1. \E j \in 1 .. Cardinality(NodesOf(us)) :
                /\ Ascending(NodesOf(us))[j] = n
                /\ Len(OnNth(us, j)) \div 2 = ChunksOn(n)
      BY <2>1, ChunksOfNode
    <3> QED  BY <3>1
  <2> HIDE DEF On
  <2>3. i \in 1 .. Len(OnNth(us, k)) \div 2
    BY <2>2
  <2>4. OnNth(us, k) \in Seq(GroupType)
    BY <1>1, <2>2, OnNthElements
  <2>5. /\ 2 * i - 1 \in DOMAIN OnNth(us, k) /\ 2 * i \in DOMAIN OnNth(us, k)
        /\ chunk = ChunkPairs(OnNth(us, k)[2 * i - 1], OnNth(us, k)[2 * i])
    BY <2>3, <2>4, NodePairsJoined
  <2>6. \A y \in DOMAIN OnNth(us, k) :
            /\ CoreAt(us, k, y) \in DOMAIN us
            /\ us[CoreAt(us, k, y)].node = n
            /\ OnNth(us, k)[y] = us[CoreAt(us, k, y)]
    BY <1>1, <2>2, CoreAtElements
  <2>7. e \in 1 .. Len(chunk)
    <3> DEFINE b == CoreAt(us, k, 2 * i)
    <3>1. a \in DOMAIN us /\ b \in DOMAIN us /\ chunk = ChunkPairs(us[a], us[b])
      BY <2>5, <2>6
    <3> HIDE DEF a, b, chunk
    <3>2. us[a] \in GroupType /\ us[b] \in GroupType
      BY <1>1, <3>1
    <3>3. /\ Len(us[a].vcpus) >= width /\ Len(us[b].vcpus) >= width
      BY <1>1, <3>1
    <3>4. chunk \in Seq(PairType) /\ Len(chunk) >= width
      BY <3>1, <3>2, <3>3, ChunkElements
    <3>5. PICK l \in Nat : l = Len(chunk)
      BY <3>4
    <3>6. e \in 1 .. l
      BY <3>4, <3>5
    <3> QED  BY <3>5, <3>6
  <2>8. At(k, i, e) \in 1 .. Len(all) /\ all[At(k, i, e)] = chunk[e]
    BY <1>1, <2>2, <2>3, <2>7, ChunkOfPair
  <2>9. FromCores(us, chunk[e], a, CoreAt(us, k, 2 * i), e)
    BY <1>1, <2>2, <2>3, <2>7, ChunkFromCores
  <2>10. /\ e \in DOMAIN us[a].vcpus /\ chunk[e].runtime_vcpu = us[a].vcpus[e]
    BY <2>9 DEF FromCores
  <2> HIDE DEF chunk, At
  <2> QED  BY <2>2, <2>3, <2>5, <2>6, <2>8, <2>10
<1>7. ASSUME NEW n \in NodeSet, NEW i \in 1 .. ChunksOn(n), NEW e \in W,
             NEW o \in NodeSet, NEW j \in 1 .. ChunksOn(o), NEW f \in W,
             At(On(n), i, e) = At(On(o), j, f)
      PROVE  n = o /\ i = j /\ e = f
  <2> HIDE DEF At, On
  <2> DEFINE a == CoreAt(us, On(n), 2 * i - 1)
             b == CoreAt(us, On(o), 2 * j - 1)
  <2>1. /\ On(n) \in 1 .. Cardinality(NodesOf(us))
        /\ 2 * i - 1 \in DOMAIN OnNth(us, On(n))
        /\ a \in DOMAIN us /\ e \in DOMAIN us[a].vcpus /\ us[a].node = n
        /\ all[At(On(n), i, e)].runtime_vcpu = us[a].vcpus[e]
    BY <1>6
  <2>2. /\ 2 * j - 1 \in DOMAIN OnNth(us, On(o))
        /\ b \in DOMAIN us /\ f \in DOMAIN us[b].vcpus /\ us[b].node = o
        /\ all[At(On(o), j, f)].runtime_vcpu = us[b].vcpus[f]
    BY <1>6
  <2> HIDE DEF a, b
  <2>3. us[a].vcpus[e] = us[b].vcpus[f]
    BY <1>7, <2>1, <2>2
  <2>4. a = b
    <3>1. input.machine.sibs[us[a].vcpus[e]] = input.machine.sibs[us[b].vcpus[f]]
      BY <2>3
    <3> QED  BY <1>1, <2>1, <2>2, <3>1, SMTT(30) DEF CoresApart
  <2>5. n = o
    BY <2>1, <2>2, <2>4
  <2>6. e = f
    BY <1>1, <2>1, <2>2, <2>3, <2>4 DEF CoresApart
  <2>7. 2 * i - 1 = 2 * j - 1
    <3>1. \A y, z \in DOMAIN OnNth(us, On(n)) :
                CoreAt(us, On(n), y) = CoreAt(us, On(n), z) => y = z
      BY <1>1, <2>1, CoreAtElements
    <3> QED  BY <2>1, <2>2, <2>4, <2>5, <3>1 DEF a, b
  <2>8. i = j
    <3>1. i \in Int /\ j \in Int
      OBVIOUS
    <3> QED  BY <2>7, <3>1
  <2> QED  BY <2>5, <2>6, <2>8
<1> HIDE DEF At, On, C, all
<1>8. place \in Injection(C \X W, 1 .. Len(all))
  <2>1. \A x \in C \X W : \E n \in NodeSet : \E i \in 1 .. ChunksOn(n) : \E e \in W :
            x = <<<<n, i>>, e>> /\ place[x] = At(On(n), i, e)
    <3> SUFFICES ASSUME NEW u \in C, NEW e \in W
                 PROVE  \E n \in NodeSet : \E i \in 1 .. ChunksOn(n) :
                            /\ <<u, e>> = <<<<n, i>>, e>>
                            /\ At(On(u[1]), u[2], e) = At(On(n), i, e)
      BY DEF place
    <3> QED  BY <1>5
  <2> HIDE DEF W
  <2>2. \A x \in C \X W : place[x] \in 1 .. Len(all)
    BY <1>6, <2>1 DEF W
  <2>3. place \in [C \X W -> 1 .. Len(all)]
    <3>1. place = [x \in C \X W |-> place[x]]
      OBVIOUS
    <3> HIDE DEF place
    <3> QED  BY <2>2, <3>1
  <2>4. \A x, y \in C \X W : place[x] = place[y] => x = y
    BY <1>7, <2>1 DEF W
  <2> HIDE DEF place
  <2> QED  BY <2>3, <2>4, Fun_IsInj
<1>9. IsFiniteSet(W) /\ Cardinality(W) = width
  <2>1. IsFiniteSet(1 .. width) /\ Cardinality(1 .. width) = IF 1 > width THEN 0 ELSE width - 1 + 1
    BY FS_Interval
  <2> QED  BY <2>1
<1>10. Cardinality(C \X W) = Cardinality(C) * width
  <2> HIDE DEF W
  <2> QED  BY <1>4, <1>9, FS_Product
<1>11. /\ Len(all) \in Nat /\ IsFiniteSet(1 .. Len(all))
       /\ Cardinality(1 .. Len(all)) = Len(all)
  <2>1. Len(all) \in Nat
    <3>1. all \in Seq(PairType)
      BY <1>1, AllPairsJoined DEF all
    <3> QED  BY <3>1
  <2>2. PICK l \in Nat : l = Len(all)
    BY <2>1
  <2>3. IsFiniteSet(1 .. l) /\ Cardinality(1 .. l) = IF 1 > l THEN 0 ELSE l - 1 + 1
    BY FS_Interval
  <2> QED  BY <2>2, <2>3
<1>12. Cardinality(C \X W) <= Len(all)
  <2> HIDE DEF place, W
  <2>1. Cardinality(C \X W) <= Cardinality(1 .. Len(all))
    BY <1>8, <1>11, FS_Injection
  <2> QED  BY <1>11, <2>1
<1>13. width * Cardinality(C) <= Len(all)
  <2>1. PICK c \in Nat : c = Cardinality(C)
    BY <1>4
  <2>2. width * c = c * width
    BY SMT
  <2> QED  BY <1>10, <1>12, <2>1, <2>2
<1> QED  BY <1>4, <1>13 DEF C, all

(***************************************************************************)
(* Planning the pairs fails only when the whole cores of the cpuset do not *)
(* give enough of them, on whatever machine (PlanFailsOnlyWhenShort).      *)
(***************************************************************************)
THEOREM PlanFailsWhenShort == Spec => []PlanFailsOnlyWhenShort
<1>1. ASSUME StartupInv, phase = "panic_plan", Args.cpuPinning,
             NEW width \in Nat,
             \A core \in WholeCores : Cardinality(core) >= width
      PROVE  width * Cardinality(ChunkUnits(NodeSet)) < Args.processingCores
  <2> DEFINE us == Usable(SmtGroups(input.machine), ToSet(Cpus))
             all == AllPairs(us)
             C == Args.processingCores
  <2>1. C \in Nat
    BY <1>1, ArgTypes DEF StartupInv
  <2>2. Plan = SubSeq(all, 1, Min({C, Len(all)}))
    BY DEF Plan, plan_pairs
  <2>3. Len(Plan) # C
    BY <1>1 DEF StartupInv, PlanGaveUp
  <2>4. all \in Seq(PairType)
    <3>1. us \in Seq(GroupType)
      BY <1>1, UsableCores
    <3> HIDE DEF us
    <3> QED  BY <3>1, AllPairsJoined
  <2>5. width * Cardinality(ChunkUnits(NodeSet)) <= Len(all)
    BY <1>1, PairsForChunks
  <2>6. IsFiniteSet(ChunkUnits(NodeSet))
    BY <1>1, PairsForChunks
  <2> HIDE DEF all, C
  <2>7. Len(all) < C
    <3>1. PICK l \in Nat : l = Len(all)
      BY <2>4
    <3>2. Min({C, l}) \in {C, l} /\ Min({C, l}) <= C /\ Min({C, l}) <= l
      BY <2>1, MinInSet
    <3>3. Min({C, l}) \in Nat
      BY <2>1, <3>2
    <3>4. Len(Plan) = Min({C, l})
      BY <2>2, <2>4, <3>1, <3>2, <3>3
    <3> QED  BY <2>1, <2>3, <3>1, <3>2, <3>4
  <2>8. width * Cardinality(ChunkUnits(NodeSet)) \in Nat
    <3>1. PICK c \in Nat : c = Cardinality(ChunkUnits(NodeSet))
      BY <2>6, FS_CardinalityType
    <3>2. width * c \in Nat
      BY SMT
    <3> QED  BY <3>1, <3>2
  <2>9. Len(all) \in Nat
    BY <2>4
  <2> QED  BY <2>1, <2>5, <2>7, <2>8, <2>9 DEF C
<1>2. ASSUME StartupInv PROVE PlanFailsOnlyWhenShort
  <2> DEFINE coresOf(n) == {core \in WholeCores : input.machine.node[Min(core)] = n}
             chunks == MapThenSumSet(LAMBDA n : Cardinality(coresOf(n)) \div 2, NodeSet)
  <2>1. IsFiniteSet(NodeSet) /\ \A n \in NodeSet : ChunksOn(n) \in Nat
    <3>1. input.machine \in Machines
      BY <1>2, ArgTypes DEF StartupInv
    <3>2. IsFiniteSet(DOMAIN input.machine.sibs)
      BY <3>1, MachineAssumption
    <3> DEFINE g == [c \in DOMAIN input.machine.sibs |-> input.machine.node[c]]
    <3>3. g \in Surjection(DOMAIN input.machine.sibs, NodeSet)
      BY DEF Surjection, NodeSet
    <3> HIDE DEF g
    <3> QED  BY <1>2, <3>2, <3>3, FS_Surjection, ChunksOfNode
  <2>2. MapThenSumSet(LAMBDA n : ChunksOn(n), NodeSet) = Cardinality(ChunkUnits(NodeSet))
    BY <2>1, SumOfChunks
  <2>3. chunks = MapThenSumSet(LAMBDA n : ChunksOn(n), NodeSet)
    BY Zenon DEF MapThenSumSet, MapThenFoldSet, ChunksOn
  <2>4. chunks = Cardinality(ChunkUnits(NodeSet))
    BY <2>2, <2>3, Zenon
  <2> HIDE DEF chunks
  <2>5. phase = "panic_plan" /\ Args.cpuPinning =>
            \A width \in 1 .. Cardinality(DOMAIN input.machine.sibs) :
                (\A core \in WholeCores : Cardinality(core) >= width)
                    => width * chunks < Args.processingCores
    <3> SUFFICES ASSUME phase = "panic_plan", Args.cpuPinning,
                        NEW width \in 1 .. Cardinality(DOMAIN input.machine.sibs),
                        \A core \in WholeCores : Cardinality(core) >= width
                 PROVE  width * chunks < Args.processingCores
      OBVIOUS
    <3>1. width \in Nat
      OBVIOUS
    <3> QED  BY <1>1, <1>2, <2>4, <3>1
  <2> QED  BY <2>5, Zenon DEF PlanFailsOnlyWhenShort, chunks, NodeSet
<1> QED  BY <1>2, Invariance, PTL
==============================================================================
