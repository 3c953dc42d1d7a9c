----------------------------- MODULE DataLemmas -----------------------------
(***************************************************************************)
(* Facts about remainders, least numbers, sums of counters, the order of a *)
(* finite set, sequences put end to end and products that no module of the *)
(* system owns.  Inductions are over a least counterexample (LeastNumber). *)
(***************************************************************************)
EXTENDS Integers, Sequences, FiniteSets, TLAPS, FiniteSetTheorems,
        FunctionTheorems, SequenceTheorems, WellFoundedInduction

(***************************************************************************)
(* The remainder of a division is unique.                                  *)
(***************************************************************************)
LEMMA RemainderUnique ==
    ASSUME NEW n \in Nat \ {0}, NEW q \in Int, NEW r \in Nat, r < n
    PROVE  (q * n + r) % n = r
<1> DEFINE i == q * n + r
           p == i \div n
           d == i % n
<1>1. i \in Int /\ q * n \in Int
  BY SMT
<1>2. i = n * p + d /\ p \in Int /\ d \in Nat /\ d < n
  BY <1>1, SMT
<1> HIDE DEF i, p, d
<1>3. n * p + d = n * q + r
  BY <1>2, SMT DEF i
<1>4. p = q
  <2>1. ASSUME p < q PROVE FALSE
    <3>1. n * (q - p) >= n
      BY <1>2, <2>1, SMT
    <3>2. n * (q - p) = d - r
      BY <1>2, <1>3, SMT
    <3> QED  BY <1>2, <3>1, <3>2, SMT
  <2>2. ASSUME q < p PROVE FALSE
    <3>1. n * (p - q) >= n
      BY <1>2, <2>2, SMT
    <3>2. n * (p - q) = r - d
      BY <1>2, <1>3, SMT
    <3> QED  BY <1>2, <3>1, <3>2, SMT
  <2> QED  BY <1>2, <2>1, <2>2, SMT
<1>5. d = r
  BY <1>2, <1>3, <1>4, SMT
<1> QED  BY <1>5 DEF d, i

\* An integer is a multiple of n and a remainder.
LEMMA Division ==
    ASSUME NEW n \in Nat \ {0}, NEW i \in Int
    PROVE  \E q \in Int : i = q * n + (i % n) /\ i % n \in Nat /\ i % n < n
<1>1. i = n * (i \div n) + (i % n) /\ i \div n \in Int /\ i % n \in Nat /\ i % n < n
  BY SMT
<1>2. PICK q \in Int, r \in Nat : i = n * q + r /\ r = i % n /\ r < n
  BY <1>1
<1>3. i = q * n + r
  BY <1>2, SMT
<1> QED  BY <1>2, <1>3

\* Multiples do not change a remainder.
LEMMA RemainderOfShifted ==
    ASSUME NEW n \in Nat \ {0}, NEW i \in Int, NEW k \in Int
    PROVE  (i + k * n) % n = i % n
<1>1. PICK q \in Int, r \in Nat : i = q * n + r /\ r = i % n /\ r < n
  BY Division
<1>2. i + k * n = (q + k) * n + r
  BY <1>1, SMT
<1>3. q + k \in Int
  OBVIOUS
<1>4. ((q + k) * n + r) % n = r
  BY <1>1, <1>3, RemainderUnique
<1> QED  BY <1>1, <1>2, <1>4

\* Remainders of a multiple of n have the remainder of their number.
LEMMA RemainderOfRemainder ==
    ASSUME NEW n \in Nat \ {0}, NEW m \in Nat \ {0}, NEW i \in Int
    PROVE  (i % (m * n)) % n = i % n
<1>1. m * n \in Nat \ {0}
  BY SMT
<1>2. PICK q \in Int, r \in Nat : i = q * (m * n) + r /\ r = i % (m * n)
  BY <1>1, Division
<1>3. PICK k \in Int : k = q * m
  BY SMT
<1>4. i = r + k * n
  BY <1>2, <1>3, SMT
<1>5. (r + k * n) % n = r % n
  <2>1. r \in Int
    OBVIOUS
  <2> QED  BY <2>1, RemainderOfShifted
<1> QED  BY <1>2, <1>4, <1>5

\* Sums and differences of remainders.
LEMMA RemainderOfSum ==
    ASSUME NEW n \in Nat \ {0}, NEW i \in Int, NEW j \in Int
    PROVE  /\ ((i % n) + j) % n = (i + j) % n
           /\ ((i % n) - j) % n = (i - j) % n
           /\ ((i % n) - (j % n)) % n = (i - j) % n
<1>1. PICK q \in Int, r \in Nat : i = q * n + r /\ r = i % n
  BY Division
<1>2. PICK p \in Int, s \in Nat : j = p * n + s /\ s = j % n
  BY Division
<1>3. (i + j) % n = (r + j) % n
  <2>1. PICK d \in Int : d = r + j
    OBVIOUS
  <2>2. PICK m \in Int : m = q * n
    BY SMT
  <2>3. i = m + r
    BY <1>1, <2>2
  <2>4. i + j = d + q * n
    BY <2>1, <2>2, <2>3
  <2>5. (d + q * n) % n = d % n
    BY RemainderOfShifted
  <2> QED  BY <2>1, <2>4, <2>5
<1>4. (i - j) % n = (r - j) % n
  <2>1. PICK d \in Int : d = r - j
    OBVIOUS
  <2>2. PICK m \in Int : m = q * n
    BY SMT
  <2>3. i = m + r
    BY <1>1, <2>2
  <2>4. i - j = d + q * n
    BY <2>1, <2>2, <2>3
  <2>5. (d + q * n) % n = d % n
    BY RemainderOfShifted
  <2> QED  BY <2>1, <2>4, <2>5
<1>5. (i - j) % n = (r - s) % n
  <2>1. PICK d \in Int, k \in Int : d = r - s /\ k = q - p
    OBVIOUS
  <2>2. i - j = d + k * n
    <3>1. PICK a \in Int, b \in Int : a = q * n /\ b = p * n
      BY SMT
    <3>2. k * n = a - b
      BY <2>1, <3>1, SMT
    <3>3. i = a + r /\ j = b + s
      BY <1>1, <1>2, <3>1
    <3> QED  BY <2>1, <3>2, <3>3
  <2>3. (d + k * n) % n = d % n
    BY RemainderOfShifted
  <2> QED  BY <2>1, <2>2, <2>3
<1> QED  BY <1>1, <1>2, <1>3, <1>4, <1>5

\* Remainders of the numbers around zero.
LEMMA SmallRemainder ==
    ASSUME NEW n \in Nat \ {0}, NEW d \in Int
    PROVE  /\ 0 <= d /\ d < n => d % n = d
           /\ d < 0 /\ -n <= d => d % n = d + n
<1>1. ASSUME 0 <= d, d < n PROVE d % n = d
  <2>1. d \in Nat /\ 0 * n + d = d
    BY <1>1, SMT
  <2>2. (0 * n + d) % n = d
    BY <1>1, <2>1, RemainderUnique
  <2> QED  BY <2>1, <2>2
<1>2. ASSUME d < 0, -n <= d PROVE d % n = d + n
  <2>1. d + n \in Nat /\ d + n < n /\ (-1) * n + (d + n) = d
    BY <1>2, SMT
  <2>2. ((-1) * n + (d + n)) % n = d + n
    BY <2>1, RemainderUnique
  <2> QED  BY <2>1, <2>2
<1> QED  BY <1>1, <1>2

(***************************************************************************)
(* Every set of natural numbers but the empty one has a least member.      *)
(***************************************************************************)
LEMMA LeastNumber ==
    ASSUME NEW T, T \subseteq Nat, T # {}
    PROVE  \E n \in T : \A m \in T : n <= m
<1> DEFINE R == {ss \in Nat \X Nat : ss[1] < ss[2]}
<1>1. IsWellFoundedOn(R, Nat)
  BY NatLessThanWellFounded DEF OpToRel
<1>2. PICK n \in T : \A m \in T : <<m, n>> \notin R
  <2> HIDE DEF R
  <2> QED  BY <1>1, WFMin
<1>3. ASSUME NEW m \in T PROVE n <= m
  <2>1. m \in Nat /\ n \in Nat
    OBVIOUS
  <2>2. ~(m < n)
    <3>1. <<m, n>> \in Nat \X Nat /\ <<m, n>>[1] = m /\ <<m, n>>[2] = n
      BY <2>1
    <3> QED  BY <1>2, <3>1
  <2> QED  BY <2>1, <2>2
<1> QED  BY <1>3

(***************************************************************************)
(* A sum over a set as the size of a set: one pair for each unit that the  *)
(* counter f[c] of a member c of C holds.                                  *)
(***************************************************************************)
Units(C, f) == UNION {{c} \X (1 .. f[c]) : c \in C}

LEMMA UnitsMember ==
    ASSUME NEW C, NEW f
    PROVE  \A u : u \in Units(C, f)
                    <=> \E c \in C : \E k \in 1 .. f[c] : u = <<c, k>>
BY DEF Units

LEMMA ColumnCount ==
    ASSUME NEW c, NEW n \in Nat
    PROVE  /\ IsFiniteSet({c} \X (1 .. n))
           /\ Cardinality({c} \X (1 .. n)) = n
<1>1. IsFiniteSet(1 .. n) /\ Cardinality(1 .. n) = n
  BY FS_Interval, SMT
<1>2. IsFiniteSet({c}) /\ Cardinality({c}) = 1
  BY FS_Singleton
<1> QED  BY <1>1, <1>2, FS_Product

(***************************************************************************)
(* The units of finitely many counters are finitely many.                  *)
(***************************************************************************)
LEMMA UnitsFinite ==
    ASSUME NEW C, IsFiniteSet(C), NEW f \in [C -> Nat]
    PROVE  IsFiniteSet(Units(C, f)) /\ Cardinality(Units(C, f)) \in Nat
<1> DEFINE Columns == {{c} \X (1 .. f[c]) : c \in C}
           g == [c \in C |-> {c} \X (1 .. f[c])]
<1>1. g \in Surjection(C, Columns)
  BY DEF Surjection
<1>2. IsFiniteSet(Columns)
  BY <1>1, FS_Surjection
<1>3. ASSUME NEW T \in Columns
      PROVE  IsFiniteSet(T)
  <2>1. PICK c \in C : T = {c} \X (1 .. f[c])
    OBVIOUS
  <2>2. IsFiniteSet({c} \X (1 .. f[c]))
    BY ColumnCount
  <2> QED  BY <2>1, <2>2
<1>4. IsFiniteSet(Units(C, f))
  BY <1>2, <1>3, FS_UNION DEF Units
<1> QED  BY <1>4, FS_CardinalityType

(***************************************************************************)
(* The sum of all counters is that of the others and one of them.          *)
(***************************************************************************)
LEMMA UnitsSplit ==
    ASSUME NEW C, IsFiniteSet(C), NEW f \in [C -> Nat], NEW c \in C
    PROVE  /\ Cardinality(Units(C \ {c}, f)) \in Nat
           /\ Cardinality(Units(C, f)) = Cardinality(Units(C \ {c}, f)) + f[c]
<1> DEFINE Rest == Units(C \ {c}, f)
           Column == {c} \X (1 .. f[c])
<1>1. Units(C, f) = Rest \cup Column
  BY DEF Units
<1>2. Rest \cap Column = {}
  BY DEF Units
<1>3. IsFiniteSet(Rest)
  <2>1. IsFiniteSet(Units(C, f))
    BY UnitsFinite
  <2> QED  BY <1>1, <2>1, FS_Subset
<1>4. IsFiniteSet(Column) /\ Cardinality(Column) = f[c]
  BY ColumnCount
<1>5. Cardinality(Rest) \in Nat
  BY <1>3, FS_CardinalityType
<1>6. Cardinality(Rest \cup Column)
        = Cardinality(Rest) + Cardinality(Column) - Cardinality(Rest \cap Column)
  BY <1>3, <1>4, FS_Union
<1>7. Cardinality(Rest \cap Column) = 0
  BY <1>2, FS_EmptySet
<1> QED  BY <1>1, <1>4, <1>5, <1>6, <1>7, SMT

(***************************************************************************)
(* When one counter changes, the sum changes by as much.                   *)
(***************************************************************************)
LEMMA UnitsChange ==
    ASSUME NEW C, IsFiniteSet(C), NEW f \in [C -> Nat], NEW g \in [C -> Nat],
           NEW c \in C, \A d \in C \ {c} : g[d] = f[d]
    PROVE  Cardinality(Units(C, g)) = Cardinality(Units(C, f)) - f[c] + g[c]
<1>1. Units(C \ {c}, f) = Units(C \ {c}, g)
  BY DEF Units
<1>2. /\ Cardinality(Units(C \ {c}, f)) \in Nat
      /\ Cardinality(Units(C, f)) = Cardinality(Units(C \ {c}, f)) + f[c]
  BY UnitsSplit
<1>3. Cardinality(Units(C, g)) = Cardinality(Units(C \ {c}, g)) + g[c]
  BY UnitsSplit
<1> QED  BY <1>1, <1>2, <1>3, SMT

(***************************************************************************)
(* In a finite set of numbers each place is taken by one of them: the one  *)
(* with as many below it.                                                  *)
(***************************************************************************)
Below(S, x) == {y \in S : y < x}

LEMMA BelowGrows ==
    ASSUME NEW S, IsFiniteSet(S), S \subseteq Int, NEW x \in S, NEW z \in S
    PROVE  /\ Cardinality(Below(S, x)) \in Nat
           /\ Cardinality(Below(S, x)) < Cardinality(S)
           /\ x < z => Cardinality(Below(S, x)) < Cardinality(Below(S, z))
<1>1. /\ IsFiniteSet(Below(S, x)) /\ x \notin Below(S, x)
      /\ IsFiniteSet(Below(S, z))
  BY FS_Subset DEF Below
<1>2. Cardinality(Below(S, x) \cup {x}) = Cardinality(Below(S, x)) + 1
  BY <1>1, FS_AddElement
<1>3. Cardinality(Below(S, x)) \in Nat /\ Cardinality(S) \in Nat
  BY <1>1, FS_CardinalityType
<1>4. Below(S, x) \cup {x} \in SUBSET S
  BY DEF Below
<1>5. Cardinality(Below(S, x) \cup {x}) <= Cardinality(S)
  BY <1>4, FS_Subset
<1>6. ASSUME x < z
      PROVE  Cardinality(Below(S, x) \cup {x}) <= Cardinality(Below(S, z))
  <2>1. Below(S, x) \cup {x} \in SUBSET Below(S, z)
    <3>1. ASSUME NEW y \in Below(S, x) PROVE y \in Below(S, z)
      <4>1. y \in S /\ y < x /\ y \in Int /\ x \in Int /\ z \in Int
        BY DEF Below
      <4>2. y < z
        BY <1>6, <4>1
      <4> QED  BY <4>1, <4>2 DEF Below
    <3>2. x \in Below(S, z)
      BY <1>6 DEF Below
    <3> QED  BY <3>1, <3>2
  <2> QED  BY <1>1, <2>1, FS_Subset
<1>7. Cardinality(Below(S, z)) \in Nat
  BY <1>1, FS_CardinalityType
<1> QED  BY <1>2, <1>3, <1>5, <1>6, <1>7

LEMMA EachPlaceTaken ==
    ASSUME NEW S, IsFiniteSet(S), S \subseteq Int,
           NEW i \in 1 .. Cardinality(S)
    PROVE  \E x \in S : Cardinality(Below(S, x)) = i - 1
<1> DEFINE n == Cardinality(S)
           place == [x \in S |-> Cardinality(Below(S, x))]
<1>1. n \in Nat
  BY FS_CardinalityType
<1>2. place \in [S -> 0 .. n - 1]
  <2>1. ASSUME NEW x \in S PROVE Cardinality(Below(S, x)) \in 0 .. n - 1
    <3>1. /\ Cardinality(Below(S, x)) \in Nat
          /\ Cardinality(Below(S, x)) < Cardinality(S)
      BY BelowGrows
    <3> QED  BY <1>1, <3>1
  <2> QED  BY <2>1
<1>3. ASSUME NEW x \in S, NEW z \in S, place[x] = place[z] PROVE x = z
  <2>1. /\ Cardinality(Below(S, x)) = Cardinality(Below(S, z))
        /\ Cardinality(Below(S, x)) \in Nat
        /\ x < z => Cardinality(Below(S, x)) < Cardinality(Below(S, z))
        /\ z < x => Cardinality(Below(S, z)) < Cardinality(Below(S, x))
    BY <1>3, BelowGrows
  <2>2. x \in Int /\ z \in Int
    OBVIOUS
  <2> QED  BY <2>1, <2>2
<1>4. place \in Injection(S, 0 .. n - 1)
  BY <1>2, <1>3, Fun_IsInj
<1>5. IsFiniteSet(0 .. n - 1) /\ Cardinality(0 .. n - 1) = n
  <2> HIDE DEF n
  <2>1. n - 1 \in Int /\ 0 \in Int
    BY <1>1
  <2>2. /\ IsFiniteSet(0 .. n - 1)
        /\ Cardinality(0 .. n - 1) = IF 0 > n - 1 THEN 0 ELSE n - 1 - 0 + 1
    BY <2>1, FS_Interval
  <2> QED  BY <1>1, <2>2
<1>6. place \in Surjection(S, 0 .. n - 1)
  BY <1>4, <1>5, FS_Injection
<1>7. i - 1 \in 0 .. n - 1
  BY <1>1
<1>8. PICK x \in S : place[x] = i - 1
  <2> HIDE DEF place, n
  <2>1. \A t \in 0 .. n - 1 : \E x \in S : place[x] = t
    BY <1>6 DEF Surjection
  <2> QED  BY <1>7, <2>1
<1> QED  BY <1>8

(***************************************************************************)
(* A sequence of sequences put end to end, as a function of how many of    *)
(* them are, and where each of them starts.                                *)
(***************************************************************************)
EndToEnd(ss) ==
    CHOOSE f : f = [i \in 1 .. Len(ss) |->
                        IF i = 1 THEN ss[i] ELSE f[i - 1] \o ss[i]]

Joined(ss) == IF Len(ss) = 0 THEN ss ELSE EndToEnd(ss)[Len(ss)]

LEMMA EndToEndDefined ==
    ASSUME NEW T, NEW ss \in Seq(Seq(T))
    PROVE  /\ EndToEnd(ss) \in [1 .. Len(ss) -> Seq(T)]
           /\ \A i \in 1 .. Len(ss) : EndToEnd(ss)[i] =
                IF i = 1 THEN ss[i] ELSE EndToEnd(ss)[i - 1] \o ss[i]
<1> DEFINE n == Len(ss)
           Part(m, f) == /\ f \in [1 .. m -> Seq(T)]
                         /\ \A i \in 1 .. m : f[i] =
                                IF i = 1 THEN ss[i] ELSE f[i - 1] \o ss[i]
           Missing == {m \in 0 .. n : ~ \E f : Part(m, f)}
<1>1. n \in Nat /\ \A i \in 1 .. n : ss[i] \in Seq(T)
  OBVIOUS
<1>2. Missing = {}
  <2> SUFFICES ASSUME Missing # {} PROVE FALSE
    OBVIOUS
  <2>1. PICK m \in Missing : \A k \in Missing : m <= k
    <3>1. Missing \subseteq Nat
      BY <1>1
    <3> QED  BY <3>1, LeastNumber
  <2>2. m \in 0 .. n /\ m \in Nat
    BY <1>1
  <2>3. m # 0
    <3>1. Part(0, [i \in 1 .. 0 |-> <<>>])
      OBVIOUS
    <3> QED  BY <3>1
  <2>4. m - 1 \in 0 .. n /\ m - 1 \notin Missing
    <3>1. m - 1 \in 0 .. n /\ ~(m <= m - 1)
      BY <1>1, <2>2, <2>3
    <3> HIDE DEF Missing
    <3> QED  BY <2>1, <3>1
  <2>5. PICK f : Part(m - 1, f)
    BY <2>4
  <2> DEFINE last == IF m = 1 THEN ss[1] ELSE f[m - 1] \o ss[m]
             g == [i \in 1 .. m |-> IF i < m THEN f[i] ELSE last]
  <2>6. last \in Seq(T)
    <3>1. CASE m = 1
      BY <1>1, <2>2, <3>1
    <3>2. CASE m # 1
      <4>1. f[m - 1] \in Seq(T) /\ ss[m] \in Seq(T)
        BY <1>1, <2>2, <2>3, <2>5, <3>2
      <4> QED  BY <3>2, <4>1, ConcatProperties
    <3> QED  BY <3>1, <3>2
  <2>7. g \in [1 .. m -> Seq(T)]
    BY <2>2, <2>5, <2>6
  <2>8. ASSUME NEW i \in 1 .. m
        PROVE  g[i] = IF i = 1 THEN ss[i] ELSE g[i - 1] \o ss[i]
    <3>1. CASE i < m
      <4>1. i \in 1 .. m - 1 /\ (i # 1 => i - 1 \in 1 .. m - 1)
        BY <2>2, <3>1
      <4>2. g[i] = f[i] /\ (i # 1 => g[i - 1] = f[i - 1])
        BY <2>2, <3>1, <4>1
      <4> QED  BY <2>5, <4>1, <4>2
    <3>2. CASE i = m
      <4>1. g[i] = last /\ (i # 1 => g[i - 1] = f[i - 1])
        BY <2>2, <2>3, <3>2
      <4> QED  BY <3>2, <4>1
    <3> QED  BY <2>2, <3>1, <3>2
  <2>9. Part(m, g)
    BY <2>7, <2>8
  <2> QED  BY <2>9
<1>3. PICK f : Part(n, f)
  <2>1. n \in 0 .. n
    BY <1>1
  <2> HIDE DEF Part, n
  <2> QED  BY <1>2, <2>1
<1>4. f = [i \in 1 .. n |-> IF i = 1 THEN ss[i] ELSE f[i - 1] \o ss[i]]
  BY <1>3
<1>5. EndToEnd(ss) = [i \in 1 .. n |->
            IF i = 1 THEN ss[i] ELSE EndToEnd(ss)[i - 1] \o ss[i]]
  BY <1>4 DEF EndToEnd
<1> DEFINE Wrong == {i \in 1 .. n : EndToEnd(ss)[i] # f[i]}
<1>6. Wrong = {}
  <2> SUFFICES ASSUME Wrong # {} PROVE FALSE
    OBVIOUS
  <2>1. PICK m \in Wrong : \A k \in Wrong : m <= k
    <3>1. Wrong \subseteq Nat
      BY <1>1
    <3> QED  BY <3>1, LeastNumber
  <2>2. m \in 1 .. n
    OBVIOUS
  <2>3. m # 1 => m - 1 \in 1 .. n /\ EndToEnd(ss)[m - 1] = f[m - 1]
    BY <1>1, <2>1, <2>2
  <2>4. EndToEnd(ss)[m] = IF m = 1 THEN ss[m] ELSE EndToEnd(ss)[m - 1] \o ss[m]
    <3> HIDE DEF Wrong
    <3> QED  BY <1>5, <2>2
  <2>5. f[m] = IF m = 1 THEN ss[m] ELSE f[m - 1] \o ss[m]
    BY <1>3, <2>2
  <2> QED  BY <2>1, <2>3, <2>4, <2>5
<1>7. EndToEnd(ss) = f
  <2> DEFINE e == EndToEnd(ss)
  <2>1. e = [i \in 1 .. n |-> e[i]]
    <3> HIDE DEF Wrong
    <3>1. DOMAIN e = 1 .. n /\ e = [i \in DOMAIN e |-> e[i]]
      BY <1>5
    <3> QED  BY <3>1
  <2> QED  BY <1>3, <1>6, <2>1
<1> QED  BY <1>3, <1>7

(***************************************************************************)
(* Where each of the sequences starts, and that nothing else is in there.  *)
(***************************************************************************)
Starts(ss) == [i \in 1 .. Len(ss) + 1 |->
                  IF i = 1 THEN 0 ELSE Len(EndToEnd(ss)[i - 1])]

LEMMA JoinedElements ==
    ASSUME NEW T, NEW ss \in Seq(Seq(T))
    PROVE  /\ Joined(ss) \in Seq(T)
           /\ Starts(ss) \in [1 .. Len(ss) + 1 -> Nat]
           /\ Starts(ss)[1] = 0
           /\ Len(Joined(ss)) = Starts(ss)[Len(ss) + 1]
           /\ \A i \in 1 .. Len(ss) :
                /\ Starts(ss)[i + 1] = Starts(ss)[i] + Len(ss[i])
                /\ Starts(ss)[i + 1] <= Len(Joined(ss))
                /\ \A j \in 1 .. Len(ss[i]) :
                        Joined(ss)[Starts(ss)[i] + j] = ss[i][j]
           /\ \A e \in 1 .. Len(Joined(ss)) :
                \E i \in 1 .. Len(ss) : \E j \in 1 .. Len(ss[i]) :
                    e = Starts(ss)[i] + j
<1> DEFINE n == Len(ss)
           f == EndToEnd(ss)
           at == Starts(ss)
<1>1. n \in Nat /\ \A i \in 1 .. n : ss[i] \in Seq(T) /\ Len(ss[i]) \in Nat
  OBVIOUS
<1>2. /\ f \in [1 .. n -> Seq(T)]
      /\ \A i \in 1 .. n : f[i] = IF i = 1 THEN ss[i] ELSE f[i - 1] \o ss[i]
  BY EndToEndDefined
<1>3. at = [i \in 1 .. n + 1 |-> IF i = 1 THEN 0 ELSE Len(f[i - 1])]
  BY DEF Starts
<1> HIDE DEF f, at, n
<1>4. ASSUME NEW i \in 1 .. n
      PROVE  /\ f[i] \in Seq(T) /\ Len(f[i]) \in Nat
             /\ at[i + 1] = Len(f[i])
             /\ at[i] \in Nat
             /\ Len(f[i]) = at[i] + Len(ss[i])
             /\ \A j \in 1 .. Len(ss[i]) : f[i][at[i] + j] = ss[i][j]
             /\ i # 1 => \A e \in 1 .. at[i] : f[i][e] = f[i - 1][e]
  <2>1. f[i] \in Seq(T) /\ Len(f[i]) \in Nat /\ i \in Nat
    BY <1>1, <1>2
  <2>2. at[i + 1] = Len(f[i])
    <3>1. i + 1 \in 1 .. n + 1 /\ i + 1 # 1 /\ (i + 1) - 1 = i
      BY <1>1
    <3> QED  BY <1>3, <3>1
  <2>3. CASE i = 1
    <3>1. at[i] = 0 /\ f[i] = ss[i]
      <4>1. 1 \in 1 .. n + 1
        BY <1>1
      <4> QED  BY <1>2, <1>3, <2>3, <4>1
    <3>2. \A j \in 1 .. Len(ss[i]) : 0 + j = j
      BY <1>1
    <3> QED  BY <1>1, <2>1, <2>2, <2>3, <3>1, <3>2
  <2>4. CASE i # 1
    <3>1. i - 1 \in 1 .. n /\ i \in 1 .. n + 1
      BY <1>1, <2>4
    <3>2. f[i - 1] \in Seq(T) /\ Len(f[i - 1]) \in Nat
      BY <1>2, <3>1
    <3>3. at[i] = Len(f[i - 1]) /\ f[i] = f[i - 1] \o ss[i]
      BY <1>2, <1>3, <2>4, <3>1
    <3>4. /\ Len(f[i]) = Len(f[i - 1]) + Len(ss[i])
          /\ \A e \in 1 .. Len(f[i - 1]) + Len(ss[i]) : f[i][e] =
                IF e <= Len(f[i - 1]) THEN f[i - 1][e]
                                      ELSE ss[i][e - Len(f[i - 1])]
      <4>1. PICK p \in Seq(T), q \in Seq(T) : p = f[i - 1] /\ q = ss[i]
        BY <1>1, <3>2
      <4>2. /\ Len(p \o q) = Len(p) + Len(q)
            /\ \A e \in 1 .. Len(p) + Len(q) : (p \o q)[e] =
                  IF e <= Len(p) THEN p[e] ELSE q[e - Len(p)]
        BY ConcatProperties
      <4>3. f[i] = p \o q
        BY <3>3, <4>1
      <4>4. /\ Len(f[i]) = Len(p) + Len(q)
            /\ \A e \in 1 .. Len(p) + Len(q) :
                  f[i][e] = IF e <= Len(p) THEN p[e] ELSE q[e - Len(p)]
        BY <4>2, <4>3, Zenon
      <4> QED  BY <4>1, <4>4, Zenon
    <3>5. ASSUME NEW j \in 1 .. Len(ss[i]) PROVE f[i][at[i] + j] = ss[i][j]
      <4>1. /\ at[i] + j \in 1 .. Len(f[i - 1]) + Len(ss[i])
            /\ ~(at[i] + j <= Len(f[i - 1])) /\ (at[i] + j) - Len(f[i - 1]) = j
        <5>1. PICK a \in Nat, b \in Nat : a = Len(f[i - 1]) /\ b = Len(ss[i])
          BY <1>1, <3>2
        <5>2. j \in 1 .. b /\ at[i] = a
          BY <3>3, <5>1
        <5>3. a + j \in 1 .. a + b /\ ~(a + j <= a) /\ (a + j) - a = j
          BY <5>2
        <5> QED  BY <5>1, <5>2, <5>3
      <4> QED  BY <3>4, <4>1
    <3>6. ASSUME NEW e \in 1 .. at[i] PROVE f[i][e] = f[i - 1][e]
      <4>1. e \in 1 .. Len(f[i - 1]) + Len(ss[i]) /\ e <= Len(f[i - 1])
        <5>1. PICK a \in Nat, b \in Nat : a = Len(f[i - 1]) /\ b = Len(ss[i])
          BY <1>1, <3>2
        <5>2. e \in 1 .. a
          BY <3>3, <5>1
        <5>3. e \in 1 .. a + b /\ e <= a
          BY <5>2
        <5> QED  BY <5>1, <5>3
      <4> QED  BY <3>4, <4>1
    <3> QED  BY <2>1, <2>2, <3>2, <3>3, <3>4, <3>5, <3>6
  <2> QED  BY <2>3, <2>4
<1>5. /\ at \in [1 .. n + 1 -> Nat] /\ at[1] = 0
  <2>1. ASSUME NEW i \in 1 .. n + 1
        PROVE  (IF i = 1 THEN 0 ELSE Len(f[i - 1])) \in Nat
    <3>1. i # 1 => i - 1 \in 1 .. n
      BY <1>1
    <3> QED  BY <1>4, <3>1
  <2> QED  BY <1>1, <1>3, <2>1
<1>6. CASE n = 0
  <2>1. Joined(ss) = <<>>
    BY <1>6 DEF Joined, n
  <2> QED  BY <1>5, <1>6, <2>1 DEF n, at
<1>7. CASE n # 0
  <2>1. Joined(ss) = f[n] /\ n \in 1 .. n
    BY <1>1, <1>7 DEF Joined, n, f
  <2>2. f[n] \in Seq(T) /\ Len(f[n]) = at[n + 1]
    BY <1>4, <2>1
  \* What a part holds, all later ones hold.
  <2> DEFINE Agree(m) == \A i \in 1 .. m : /\ at[i + 1] <= Len(f[m])
                                          /\ \A e \in 1 .. at[i + 1] : f[m][e] = f[i][e]
             Covered(m) == \A e \in 1 .. Len(f[m]) :
                \E i \in 1 .. m : \E j \in 1 .. Len(ss[i]) : e = at[i] + j
             Bad == {m \in 1 .. n : ~(Agree(m) /\ Covered(m))}
  <2>3. Bad = {}
    <3> SUFFICES ASSUME Bad # {} PROVE FALSE
      OBVIOUS
    <3>1. PICK m \in Bad : \A k \in Bad : m <= k
      <4>1. Bad \subseteq Nat
        BY <1>1
      <4> QED  BY <4>1, LeastNumber
    <3>2. m \in 1 .. n /\ m \in Nat
      BY <1>1
    <3>3. m # 1 => m - 1 \in 1 .. n /\ Agree(m - 1) /\ Covered(m - 1)
      <4> SUFFICES ASSUME m # 1
                   PROVE  m - 1 \in 1 .. n /\ Agree(m - 1) /\ Covered(m - 1)
        OBVIOUS
      <4>1. m - 1 \in 1 .. n /\ ~(m <= m - 1)
        BY <1>1, <3>2
      <4>2. m - 1 \notin Bad
        <5> HIDE DEF Bad
        <5> QED  BY <3>1, <4>1
      <4> HIDE DEF Agree, Covered
      <4> QED  BY <4>1, <4>2
    <3>4. /\ f[m] \in Seq(T) /\ Len(f[m]) \in Nat /\ at[m + 1] = Len(f[m])
          /\ at[m] \in Nat /\ Len(f[m]) = at[m] + Len(ss[m])
          /\ m # 1 => \A e \in 1 .. at[m] : f[m][e] = f[m - 1][e]
      BY <1>4, <3>2
    <3>5. m # 1 => at[m] = Len(f[m - 1]) /\ Len(f[m - 1]) \in Nat
      <4> SUFFICES ASSUME m # 1
                   PROVE  at[m] = Len(f[m - 1]) /\ Len(f[m - 1]) \in Nat
        OBVIOUS
      <4>1. m - 1 \in 1 .. n /\ m \in 1 .. n + 1
        BY <1>1, <3>2, <3>3
      <4> QED  BY <1>3, <1>4, <4>1
    <3>6. Agree(m)
      <4> SUFFICES ASSUME NEW i \in 1 .. m
                   PROVE  /\ at[i + 1] <= Len(f[m])
                          /\ \A e \in 1 .. at[i + 1] : f[m][e] = f[i][e]
        OBVIOUS
      <4>1. CASE i = m
        BY <3>4, <4>1
      <4>2. CASE i # m
        <5>1. i \in 1 .. m - 1 /\ m # 1
          BY <3>2, <4>2
        <5>2. /\ at[i + 1] <= Len(f[m - 1])
              /\ \A e \in 1 .. at[i + 1] : f[m - 1][e] = f[i][e]
          BY <3>3, <5>1
        <5>3. at[i + 1] \in Nat
          BY <1>1, <1>5, <3>2
        <5>4. Len(ss[m]) \in Nat /\ at[i + 1] <= Len(f[m])
          <6>1. PICK a \in Nat, b \in Nat, c \in Nat :
                    a = Len(f[m - 1]) /\ b = Len(ss[m]) /\ c = at[i + 1]
            BY <1>1, <3>2, <3>5, <5>1, <5>3
          <6>2. c <= a /\ Len(f[m]) = a + b
            BY <3>4, <3>5, <5>1, <5>2, <6>1
          <6>3. c <= a + b
            BY <6>2
          <6> QED  BY <6>1, <6>2, <6>3
        <5>5. ASSUME NEW e \in 1 .. at[i + 1] PROVE f[m][e] = f[i][e]
          <6>1. e \in 1 .. at[m]
            <7>1. PICK a \in Nat, c \in Nat : a = at[m] /\ c = at[i + 1]
              BY <3>4, <5>3
            <7>2. c <= a /\ e \in 1 .. c
              BY <3>5, <5>1, <5>2, <7>1
            <7>3. e \in 1 .. a
              BY <7>2
            <7> QED  BY <7>1, <7>3
          <6> QED  BY <3>4, <5>1, <5>2, <6>1
        <5> QED  BY <5>4, <5>5
      <4> QED  BY <4>1, <4>2
    <3>7. Covered(m)
      <4> SUFFICES ASSUME NEW e \in 1 .. Len(f[m])
                   PROVE  \E i \in 1 .. m : \E j \in 1 .. Len(ss[i]) : e = at[i] + j
        OBVIOUS
      <4>1. Len(ss[m]) \in Nat /\ e \in Nat
        BY <1>1, <3>2, <3>4
      <4>2. CASE e > at[m]
        <5>1. e - at[m] \in 1 .. Len(ss[m]) /\ e = at[m] + (e - at[m])
          <6>1. PICK a \in Nat, b \in Nat : a = at[m] /\ b = Len(ss[m])
            BY <3>4, <4>1
          <6>2. e \in 1 .. a + b /\ e > a
            BY <3>4, <4>2, <6>1
          <6>3. e - a \in 1 .. b /\ e = a + (e - a)
            BY <6>2, SMTT(30)
          <6> QED  BY <6>1, <6>3
        <5>2. m \in 1 .. m
          BY <3>2
        <5> QED  BY <5>1, <5>2
      <4>3. CASE e <= at[m]
        <5>1. m # 1
          BY <1>5, <4>1, <4>3
        <5>2. e \in 1 .. Len(f[m - 1])
          BY <3>5, <4>3, <5>1, <4>1
        <5>3. PICK i \in 1 .. m - 1 : \E j \in 1 .. Len(ss[i]) : e = at[i] + j
          BY <3>3, <5>1, <5>2
        <5>4. i \in 1 .. m
          BY <3>2
        <5> QED  BY <5>3, <5>4
      <4> QED  BY <3>4, <4>1, <4>2, <4>3
    <3> HIDE DEF Agree, Covered
    <3> QED  BY <3>1, <3>6, <3>7
  <2>4. Agree(n) /\ Covered(n)
    <3> HIDE DEF Agree, Covered
    <3> QED  BY <2>1, <2>3
  <2>5. ASSUME NEW i \in 1 .. n
        PROVE  /\ at[i + 1] = at[i] + Len(ss[i])
               /\ at[i + 1] <= Len(f[n])
               /\ \A j \in 1 .. Len(ss[i]) : f[n][at[i] + j] = ss[i][j]
    <3>1. at[i + 1] = at[i] + Len(ss[i]) /\ at[i] \in Nat /\ Len(ss[i]) \in Nat
      BY <1>1, <1>4
    <3>2. ASSUME NEW j \in 1 .. Len(ss[i]) PROVE f[n][at[i] + j] = ss[i][j]
      <4>1. at[i] + j \in 1 .. at[i + 1]
        BY <3>1
      <4>2. f[n][at[i] + j] = f[i][at[i] + j]
        BY <2>4, <4>1
      <4> QED  BY <1>4, <4>2
    <3> QED  BY <2>4, <3>1, <3>2
  <2> QED  BY <1>5, <2>1, <2>2, <2>4, <2>5 DEF n, at
<1> QED  BY <1>6, <1>7

(***************************************************************************)
(* The product of the numbers of each part of a finite set, taken in any   *)
(* order.                                                                  *)
(***************************************************************************)
ProductStep(f, parts, iter) ==
    [s \in parts |-> IF s = {} THEN 1
                     ELSE f[CHOOSE x \in s : TRUE]
                             * iter[s \ {CHOOSE x \in s : TRUE}]]

Products(f) ==
    CHOOSE iter : iter = ProductStep(f, SUBSET (DOMAIN f), iter)

\* Among parts of a finite set, one that contains no other of them.
LEMMA SmallestPart ==
    ASSUME NEW D, IsFiniteSet(D), NEW Wrong, Wrong \subseteq SUBSET D, Wrong # {}
    PROVE  \E s \in Wrong : \A r \in Wrong : ~(r \subseteq s /\ r # s)
<1> DEFINE Sizes == {Cardinality(s) : s \in Wrong}
<1>1. \A s \in SUBSET D : IsFiniteSet(s) /\ Cardinality(s) \in Nat
  BY FS_Subset, FS_CardinalityType
<1>2. PICK m \in Sizes : \A k \in Sizes : m <= k
  <2>1. Sizes \subseteq Nat /\ Sizes # {}
    BY <1>1
  <2> QED  BY <2>1, LeastNumber
<1>3. PICK s \in Wrong : Cardinality(s) = m
  OBVIOUS
<1>4. ASSUME NEW r \in Wrong, r \subseteq s, r # s PROVE FALSE
  <2>1. Cardinality(r) < Cardinality(s)
    BY <1>1, <1>4, FS_Subset
  <2>2. Cardinality(r) \in Sizes /\ Cardinality(r) \in Nat /\ Cardinality(s) \in Nat
    BY <1>1
  <2> QED  BY <1>2, <1>3, <2>1, <2>2
<1> QED  BY <1>4

\* Is the product over s that of f[x] and the rest?
FactorOut(f, s, x) == Products(f)[s] = f[x] * Products(f)[s \ {x}]

\* The recursion defines a product for every part.
LEMMA ProductsDefined ==
    ASSUME NEW D, IsFiniteSet(D), NEW f \in [D -> Int]
    PROVE  /\ Products(f) \in [SUBSET D -> Int]
           /\ Products(f)[{}] = 1
           /\ \A s \in SUBSET D : s # {} =>
                \E x \in s : FactorOut(f, s, x)
<1> DEFINE Upto(m) == {s \in SUBSET D : Cardinality(s) <= m}
           Part(m, g) == /\ g \in [Upto(m) -> Int]
                         /\ \A s \in Upto(m) : g[s] =
                                IF s = {} THEN 1
                                ELSE f[CHOOSE x \in s : TRUE]
                                        * g[s \ {CHOOSE x \in s : TRUE}]
           n == Cardinality(D)
           Missing == {m \in 0 .. n : ~ \E g : Part(m, g)}
<1>1. \A s \in SUBSET D : IsFiniteSet(s) /\ Cardinality(s) \in 0 .. n
  BY FS_Subset, FS_CardinalityType
<1>2. n \in Nat
  BY FS_CardinalityType
<1>3. ASSUME NEW s \in SUBSET D, s # {}
      PROVE  LET c == CHOOSE x \in s : TRUE
             IN  /\ c \in s /\ c \in D /\ s \ {c} \in SUBSET D
                 /\ Cardinality(s \ {c}) = Cardinality(s) - 1
  <2> DEFINE c == CHOOSE x \in s : TRUE
  <2>1. c \in s
    BY <1>3
  <2> HIDE DEF c
  <2>2. Cardinality(s \ {c}) = Cardinality(s) - 1
    BY <1>1, <2>1, FS_RemoveElement
  <2>3. c \in s /\ c \in D /\ s \ {c} \in SUBSET D
        /\ Cardinality(s \ {c}) = Cardinality(s) - 1
    BY <2>1, <2>2
  <2> QED  BY <2>3 DEF c
<1>4. Missing = {}
  <2> SUFFICES ASSUME Missing # {} PROVE FALSE
    OBVIOUS
  <2>1. PICK m \in Missing : \A k \in Missing : m <= k
    <3>1. Missing \subseteq Nat
      BY <1>2
    <3> QED  BY <3>1, LeastNumber
  <2>2. m \in 0 .. n /\ m \in Nat
    BY <1>2
  <2>3. m # 0
    <3> DEFINE one == [s \in Upto(0) |-> 1]
    <3>1. Part(0, one)
      <4>1. ASSUME NEW s \in Upto(0) PROVE s = {}
        <5>1. s \in SUBSET D /\ Cardinality(s) = 0 /\ IsFiniteSet(s)
          BY <1>1
        <5> QED  BY <5>1, FS_EmptySet
      <4>2. one \in [Upto(0) -> Int]
        OBVIOUS
      <4>3. \A s \in Upto(0) : one[s] = 1 /\ s = {}
        <5> HIDE DEF Upto
        <5> QED  BY <4>1
      <4> HIDE DEF one, Upto
      <4> QED  BY <4>2, <4>3
    <3> HIDE DEF one, Part
    <3>2. ~ \A g : ~Part(0, g)
      BY <3>1
    <3> QED  BY <3>2
  <2>4. m - 1 \in 0 .. n /\ m - 1 \notin Missing
    <3>1. m - 1 \in 0 .. n /\ ~(m <= m - 1)
      BY <1>2, <2>2, <2>3
    <3> HIDE DEF Missing
    <3> QED  BY <2>1, <3>1
  <2>5. PICK g : Part(m - 1, g)
    BY <2>4
  <2> DEFINE Next(s) == IF s = {} THEN 1
                        ELSE f[CHOOSE x \in s : TRUE]
                                * g[s \ {CHOOSE x \in s : TRUE}]
             h == [s \in Upto(m) |-> IF s \in Upto(m - 1) THEN g[s] ELSE Next(s)]
  <2>6. ASSUME NEW s \in Upto(m), s # {}
        PROVE  /\ s \ {CHOOSE x \in s : TRUE} \in Upto(m - 1)
               /\ s \ {CHOOSE x \in s : TRUE} \in Upto(m)
               /\ (CHOOSE x \in s : TRUE) \in D
    <3> DEFINE c == CHOOSE x \in s : TRUE
    <3>1. s \in SUBSET D /\ Cardinality(s) \in Nat /\ Cardinality(s) <= m
      BY <1>1
    <3>2. c \in D /\ s \ {c} \in SUBSET D /\ Cardinality(s \ {c}) = Cardinality(s) - 1
      BY <1>3, <2>6, <3>1
    <3> HIDE DEF c
    <3>3. s \ {c} \in Upto(m - 1) /\ s \ {c} \in Upto(m)
      BY <2>2, <3>1, <3>2
    <3> QED  BY <3>2, <3>3 DEF c
  <2>7. \A s \in Upto(m) : Next(s) \in Int
    <3> TAKE s \in Upto(m)
    <3>1. CASE s = {}
      BY <3>1
    <3>2. CASE s # {}
      <4> DEFINE c == CHOOSE x \in s : TRUE
      <4>1. g[s \ {c}] \in Int /\ f[c] \in Int
        BY <2>5, <2>6, <3>2
      <4> HIDE DEF c
      <4>2. f[c] * g[s \ {c}] \in Int
        BY <4>1
      <4> QED  BY <3>2, <4>2 DEF c
    <3> QED  BY <3>1, <3>2
  <2>8. h \in [Upto(m) -> Int]
    <3>1. \A s \in Upto(m) : s \in Upto(m - 1) => g[s] \in Int
      BY <2>5
    <3> HIDE DEF Upto, Next
    <3> QED  BY <2>7, <3>1
  <2>9. ASSUME NEW s \in Upto(m)
        PROVE  h[s] = IF s = {} THEN 1
                      ELSE f[CHOOSE x \in s : TRUE]
                              * h[s \ {CHOOSE x \in s : TRUE}]
    <3> DEFINE c == CHOOSE x \in s : TRUE
    <3>1. h[s] = Next(s)
      <4>1. s \in Upto(m - 1) => g[s] = Next(s)
        BY <2>5
      <4> HIDE DEF Upto, Next
      <4> QED  BY <4>1
    <3>2. s # {} => h[s \ {c}] = g[s \ {c}]
      <4>1. s # {} => s \ {c} \in Upto(m) /\ s \ {c} \in Upto(m - 1)
        BY <2>6
      <4> HIDE DEF Upto, Next, c
      <4> QED  BY <4>1
    <3> HIDE DEF h, Upto
    <3> QED  BY <3>1, <3>2
  <2>10. Part(m, h)
    <3> HIDE DEF h, Upto
    <3> QED  BY <2>8, <2>9
  <2> QED  BY <2>10, ZenonT(60)
<1>5. PICK g : Part(n, g)
  <2>1. n \in 0 .. n
    BY <1>2
  <2> HIDE DEF Part, n
  <2> QED  BY <1>4, <2>1
<1>6. Upto(n) = SUBSET D
  <2>1. \A s \in SUBSET D : Cardinality(s) <= n
    BY <1>1, <1>2
  <2> QED  BY <2>1
<1>7. g = ProductStep(f, SUBSET D, g)
  <2>1. g \in [SUBSET D -> Int]
    BY <1>5, <1>6
  <2>2. \A s \in SUBSET D : g[s] = IF s = {} THEN 1
                                   ELSE f[CHOOSE x \in s : TRUE]
                                           * g[s \ {CHOOSE x \in s : TRUE}]
    BY <1>5, <1>6
  <2> QED  BY <2>1, <2>2 DEF ProductStep
<1> DEFINE P == Products(f)
<1>8. P = ProductStep(f, SUBSET D, P)
  <2>1. DOMAIN f = D
    OBVIOUS
  <2> QED  BY <1>7, <2>1 DEF Products
<1> DEFINE Wrong == {s \in SUBSET D : P[s] # g[s]}
<1>9. \A s \in SUBSET D : P[s] = IF s = {} THEN 1
                                 ELSE f[CHOOSE x \in s : TRUE]
                                         * P[s \ {CHOOSE x \in s : TRUE}]
  <2> HIDE DEF P
  <2> QED  BY <1>8 DEF ProductStep
<1>10. Wrong = {}
  <2> SUFFICES ASSUME Wrong # {} PROVE FALSE
    OBVIOUS
  <2>1. PICK s \in Wrong : \A r \in Wrong : ~(r \subseteq s /\ r # s)
    <3>1. Wrong \subseteq SUBSET D
      OBVIOUS
    <3> HIDE DEF Wrong
    <3> QED  BY <3>1, SmallestPart
  <2>2. s \in SUBSET D /\ P[s] # g[s]
    OBVIOUS
  <2>3. g[s] = IF s = {} THEN 1 ELSE f[CHOOSE x \in s : TRUE]
                                        * g[s \ {CHOOSE x \in s : TRUE}]
    BY <1>5, <1>6, <2>2
  <2>4. s # {}
    BY <1>9, <2>2, <2>3
  <2> DEFINE c == CHOOSE x \in s : TRUE
  <2>5. c \in s /\ s \ {c} \in SUBSET D
    BY <2>2, <2>4
  <2>6. s \ {c} \notin Wrong
    <3>1. s \ {c} \subseteq s /\ s \ {c} # s
      BY <2>5
    <3> HIDE DEF Wrong, c
    <3> QED  BY <2>1, <3>1
  <2>7. P[s \ {c}] = g[s \ {c}]
    BY <2>5, <2>6
  <2> QED  BY <1>9, <2>2, <2>3, <2>4, <2>7
<1>11. P = g
  <2>1. P = [s \in SUBSET D |-> P[s]] /\ g = [s \in SUBSET D |-> g[s]]
    <3> HIDE DEF P
    <3>1. P = [s \in SUBSET D |-> P[s]]
      BY <1>8 DEF ProductStep
    <3> QED  BY <1>5, <1>6, <3>1
  <2> QED  BY <1>10, <2>1
<1>12. P \in [SUBSET D -> Int] /\ P[{}] = 1
  BY <1>5, <1>6, <1>9, <1>11
<1>13. ASSUME NEW s \in SUBSET D, s # {}
       PROVE  \E x \in s : P[s] = f[x] * P[s \ {x}]
  <2>1. (CHOOSE x \in s : TRUE) \in s
    BY <1>13
  <2> HIDE DEF P
  <2> QED  BY <1>9, <1>13, <2>1
<1>14. \A s \in SUBSET D : s # {} => \E x \in s : FactorOut(f, s, x)
  BY <1>13 DEF FactorOut
<1> QED  BY <1>12, <1>14

\* The order does not matter: any factor can be taken out.
LEMMA AnyFactor ==
    ASSUME NEW D, IsFiniteSet(D), NEW f \in [D -> Int],
           NEW s \in SUBSET D, NEW x \in s
    PROVE  FactorOut(f, s, x)
<1> DEFINE P == Products(f)
           Wrong == {r \in SUBSET D : \E y \in r : P[r] # f[y] * P[r \ {y}]}
<1>0. Products(f) \in [SUBSET D -> Int]
  BY ProductsDefined, Zenon
<1>1. /\ P \in [SUBSET D -> Int]
      /\ \A r \in SUBSET D : r # {} => \E y \in r : P[r] = f[y] * P[r \ {y}]
  <2>1. \A r \in SUBSET D : r # {} => \E y \in r : FactorOut(f, r, y)
    BY ProductsDefined
  <2> QED  BY <1>0, <2>1 DEF FactorOut
<1> HIDE DEF P
<1>2. Wrong = {}
  <2> SUFFICES ASSUME Wrong # {} PROVE FALSE
    OBVIOUS
  <2>1. PICK r \in Wrong : \A q \in Wrong : ~(q \subseteq r /\ q # r)
    <3>1. Wrong \subseteq SUBSET D
      OBVIOUS
    <3> HIDE DEF Wrong
    <3> QED  BY <3>1, SmallestPart
  <2>2. PICK y \in r : P[r] # f[y] * P[r \ {y}]
    OBVIOUS
  <2>3. r \in SUBSET D /\ r # {}
    BY <2>2
  <2>4. PICK c \in r : P[r] = f[c] * P[r \ {c}]
    BY <1>1, <2>3
  <2>5. c # y
    BY <2>2, <2>4
  <2>6. r \ {c} \notin Wrong /\ r \ {y} \notin Wrong
    <3>1. /\ r \ {c} \subseteq r /\ r \ {c} # r
          /\ r \ {y} \subseteq r /\ r \ {y} # r
      OBVIOUS
    <3> HIDE DEF Wrong
    <3> QED  BY <2>1, <3>1
  <2>7. /\ P[r \ {c}] = f[y] * P[(r \ {c}) \ {y}]
        /\ P[r \ {y}] = f[c] * P[(r \ {y}) \ {c}]
    <3>1. /\ r \ {c} \in SUBSET D /\ y \in r \ {c}
          /\ r \ {y} \in SUBSET D /\ c \in r \ {y}
      BY <2>3, <2>5
    <3> QED  BY <2>6, <3>1
  <2>8. (r \ {c}) \ {y} = (r \ {y}) \ {c} /\ (r \ {c}) \ {y} \in SUBSET D
    BY <2>3
  <2>9. PICK a \in Int, b \in Int, p \in Int :
            a = f[c] /\ b = f[y] /\ p = P[(r \ {c}) \ {y}]
    <3>1. f[c] \in Int /\ f[y] \in Int
      BY <2>3
    <3> QED  BY <1>1, <2>8, <3>1
  <2>10. P[r] = a * (b * p) /\ f[y] * P[r \ {y}] = b * (a * p)
    BY <2>4, <2>7, <2>8, <2>9, Zenon
  <2>11. a * (b * p) = b * (a * p)
    BY SMT
  <2> QED  BY <2>2, <2>10, <2>11
<1> QED  BY <1>2 DEF P, FactorOut

\* A product of natural numbers is one.
LEMMA ProductNat ==
    ASSUME NEW D, IsFiniteSet(D), NEW f \in [D -> Nat]
    PROVE  Products(f)[D] \in Nat
<1> DEFINE P == Products(f)
           Wrong == {r \in SUBSET D : P[r] \notin Nat}
<1>1. f \in [D -> Int]
  OBVIOUS
<1>2. P[{}] = 1 /\ \A r \in SUBSET D : r # {} => \E y \in r : FactorOut(f, r, y)
  BY <1>1, ProductsDefined
<1> HIDE DEF P
<1>3. Wrong = {}
  <2> SUFFICES ASSUME Wrong # {} PROVE FALSE
    OBVIOUS
  <2>1. PICK r \in Wrong : \A q \in Wrong : ~(q \subseteq r /\ q # r)
    <3>1. Wrong \subseteq SUBSET D
      OBVIOUS
    <3> HIDE DEF Wrong
    <3> QED  BY <3>1, SmallestPart
  <2>2. r \in SUBSET D /\ r # {} /\ P[r] \notin Nat
    BY <1>2
  <2>3. PICK y \in r : P[r] = f[y] * P[r \ {y}]
    BY <1>2, <2>2 DEF FactorOut, P
  <2>4. r \ {y} \notin Wrong
    <3>1. r \ {y} \subseteq r /\ r \ {y} # r
      OBVIOUS
    <3> HIDE DEF Wrong
    <3> QED  BY <2>1, <3>1
  <2>5. f[y] \in Nat /\ P[r \ {y}] \in Nat
    BY <2>2, <2>4
  <2>6. \A a, b \in Nat : a * b \in Nat
    BY SMT
  <2> QED  BY <2>2, <2>3, <2>5, <2>6
<1> QED  BY <1>3 DEF P

\* The product of a sequence is its first number times the rest's product.
LEMMA ProductOfTail ==
    ASSUME NEW s \in Seq(Int), s # <<>>
    PROVE  /\ Products(s)[DOMAIN s] \in Int
           /\ Products(Tail(s))[DOMAIN Tail(s)] \in Int
           /\ Products(s)[DOMAIN s] = s[1] * Products(Tail(s))[DOMAIN Tail(s)]
<1> DEFINE t == Tail(s)
           P == Products(s)
           Q == Products(t)
           Up(S) == {x + 1 : x \in S}
<1>1. PICK n \in Nat \ {0} : n = Len(s)
  OBVIOUS
<1>2. /\ s \in [1 .. n -> Int] /\ DOMAIN s = 1 .. n
      /\ t \in [1 .. n - 1 -> Int] /\ DOMAIN t = 1 .. n - 1
      /\ \A i \in 1 .. n - 1 : t[i] = s[i + 1]
  <2>1. s \in [1 .. n -> Int] /\ DOMAIN s = 1 .. n
    BY <1>1
  <2>2. t \in Seq(Int) /\ Len(t) = n - 1 /\ \A i \in 1 .. n - 1 : t[i] = s[i + 1]
    BY <1>1, HeadTailProperties
  <2> HIDE DEF t
  <2>3. t \in [1 .. n - 1 -> Int] /\ DOMAIN t = 1 .. n - 1
    BY <2>2
  <2> QED  BY <2>1, <2>2, <2>3
<1> HIDE DEF t
<1>3. IsFiniteSet(1 .. n) /\ IsFiniteSet(1 .. n - 1)
  BY FS_Interval
<1>4. /\ P \in [SUBSET (1 .. n) -> Int] /\ P[{}] = 1
      /\ Q \in [SUBSET (1 .. n - 1) -> Int] /\ Q[{}] = 1
  <2>1. P \in [SUBSET (1 .. n) -> Int] /\ P[{}] = 1
    BY <1>2, <1>3, ProductsDefined
  <2>2. Q \in [SUBSET (1 .. n - 1) -> Int] /\ Q[{}] = 1
    BY <1>2, <1>3, ProductsDefined
  <2> QED  BY <2>1, <2>2
<1>5. \A S \in SUBSET (1 .. n - 1) : S # {} => \E x \in S : FactorOut(t, S, x)
  <2> DEFINE D == 1 .. n - 1
  <2>1. IsFiniteSet(D) /\ t \in [D -> Int]
    BY <1>2, <1>3
  <2> HIDE DEF D
  <2>2. \A S \in SUBSET D : S # {} => \E x \in S : FactorOut(t, S, x)
    BY <2>1, ProductsDefined
  <2> QED  BY <2>2 DEF D
<1>6. \A S \in SUBSET (1 .. n) : \A x \in S : FactorOut(s, S, x)
  BY <1>2, <1>3, AnyFactor
<1> HIDE DEF P, Q
<1> DEFINE Wrong == {S \in SUBSET (1 .. n - 1) : Q[S] # P[Up(S)]}
<1>7. Wrong = {}
  <2> SUFFICES ASSUME Wrong # {} PROVE FALSE
    OBVIOUS
  <2>1. PICK S \in Wrong : \A r \in Wrong : ~(r \subseteq S /\ r # S)
    <3>1. Wrong \subseteq SUBSET (1 .. n - 1) /\ Wrong # {}
      OBVIOUS
    <3> DEFINE D == 1 .. n - 1
    <3>2. IsFiniteSet(D) /\ Wrong \subseteq SUBSET D /\ Wrong # {}
      BY <1>3, <3>1
    <3> HIDE DEF Wrong, D
    <3> QED  BY <3>2, SmallestPart
  <2>2. S \in SUBSET (1 .. n - 1) /\ Q[S] # P[Up(S)]
    OBVIOUS
  <2>3. S # {}
    <3>1. Up({}) = {}
      OBVIOUS
    <3> QED  BY <1>4, <2>2, <3>1
  <2>4. PICK x \in S : Q[S] = t[x] * Q[S \ {x}]
    BY <1>5, <2>2, <2>3 DEF FactorOut, Q
  <2>5. S \ {x} \in SUBSET (1 .. n - 1) /\ S \ {x} \notin Wrong
    <3>1. S \ {x} \subseteq S /\ S \ {x} # S
      OBVIOUS
    <3> HIDE DEF Wrong
    <3> QED  BY <2>1, <2>2, <3>1
  <2>6. Q[S \ {x}] = P[Up(S \ {x})]
    BY <2>5
  <2>7. /\ x \in 1 .. n - 1 /\ x + 1 \in Up(S) /\ Up(S) \in SUBSET (1 .. n)
        /\ Up(S \ {x}) = Up(S) \ {x + 1}
    BY <2>2
  <2>8. P[Up(S)] = s[x + 1] * P[Up(S) \ {x + 1}]
    <3> HIDE DEF Up
    <3> QED  BY <1>6, <2>7 DEF FactorOut, P
  <2>9. t[x] = s[x + 1]
    BY <1>2, <2>7
  <2> QED  BY <2>2, <2>4, <2>6, <2>7, <2>8, <2>9, Zenon
<1>8. Q[1 .. n - 1] = P[Up(1 .. n - 1)]
  <2>1. 1 .. n - 1 \in SUBSET (1 .. n - 1)
    OBVIOUS
  <2> QED  BY <1>7, <2>1
<1>9. Up(1 .. n - 1) = (1 .. n) \ {1}
  <2>1. ASSUME NEW y \in (1 .. n) \ {1} PROVE y \in Up(1 .. n - 1)
    <3>1. y - 1 \in 1 .. n - 1 /\ (y - 1) + 1 = y
      BY <1>1
    <3> QED  BY <3>1
  <2>2. ASSUME NEW x \in 1 .. n - 1 PROVE x + 1 \in (1 .. n) \ {1}
    BY <1>1
  <2> QED  BY <2>1, <2>2
<1>10. P[1 .. n] = s[1] * P[(1 .. n) \ {1}]
  <2>1. 1 \in 1 .. n /\ 1 .. n \in SUBSET (1 .. n)
    BY <1>1
  <2> QED  BY <1>6, <2>1 DEF FactorOut, P
<1>11. P[1 .. n] = s[1] * Q[1 .. n - 1] /\ P[1 .. n] \in Int /\ Q[1 .. n - 1] \in Int
  <2>1. 1 .. n \in SUBSET (1 .. n) /\ 1 .. n - 1 \in SUBSET (1 .. n - 1)
    OBVIOUS
  <2>2. P[1 .. n] \in Int /\ Q[1 .. n - 1] \in Int
    BY <1>4, <2>1
  <2>3. P[1 .. n] = s[1] * Q[1 .. n - 1]
    BY <1>8, <1>9, <1>10, Zenon
  <2> QED  BY <2>2, <2>3
<1> QED  BY <1>2, <1>11 DEF P, Q, t
==============================================================================
