-------------------------- MODULE InferCallProofs ---------------------------
(***************************************************************************)
(* The data of an inference call, proved for every model, request, batch   *)
(* size and number of calls that the assumptions of InferCall allow: where *)
(* the rows of a call lie, what a run leaves on the device and in its      *)
(* outputs, and what an answer holds.                                      *)
(***************************************************************************)
EXTENDS InferCall, DataLemmas

(***************************************************************************)
(* Shapes and tensors.                                                     *)
(***************************************************************************)

\* f is a tensor of n elements.
OfLength(f, n) == f = [e \in 1 .. n |-> f[e]]

\* A tensor has as many elements as its length says.
LEMMA TensorLength ==
    ASSUME NEW f, NEW n \in Nat, OfLength(f, n)
    PROVE  DOMAIN f = 1 .. n /\ Len(f) = n /\ f \in Seq({f[e] : e \in 1 .. n})
<1>1. f \in [1 .. n -> {f[e] : e \in 1 .. n}] /\ DOMAIN f = 1 .. n
  BY DEF OfLength
<1> QED  BY <1>1

\* The fold of NumElements is the last of the running products.
LEMMA ElementsAreProducts ==
    ASSUME NEW dims
    PROVE  NumElements(dims) = Products(dims)[DOMAIN dims]
BY DEF NumElements, FoldSeq, FoldFunction, FoldFunctionOnSet, MapThenFoldSet,
       Products, ProductStep

\* The elements of a shape are those of a row times its rows.
LEMMA ElementsByRow ==
    ASSUME NEW shape \in Seq(Int), shape # <<>>
    PROVE  /\ NumElements(shape) \in Int /\ RowElements(shape) \in Int
           /\ NumElements(shape) = shape[1] * RowElements(shape)
BY ProductOfTail, ElementsAreProducts DEF RowElements

\* A static shape has a natural number of elements.
LEMMA StaticElements ==
    ASSUME NEW dims \in Seq(Int), IsStatic(dims)
    PROVE  NumElements(dims) \in Nat
<1>1. PICK n \in Nat : n = Len(dims) /\ DOMAIN dims = 1 .. n
  OBVIOUS
<1>2. dims \in [1 .. n -> Nat]
  <2>1. \A i \in 1 .. n : dims[i] \in Int /\ dims[i] >= 0
    BY <1>1 DEF IsStatic
  <2> QED  BY <1>1, <2>1
<1>3. IsFiniteSet(1 .. n)
  BY FS_Interval
<1>4. Products(dims)[1 .. n] \in Nat
  <2> DEFINE D == 1 .. n
  <2>1. IsFiniteSet(D) /\ dims \in [D -> Nat]
    BY <1>2, <1>3
  <2> HIDE DEF D
  <2>2. Products(dims)[D] \in Nat
    BY <2>1, ProductNat
  <2> QED  BY <2>2 DEF D
<1> QED  BY <1>1, <1>4, ElementsAreProducts

\* Shapes that agree behind dimension 0 have rows of the same size.
LEMMA SameRows ==
    ASSUME NEW s \in Seq(Int), NEW t \in Seq(Int), s # <<>>, Len(s) = Len(t),
           \A d \in 2 .. Len(s) : s[d] = t[d]
    PROVE  Tail(s) = Tail(t) /\ RowElements(s) = RowElements(t)
<1>1. PICK n \in Nat \ {0} : n = Len(s) /\ n = Len(t)
  OBVIOUS
<1>2. t # <<>>
  BY <1>1
<1>3. /\ Tail(s) \in Seq(Int) /\ Len(Tail(s)) = n - 1
      /\ \A i \in 1 .. n - 1 : Tail(s)[i] = s[i + 1]
      /\ Tail(t) \in Seq(Int) /\ Len(Tail(t)) = n - 1
      /\ \A i \in 1 .. n - 1 : Tail(t)[i] = t[i + 1]
  BY <1>1, <1>2, HeadTailProperties
<1>4. \A i \in 1 .. n - 1 : Tail(s)[i] = Tail(t)[i]
  <2> TAKE i \in 1 .. n - 1
  <2>1. i + 1 \in 2 .. Len(s)
    BY <1>1
  <2> QED  BY <1>3, <2>1
<1>5. Tail(s) = Tail(t)
  <2>1. PICK p \in Seq(Int), q \in Seq(Int) : p = Tail(s) /\ q = Tail(t)
    BY <1>3
  <2>2. Len(p) = Len(q) /\ \A i \in 1 .. Len(p) : p[i] = q[i]
    BY <1>3, <1>4, <2>1
  <2>3. p = q
    BY <2>2, SeqEqual
  <2> QED  BY <2>1, <2>3
<1> QED  BY <1>5 DEF RowElements

\* The types that ModelsAssumption gives the loaded model.
LEMMA ModelTypes ==
    ASSUME model \in Models
    PROVE  /\ Inputs = 1 .. Len(model.inputs) /\ Len(model.inputs) \in Nat
           /\ Outputs = 1 .. Len(model.outputs) /\ Len(model.outputs) \in Nat
           /\ \A i \in Inputs :
                /\ model.inputs[i].name \in STRING
                /\ model.inputs[i].type \in TensorElementType
                /\ model.inputs[i].shape \in Seq(Int)
                /\ ConfigDims(i) \in Seq(Int)
                /\ LET t == model.inputs[i] IN
                   EffectiveShape(t.name, t.shape, model.inShapes) \in Seq(Int)
           /\ \A o \in Outputs :
                /\ model.outputs[o].name \in STRING
                /\ model.outputs[o].type \in TensorElementType
                /\ model.outputs[o].shape \in Seq(Int)
                /\ model.outputs[o].row \in Seq(Nat)
                /\ OutWidth(o) \in Nat
           /\ \A i, j \in Inputs : model.inputs[i].name = model.inputs[j].name => i = j
           /\ model.gpu \in BOOLEAN
<1>1. /\ model.inputs \in Seq([name : STRING, type : TensorElementType,
                               shape : Seq(Int)])
      /\ model.outputs \in Seq([name : STRING, type : TensorElementType,
                                shape : Seq(Int), row : Seq(Nat)])
      /\ \A i, j \in DOMAIN model.inputs :
            model.inputs[i].name = model.inputs[j].name => i = j
      /\ \A name \in DOMAIN model.inShapes : model.inShapes[name] \in Seq(Int)
      /\ model.gpu \in BOOLEAN
  BY ModelsAssumption
<1>2. /\ Inputs = 1 .. Len(model.inputs) /\ Len(model.inputs) \in Nat
      /\ Outputs = 1 .. Len(model.outputs) /\ Len(model.outputs) \in Nat
  BY <1>1 DEF Inputs, Outputs
<1>3. ASSUME NEW i \in Inputs
      PROVE  /\ model.inputs[i].name \in STRING
             /\ model.inputs[i].type \in TensorElementType
             /\ model.inputs[i].shape \in Seq(Int)
             /\ ConfigDims(i) \in Seq(Int)
             /\ LET t == model.inputs[i] IN
                EffectiveShape(t.name, t.shape, model.inShapes) \in Seq(Int)
  <2>1. model.inputs[i] \in [name : STRING, type : TensorElementType,
                             shape : Seq(Int)]
    <3> DEFINE T == [name : STRING, type : TensorElementType, shape : Seq(Int)]
    <3>1. PICK ins \in Seq(T) : ins = model.inputs
      BY <1>1
    <3> HIDE DEF T
    <3>2. ins[i] \in T
      BY <3>1 DEF Inputs
    <3> QED  BY <3>1, <3>2 DEF T
  <2>2. /\ model.inputs[i].name \in STRING
        /\ model.inputs[i].type \in TensorElementType
        /\ model.inputs[i].shape \in Seq(Int)
    BY <2>1
  <2>3. ConfigDims(i) \in Seq(Int)
    BY <1>1, <2>2 DEF ConfigDims, ReplacedShape
  <2>4. ASSUME NEW shape \in Seq(Int), NEW name
        PROVE  EffectiveShape(name, shape, model.inShapes) \in Seq(Int)
    <3>1. PICK n \in Nat : n = Len(shape) /\ DOMAIN shape = 1 .. n
      OBVIOUS
    <3>2. ASSUME NEW d \in 1 .. n
          PROVE  (IF d > 1 /\ name \in DOMAIN model.inShapes
                        /\ d <= Len(model.inShapes[name])
                  THEN model.inShapes[name][d] ELSE shape[d]) \in Int
      <4>1. CASE d > 1 /\ name \in DOMAIN model.inShapes
                       /\ d <= Len(model.inShapes[name])
        <5>1. PICK full \in Seq(Int) : full = model.inShapes[name]
          BY <1>1, <4>1
        <5>2. d \in 1 .. Len(full)
          BY <4>1, <5>1
        <5> QED  BY <4>1, <5>1, <5>2
      <4>2. shape[d] \in Int
        BY <3>1
      <4> QED  BY <4>1, <4>2
    <3>3. EffectiveShape(name, shape, model.inShapes) \in [1 .. n -> Int]
      BY <3>1, <3>2 DEF EffectiveShape
    <3> QED  BY <3>3
  <2> QED  BY <2>2, <2>3, <2>4
<1>4. ASSUME NEW o \in Outputs
      PROVE  /\ model.outputs[o].name \in STRING
             /\ model.outputs[o].type \in TensorElementType
             /\ model.outputs[o].shape \in Seq(Int)
             /\ model.outputs[o].row \in Seq(Nat)
             /\ OutWidth(o) \in Nat
  <2>1. model.outputs[o] \in [name : STRING, type : TensorElementType,
                              shape : Seq(Int), row : Seq(Nat)]
    <3> DEFINE T == [name : STRING, type : TensorElementType,
                     shape : Seq(Int), row : Seq(Nat)]
    <3>1. PICK outs \in Seq(T) : outs = model.outputs
      BY <1>1
    <3> HIDE DEF T
    <3>2. outs[o] \in T
      BY <3>1 DEF Outputs
    <3> QED  BY <3>1, <3>2 DEF T
  <2>2. model.outputs[o].row \in Seq(Nat)
    BY <2>1
  <2>3. model.outputs[o].row \in Seq(Int) /\ IsStatic(model.outputs[o].row)
    <3>1. PICK row \in Seq(Nat) : row = model.outputs[o].row
      BY <2>2
    <3>2. row \in Seq(Int) /\ \A i \in DOMAIN row : row[i] >= 0
      OBVIOUS
    <3> QED  BY <3>1, <3>2 DEF IsStatic
  <2>4. OutWidth(o) \in Nat
    BY <2>3, StaticElements DEF OutWidth
  <2> QED  BY <2>1, <2>2, <2>4
<1> QED  BY <1>1, <1>2, <1>3, <1>4 DEF Inputs

(***************************************************************************)
(* The chunks of a reservation.                                            *)
(***************************************************************************)
LEMMA BatchStarts ==
    ASSUME NEW a \in Int, NEW b \in Int
    PROVE  /\ a * BatchSize \in Int /\ (a + 1) * BatchSize = a * BatchSize + BatchSize
           /\ a < b => a * BatchSize + BatchSize <= b * BatchSize
           /\ a <= b => a * BatchSize <= b * BatchSize
<1>1. BatchSize \in Nat \ {0}
  BY InferBounds
<1>2. /\ a * BatchSize \in Int /\ b * BatchSize \in Int
      /\ (a + 1) * BatchSize = a * BatchSize + BatchSize
  BY <1>1, SMT
<1>3. ASSUME a < b PROVE a * BatchSize + BatchSize <= b * BatchSize
  <2>1. (b - a) * BatchSize >= BatchSize
    BY <1>1, <1>3, SMT
  <2>2. (b - a) * BatchSize = b * BatchSize - a * BatchSize
    BY <1>1, SMT
  <2> QED  BY <1>1, <1>2, <2>1, <2>2
<1>4. a <= b => a * BatchSize <= b * BatchSize
  BY <1>1, <1>2, <1>3
<1> QED  BY <1>2, <1>3, <1>4

\* The number of the batch that holds a slot.
LEMMA BatchOfSlot ==
    ASSUME NEW at \in Nat
    PROVE  /\ at \div BatchSize \in Nat
           /\ (at \div BatchSize) * BatchSize <= at
           /\ at < (at \div BatchSize) * BatchSize + BatchSize
<1>1. BatchSize \in Nat \ {0}
  BY InferBounds
<1>2. /\ at = BatchSize * (at \div BatchSize) + (at % BatchSize)
      /\ at \div BatchSize \in Nat
      /\ at % BatchSize \in Nat /\ at % BatchSize < BatchSize
  BY <1>1, SMT
<1>3. PICK q \in Nat, r \in Nat : /\ q = at \div BatchSize /\ r < BatchSize
                                  /\ at = BatchSize * q + r
  BY <1>2
<1>4. q * BatchSize <= at /\ at < q * BatchSize + BatchSize
  BY <1>1, <1>3, SMT
<1> QED  BY <1>3, <1>4

\* What a chunk is, whatever the number of batches.
ChunkType == [batch : Nat, start : 0 .. BatchSize - 1, end : 1 .. BatchSize,
              row : Nat]

\* Where chunk ch lies among the rows at .. at + n - 1, opaque to the provers.
LiesIn(ch, at, n) ==
    /\ ch \in ChunkType
    /\ ch.start < ch.end
    /\ ch.batch * BatchSize + ch.start = at + ch.row
    /\ ch.batch * BatchSize + ch.end <= at + n
    /\ at < ch.batch * BatchSize + BatchSize
    /\ ch.row + (ch.end - ch.start) <= n

\* The chunks of a reservation follow each other without a gap, one per batch.
LEMMA ChunkPlaces ==
    ASSUME NEW at \in Nat, NEW n \in Nat \ {0}
    PROVE  LET cs == Chunks(at, n) IN
           /\ cs \in Seq(ChunkType) /\ Len(cs) \in Nat \ {0}
           /\ DOMAIN cs = 1 .. Len(cs)
           /\ \A k \in 1 .. Len(cs) : /\ LiesIn(cs[k], at, n)
                                      /\ cs[k].batch = at \div BatchSize + k - 1
           /\ \A j, k \in 1 .. Len(cs) : cs[j].batch = cs[k].batch => j = k
           /\ cs[1].row = 0
           /\ \A k \in 1 .. Len(cs) :
                cs[k].row + (cs[k].end - cs[k].start)
                    = IF k = Len(cs) THEN n ELSE cs[k + 1].row
<1> DEFINE first == at \div BatchSize
           last == (at + n - 1) \div BatchSize
           B(b) == b * BatchSize
           m == last - first + 1
           cs == Chunks(at, n)
           Ch(k) == LET b == first + k - 1
                        from == IF k = 1 THEN at ELSE b * BatchSize
                        to == IF b = last THEN at + n ELSE (b + 1) * BatchSize
                    IN  [batch |-> b, start |-> from - b * BatchSize,
                         end |-> to - b * BatchSize, row |-> from - at]
<1>1. BatchSize \in Nat \ {0}
  BY InferBounds
<1>2. /\ first \in Nat /\ B(first) \in Int
      /\ B(first) <= at /\ at < B(first) + BatchSize
  BY BatchOfSlot, BatchStarts
<1>3. /\ last \in Nat /\ B(last) \in Int
      /\ B(last) <= at + n - 1 /\ at + n - 1 < B(last) + BatchSize
  <2>1. at + n - 1 \in Nat
    OBVIOUS
  <2> QED  BY <2>1, BatchOfSlot, BatchStarts
<1>4. cs = [k \in 1 .. m |-> Ch(k)]
  BY DEF Chunks
<1> HIDE DEF first, last
<1>5. first <= last
  <2>1. last < first => B(last) + BatchSize <= B(first)
    BY <1>2, <1>3, BatchStarts
  <2> QED  BY <1>1, <1>2, <1>3, <2>1
<1>6. m \in Nat \ {0}
  BY <1>2, <1>3, <1>5
<1>7. ASSUME NEW k \in 1 .. m
      PROVE  /\ LiesIn(Ch(k), at, n) /\ Ch(k).batch = first + k - 1
             /\ k = 1 => Ch(k).row = 0
             /\ Ch(k).row + (Ch(k).end - Ch(k).start)
                    = IF k = m THEN n ELSE Ch(k + 1).row
  <2>1. PICK b \in Nat : b = first + k - 1 /\ first <= b /\ b <= last
    BY <1>2, <1>3, <1>6
  <2>2. PICK y \in Int : y = b * BatchSize
    BY BatchStarts
  <2>3. (b + 1) * BatchSize = y + BatchSize
    BY <2>2, BatchStarts
  <2>4. /\ k = 1 => y = B(first) /\ b = first
        /\ k # 1 => B(first) + BatchSize <= y
        /\ b # last => y + BatchSize <= B(last)
        /\ b = last => y = B(last)
        /\ b = last <=> k = m
        /\ k # m => k + 1 # 1 /\ first + (k + 1) - 1 = b + 1
    <3>1. k # 1 => first < b
      BY <1>2, <2>1
    <3>2. b # last => b < last
      BY <1>3, <2>1
    <3>3. (b = last <=> k = m) /\ (k = 1 => b = first)
          /\ (k # m => k + 1 # 1 /\ first + (k + 1) - 1 = b + 1)
      BY <1>2, <1>3, <2>1
    <3>4. k # 1 => B(first) + BatchSize <= y
      BY <1>2, <2>1, <2>2, <3>1, BatchStarts
    <3>5. b # last => y + BatchSize <= B(last)
      BY <1>3, <2>1, <2>2, <3>2, BatchStarts
    <3>6. (k = 1 => y = B(first)) /\ (b = last => y = B(last))
      BY <2>2, <3>3
    <3> HIDE DEF B, m
    <3> QED  BY <3>3, <3>4, <3>5, <3>6
  <2> DEFINE from == IF k = 1 THEN at ELSE y
             to == IF b = last THEN at + n ELSE y + BatchSize
  <2>5. Ch(k) = [batch |-> b, start |-> from - y, end |-> to - y, row |-> from - at]
    BY <2>1, <2>2, <2>3
  <2>14. PICK w : w = y + BatchSize /\ w = (b + 1) * BatchSize
    BY <2>3
  <2>6. k # m => Ch(k + 1).row = w - at
    BY <2>4, <2>14
  <2>7. PICK f \in Int, l \in Int, z \in Nat \ {0} :
            f = B(first) /\ l = B(last) /\ z = BatchSize
    BY <1>1, <1>2, <1>3
  <2>8. /\ f <= at /\ at < f + z /\ l <= at + n - 1 /\ at + n - 1 < l + z
        /\ k = 1 => y = f
        /\ k # 1 => f + z <= y
        /\ b # last => y + z <= l
        /\ b = last => y = l
    BY <1>2, <1>3, <2>4, <2>7
  <2>9. /\ from - y \in 0 .. z - 1 /\ to - y \in 1 .. z /\ from - at \in Nat
        /\ from - y < to - y
        /\ y + (from - y) = at + (from - at)
        /\ y + (to - y) <= at + n
        /\ at < y + z
        /\ (from - at) + ((to - y) - (from - y)) <= n
        /\ k = 1 => from - at = 0
        /\ b = last => (from - at) + ((to - y) - (from - y)) = n
        /\ b # last => (from - at) + ((to - y) - (from - y)) = w - at
    <3>1. from \in Int /\ to \in Int
      BY <2>7
    <3>2. w = y + z
      BY <2>7, <2>14
    <3> QED  BY <2>7, <2>8, <3>2
  <2>10. LiesIn(Ch(k), at, n)
    <3> DEFINE c == [batch |-> b, start |-> from - y, end |-> to - y,
                     row |-> from - at]
    <3>1. c \in ChunkType
      BY <2>7, <2>9 DEF ChunkType
    <3>2. /\ c.batch = b /\ c.start = from - y /\ c.end = to - y
          /\ c.row = from - at
      OBVIOUS
    <3> HIDE DEF c
    <3>3. LiesIn(c, at, n)
      BY <2>2, <2>7, <2>9, <3>1, <3>2 DEF LiesIn
    <3> QED  BY <2>5, <3>3 DEF c
  <2>11. Ch(k).batch = first + k - 1 /\ (k = 1 => Ch(k).row = 0)
    BY <2>1, <2>5, <2>9
  <2>12. Ch(k).row + (Ch(k).end - Ch(k).start)
            = (from - at) + ((to - y) - (from - y))
    BY <2>5
  <2>13. Ch(k).row + (Ch(k).end - Ch(k).start)
            = IF k = m THEN n ELSE Ch(k + 1).row
    <3> HIDE DEF Ch, from, to
    <3> QED  BY <2>4, <2>6, <2>7, <2>9, <2>12
  <2> QED  BY <2>10, <2>11, <2>13
<1> HIDE DEF Ch, cs
<1>8. cs \in [1 .. m -> ChunkType] /\ \A k \in 1 .. m : cs[k] = Ch(k)
  BY <1>4, <1>7 DEF LiesIn
<1> HIDE DEF m
<1>9. cs \in Seq(ChunkType) /\ Len(cs) = m /\ DOMAIN cs = 1 .. m
  BY <1>6, <1>8
<1>10. \A j, k \in 1 .. m : cs[j].batch = cs[k].batch => j = k
  <2> TAKE j, k \in 1 .. m
  <2>1. cs[j].batch = first + j - 1 /\ cs[k].batch = first + k - 1
    BY <1>7, <1>8
  <2> QED  BY <1>2, <2>1
<1>11. cs[1].row = 0
  <2>1. 1 \in 1 .. m
    BY <1>6
  <2> QED  BY <1>7, <1>8, <2>1
<1>12. \A k \in 1 .. m : cs[k].row + (cs[k].end - cs[k].start)
                            = IF k = m THEN n ELSE cs[k + 1].row
  <2> TAKE k \in 1 .. m
  <2>1. k # m => k + 1 \in 1 .. m
    BY <1>6
  <2>2. cs[k] = Ch(k) /\ (k # m => cs[k + 1] = Ch(k + 1))
    BY <1>8, <2>1
  <2>3. Ch(k).row + (Ch(k).end - Ch(k).start) = IF k = m THEN n ELSE Ch(k + 1).row
    BY <1>7
  <2> QED  BY <2>2, <2>3, Zenon
<1>13. \A k \in 1 .. m : LiesIn(cs[k], at, n) /\ cs[k].batch = first + k - 1
  BY <1>7, <1>8
<1> QED  BY <1>6, <1>9, <1>10, <1>11, <1>12, <1>13 DEF cs, first

(***************************************************************************)
(* The order of the inputs.                                                *)
(***************************************************************************)

\* A one-to-one function on 1 .. n reaches every number.
LEMMA OneToOneOnto ==
    ASSUME NEW n \in Nat, NEW f \in [1 .. n -> 1 .. n],
           \A j, k \in 1 .. n : f[j] = f[k] => j = k
    PROVE  \A y \in 1 .. n : \E x \in 1 .. n : f[x] = y
<1> DEFINE S == 1 .. n
<1>1. IsFiniteSet(S)
  BY FS_Interval
<1>2. f \in Injection(S, S)
  BY DEF Injection, IsInjective
<1> HIDE DEF S
<1>3. f \in Surjection(S, S)
  BY <1>1, <1>2, FS_Injection
<1>4. \A y \in S : \E x \in S : f[x] = y
  BY <1>3 DEF Surjection
<1> QED  BY <1>4 DEF S

\* Sorting 1 .. n leaves every number in its place.
LEMMA SortedInPlace ==
    ASSUME NEW n \in Nat, NEW p \in [1 .. n -> 1 .. n],
           \A j, k \in 1 .. n : p[j] = p[k] => j = k,
           \A j, k \in 1 .. n : p[j] < p[k] => j < k
    PROVE  \A j \in 1 .. n : p[j] = j
<1> DEFINE Wrong == {j \in 1 .. n : p[j] # j}
<1>1. SUFFICES ASSUME Wrong # {} PROVE FALSE
  OBVIOUS
<1>2. PICK j \in Wrong : \A k \in Wrong : j <= k
  <2>1. Wrong \subseteq Nat
    OBVIOUS
  <2> QED  BY <1>1, <2>1, LeastNumber
<1>3. j \in 1 .. n /\ p[j] \in 1 .. n /\ p[j] # j
  OBVIOUS
<1>4. \A i \in 1 .. n : i < j => p[i] = i
  BY <1>2
<1>5. p[j] > j
  <2>1. p[j] < j => p[p[j]] = p[j]
    BY <1>3, <1>4
  <2> QED  BY <1>3, <2>1
<1>6. PICK m \in 1 .. n : p[m] = j
  <2>1. \A y \in 1 .. n : \E x \in 1 .. n : p[x] = y
    BY OneToOneOnto
  <2> HIDE DEF Wrong
  <2> QED  BY <1>3, <2>1
<1>7. m < j
  BY <1>3, <1>5, <1>6
<1> QED  BY <1>3, <1>4, <1>6, <1>7

\* A request that names each of n inputs with n tensors names each once, and
\* ordered_inputs puts them in the order of the model.
Places(req, i) == OrderedInputs(req)[i]

\* The order is a permutation that puts the tensor of input i at place i.
LEMMA InputsInOrder ==
    ASSUME model \in Models, NEW req,
           NEW n \in Nat, n = Len(model.inputs), DOMAIN req.inputs = 1 .. n,
           \A i \in Inputs : \E k \in DOMAIN req.inputs :
                req.inputs[k].name = model.inputs[i].name
    PROVE  /\ DOMAIN OrderedInputs(req) = 1 .. n
           /\ \A i \in 1 .. n :
                /\ Places(req, i) \in 1 .. n
                /\ req.inputs[Places(req, i)].name = model.inputs[i].name
           /\ \A k \in 1 .. n : \E i \in 1 .. n : Places(req, i) = k
<1>1. Inputs = 1 .. n /\ \A i, j \in Inputs :
            model.inputs[i].name = model.inputs[j].name => i = j
  BY ModelTypes
<1> DEFINE N(i) == model.inputs[i].name
           R(k) == req.inputs[k].name
<1>16. /\ \A i, j \in 1 .. n : N(i) = N(j) => i = j
       /\ \A i \in 1 .. n : \E k \in 1 .. n : R(k) = N(i)
  BY <1>1
<1>17. \A t : Order(t) = CHOOSE i \in 1 .. n : N(i) = t.name
  <2>1. \A j \in Inputs : InputMeta[j].name = model.inputs[j].name
    BY DEF InputMeta, MetaOf, Published, Inputs
  <2>2. ASSUME NEW t PROVE Order(t) = CHOOSE i \in 1 .. n : N(i) = t.name
    <3>1. \A j : (j \in Inputs /\ InputMeta[j].name = t.name)
                    <=> (j \in 1 .. n /\ N(j) = t.name)
      BY <1>1, <2>1
    <3>2. (CHOOSE j : j \in Inputs /\ InputMeta[j].name = t.name)
            = (CHOOSE j : j \in 1 .. n /\ N(j) = t.name)
      BY <3>1
    <3> QED  BY <3>2 DEF Order
  <2> QED  BY <2>2
<1>18. \A k \in 1 .. n : Order(req.inputs[k]) = CHOOSE i \in 1 .. n : N(i) = R(k)
  BY <1>17
<1> HIDE DEF N, R
<1> DEFINE K == [i \in 1 .. n |-> CHOOSE k \in 1 .. n : R(k) = N(i)]
<1>2. \A i \in 1 .. n : K[i] \in 1 .. n /\ R(K[i]) = N(i)
  BY <1>16
<1>3. K \in [1 .. n -> 1 .. n] /\ \A i, j \in 1 .. n : K[i] = K[j] => i = j
  <2>1. K \in [1 .. n -> 1 .. n]
    BY <1>2
  <2> HIDE DEF K
  <2>2. \A i, j \in 1 .. n : K[i] = K[j] => i = j
    <3> SUFFICES ASSUME NEW i \in 1 .. n, NEW j \in 1 .. n, K[i] = K[j]
                 PROVE  i = j
      OBVIOUS
    <3>1. R(K[i]) = N(i) /\ R(K[j]) = N(j)
      BY <1>2
    <3>2. N(i) = N(j)
      BY <3>1
    <3> QED  BY <1>16, <3>2
  <2> QED  BY <2>1, <2>2
<1> HIDE DEF K
<1>4. \A k \in 1 .. n : \E i \in 1 .. n : K[i] = k
  BY <1>3, OneToOneOnto, ZenonT(60)
<1>6. \A i \in 1 .. n : Order(req.inputs[K[i]]) = i
  <2> TAKE i \in 1 .. n
  <2>1. \A j \in 1 .. n : N(j) = R(K[i]) <=> j = i
    <3>1. K[i] \in 1 .. n /\ R(K[i]) = N(i)
      BY <1>2
    <3>2. \A j \in 1 .. n : N(j) = N(i) => j = i
      BY <1>16
    <3> QED  BY <3>1, <3>2, Zenon
  <2>2. (CHOOSE j \in 1 .. n : N(j) = R(K[i])) = i
    BY <2>1
  <2> QED  BY <1>2, <1>18, <2>2
<1>7. \A k \in 1 .. n : /\ Order(req.inputs[k]) \in 1 .. n
                        /\ K[Order(req.inputs[k])] = k
  <2> TAKE k \in 1 .. n
  <2>1. PICK i \in 1 .. n : K[i] = k
    BY <1>4
  <2> QED  BY <1>6, <2>1
<1> DEFINE Sorted(order) == \A j, k \in DOMAIN order :
                Order(req.inputs[order[j]]) < Order(req.inputs[order[k]]) => j < k
           S == SetToSeqs(DOMAIN req.inputs)
           ord == OrderedInputs(req)
<1>8. S = {f \in [1 .. n -> 1 .. n] : \A i, j \in 1 .. n : i # j => f[i] # f[j]}
  <2>1. Cardinality(1 .. n) = n
    BY FS_Interval
  <2> QED  BY <2>1 DEF SetToSeqs
<1>9. K \in S /\ Sorted(K)
  <2>1. K \in S
    BY <1>3, <1>8
  <2>2. Sorted(K)
    BY <1>3, <1>6
  <2> QED  BY <2>1, <2>2
<1>10. ord \in S /\ Sorted(ord)
  <2>1. ord = CHOOSE order \in S : Sorted(order)
    BY DEF OrderedInputs
  <2> HIDE DEF ord, S, Sorted
  <2> QED  BY <1>9, <2>1
<1>11. ord \in [1 .. n -> 1 .. n] /\ \A i, j \in 1 .. n : ord[i] = ord[j] => i = j
  <2> HIDE DEF ord, Sorted
  <2> QED  BY <1>8, <1>10
<1> DEFINE p == [j \in 1 .. n |-> Order(req.inputs[ord[j]])]
<1>12. \A j \in 1 .. n : p[j] = j
  <2>1. \A j \in 1 .. n : ord[j] \in 1 .. n
    BY <1>11
  <2>2. p \in [1 .. n -> 1 .. n]
    BY <1>7, <2>1
  <2>3. \A j, k \in 1 .. n : p[j] = p[k] => j = k
    <3> TAKE j, k \in 1 .. n
    <3>1. K[p[j]] = ord[j] /\ K[p[k]] = ord[k]
      BY <1>7, <2>1
    <3> HIDE DEF p, ord
    <3> QED  BY <1>11, <3>1
  <2>4. \A j, k \in 1 .. n : p[j] < p[k] => j < k
    <3>1. DOMAIN ord = 1 .. n
      BY <1>11
    <3> QED  BY <1>10, <3>1
  <2> HIDE DEF p
  <2> QED  BY <2>2, <2>3, <2>4, SortedInPlace
<1>13. \A i \in 1 .. n : ord[i] = K[i]
  <2> TAKE i \in 1 .. n
  <2>1. ord[i] \in 1 .. n /\ Order(req.inputs[ord[i]]) = i
    BY <1>11, <1>12
  <2> QED  BY <1>7, <2>1
<1>14. DOMAIN ord = 1 .. n
  BY <1>11
<1> HIDE DEF ord
<1>15. /\ \A i \in 1 .. n : /\ ord[i] \in 1 .. n
                            /\ req.inputs[ord[i]].name = model.inputs[i].name
       /\ \A k \in 1 .. n : \E i \in 1 .. n : ord[i] = k
  BY <1>2, <1>4, <1>13 DEF N, R
<1> QED  BY <1>14, <1>15 DEF ord, Places

\* What a client sends for input i of the model, opaque to the provers.
SentFor(c, req, i, k) ==
    LET t == req.inputs[k] IN
    /\ k \in DOMAIN req.inputs
    /\ TensorBytes(c, req)[i] = [datatype |-> FromStr(t.datatype),
                                 shape |-> t.shape,
                                 data |-> RawContents(c, req, k)]
    /\ t.shape \in Seq(Int) /\ Len(t.shape) \in Nat
    /\ t.name = model.inputs[i].name

\* The tensors of a request have names and shapes.
LEMMA RequestTypes ==
    ASSUME model \in Models, NEW req \in Requests(MetaOf(model))
    PROVE  /\ Len(req.inputs) \in Nat \ {0}
           /\ DOMAIN req.inputs = 1 .. Len(req.inputs)
           /\ \A k \in DOMAIN req.inputs :
                /\ req.inputs[k].shape \in Seq(Int)
                /\ Len(req.inputs[k].shape) \in Nat
<1> DEFINE T == [name : STRING, datatype : STRING, shape : Seq(Int)]
<1>1. req.inputs \in Seq(T) /\ req.inputs # <<>>
  BY RequestsAssumption
<1>2. PICK ins \in Seq(T) : ins = req.inputs
  BY <1>1
<1>3. \A t \in T : t.shape \in Seq(Int) /\ Len(t.shape) \in Nat
  OBVIOUS
<1> HIDE DEF T
<1>4. Len(ins) \in Nat \ {0} /\ DOMAIN ins = 1 .. Len(ins)
  BY <1>1, <1>2
<1>5. \A k \in DOMAIN ins : ins[k] \in T
  BY <1>4
<1> QED  BY <1>2, <1>3, <1>4, <1>5

\* `model_infer` finds a tensor for every input, in the order of the model.
LEMMA EachInputSent ==
    ASSUME model \in Models, NEW c, NEW req \in Requests(MetaOf(model)),
           Len(req.inputs) = Len(model.inputs),
           \A i \in Inputs : \E k \in DOMAIN req.inputs :
                req.inputs[k].name = model.inputs[i].name
    PROVE  /\ \A i \in Inputs : \E k \in DOMAIN req.inputs : SentFor(c, req, i, k)
           /\ \A k \in DOMAIN req.inputs : \E i \in Inputs :
                    SentFor(c, req, i, k)
           /\ 1 \in Inputs /\ 1 \in DOMAIN req.inputs
<1>1. PICK n \in Nat \ {0} : n = Len(req.inputs)
  BY RequestTypes
<1>2. DOMAIN req.inputs = 1 .. n /\ Inputs = 1 .. n
  BY <1>1, RequestTypes, ModelTypes
<1>3. /\ DOMAIN OrderedInputs(req) = 1 .. n
      /\ \A i \in 1 .. n :
                /\ Places(req, i) \in 1 .. n
                /\ req.inputs[Places(req, i)].name = model.inputs[i].name
      /\ \A k \in 1 .. n : \E i \in 1 .. n : Places(req, i) = k
  BY <1>1, <1>2, InputsInOrder
<1>4. ASSUME NEW i \in 1 .. n PROVE SentFor(c, req, i, Places(req, i))
  <2>1. PICK k \in 1 .. n : k = Places(req, i) /\ k = OrderedInputs(req)[i]
    BY <1>3 DEF Places
  <2>2. TensorBytes(c, req)[i] = [datatype |-> FromStr(req.inputs[k].datatype),
                                  shape |-> req.inputs[k].shape,
                                  data |-> RawContents(c, req, k)]
    BY <1>3, <2>1 DEF TensorBytes
  <2>3. req.inputs[k].shape \in Seq(Int) /\ Len(req.inputs[k].shape) \in Nat
    BY <1>2, RequestTypes
  <2> QED  BY <1>2, <1>3, <2>1, <2>2, <2>3 DEF SentFor
<1> QED  BY <1>1, <1>2, <1>3, <1>4

\* Behind the checks of model_infer: as many rows of every input, at least
\* one, of the dimensions of the model.
LEMMA ValidRequests ==
    ASSUME model \in Models, NEW c, NEW req \in Requests(MetaOf(model)),
           IsValid(req)
    PROVE  /\ \A i \in Inputs : \E k \in DOMAIN req.inputs :
                /\ SentFor(c, req, i, k)
                /\ Matches(req.inputs[k], model.inputs[i].name, ConfigDims(i))
           /\ 1 \in Inputs /\ 1 \in DOMAIN req.inputs
           /\ \A j, k \in DOMAIN req.inputs :
                req.inputs[j].shape[1] = req.inputs[k].shape[1]
           /\ TensorBytes(c, req)[1].shape[1] = req.inputs[1].shape[1]
<1> DEFINE meta == MetaOf(model)
<1>1. /\ DOMAIN meta = Inputs
      /\ \A i \in Inputs : /\ meta[i].name = model.inputs[i].name
                           /\ meta[i].shape = ConfigDims(i)
  BY DEF MetaOf, Published, ConfigDims, Inputs
<1>2. ASSUME NEW k \in DOMAIN req.inputs
      PROVE  \E i \in DOMAIN meta :
                Matches(req.inputs[k], meta[i].name, meta[i].shape)
  BY <1>1 DEF IsValid
<1>3. SuitsInfer(meta, req)
  BY <1>2, RequestsAssumption
<1>4. Len(req.inputs) = Len(model.inputs)
  <2>1. Len(meta) = Len(model.inputs)
    <3>1. PICK n \in Nat : n = Len(model.inputs) /\ Inputs = 1 .. n
      BY ModelTypes
    <3>2. meta = [i \in 1 .. n |-> meta[i]]
      BY <1>1, <3>1 DEF MetaOf, Inputs
    <3> HIDE DEF meta
    <3>3. Len(meta) = n
      BY <3>2, TensorLength DEF OfLength
    <3> QED  BY <3>1, <3>3
  <2> QED  BY <1>3, <2>1 DEF SuitsInfer
<1>5. \A i \in Inputs : \E k \in DOMAIN req.inputs :
            req.inputs[k].name = model.inputs[i].name
  BY <1>1, <1>3 DEF SuitsInfer
<1>6. /\ \A i \in Inputs : \E k \in DOMAIN req.inputs : SentFor(c, req, i, k)
      /\ 1 \in Inputs /\ 1 \in DOMAIN req.inputs
  BY <1>4, <1>5, EachInputSent
<1>7. ASSUME NEW i \in Inputs
      PROVE  \E k \in DOMAIN req.inputs :
                /\ SentFor(c, req, i, k)
                /\ Matches(req.inputs[k], model.inputs[i].name, ConfigDims(i))
  <2>1. PICK k \in DOMAIN req.inputs : SentFor(c, req, i, k)
    BY <1>6
  <2>2. PICK j \in Inputs : Matches(req.inputs[k], model.inputs[j].name, ConfigDims(j))
    BY DEF IsValid
  <2>3. model.inputs[j].name = model.inputs[i].name
    BY <2>1, <2>2 DEF SentFor, Matches
  <2>4. j = i
    BY <2>3, ModelTypes
  <2> QED  BY <2>1, <2>2, <2>4
<1>8. \A j, k \in DOMAIN req.inputs : req.inputs[j].shape[1] = req.inputs[k].shape[1]
  BY <1>3 DEF SuitsInfer
<1>9. TensorBytes(c, req)[1].shape[1] = req.inputs[1].shape[1]
  <2>1. PICK k \in DOMAIN req.inputs : SentFor(c, req, 1, k)
    BY <1>6
  <2>2. TensorBytes(c, req)[1].shape = req.inputs[k].shape
    BY <2>1 DEF SentFor
  <2> QED  BY <1>6, <1>8, <2>2
<1> QED  BY <1>6, <1>7, <1>8, <1>9

(***************************************************************************)
(* The inductive invariant.                                                *)
(***************************************************************************)

\* load_model got through: the shapes are accepted and the buffers exist.
Loaded == phase \in {"serving", "copy_panic"}

\* What load_model checked, and what it left alone when it failed.
LoadInv ==
    /\ phase \in Phases
    /\ model \in Models
    /\ Loaded => /\ ShapesAccepted /\ WarmupSucceeds
                 /\ model.gpu => GpuTensorsAllocated
    /\ ~Loaded => /\ head = 0 /\ batch = 0 /\ pc = "idle" /\ stream = <<>>
                  /\ call = [c \in Calls |-> "new"]
                  /\ resv = [c \in Calls |-> <<>>]

\* Every batch has a tensor of its own for every input, of its full length.
BufferInv ==
    Loaded => /\ buffer = [b \in BatchIds |-> buffer[b]]
              /\ \A b \in BatchIds :
                    /\ buffer[b] = [i \in Inputs |-> buffer[b][i]]
                    /\ \A i \in Inputs :
                        OfLength(buffer[b][i], BatchSize * Width(i))

\* Batches run in order; a running one is sealed: head is past it.
OrderInv ==
    /\ head \in 0 .. Capacity /\ batch \in 0 .. MaxBatches
    /\ pc \in SessionSteps
    /\ batch * BatchSize <= head
    /\ pc # "idle" => batch \in BatchIds /\ (batch + 1) * BatchSize <= head
    /\ written \in [BatchIds -> 0 .. BatchSize]
    /\ \A b \in BatchIds :
        written[b] > 0 => b * BatchSize + written[b] <= head

\* What is handed out lies below head.
CallInv ==
    /\ call \in [Calls -> CallStatuses]
    /\ request = [c \in Calls |-> request[c]]
    /\ reply = [c \in Calls |-> reply[c]]
    /\ resv \in [Calls -> Seq(Reservation)]
    /\ \A c \in Calls : \A k \in DOMAIN resv[c] :
        resv[c][k].batch * BatchSize + resv[c][k].end <= head

\* Batches that ran have a result, no other has, and results are final.
CellInv ==
    /\ cell = [b \in BatchIds |-> [status |-> cell[b].status,
                                   values |-> cell[b].values]]
    /\ \A b \in BatchIds :
        /\ b < batch => cell[b].status \in {"ok", "err"}
        /\ b >= batch => cell[b].status = "none"
    /\ PublishedOutputsAreFinal

\* Copies to landing tensors are those of the running batch, or dropped.
StreamInv ==
    /\ stream \in Seq(StreamOps)
    /\ ~model.gpu => stream = <<>>
    /\ \A k \in DOMAIN stream :
        /\ stream[k].op = "h2d" => stream[k].tensor \in Inputs
        /\ stream[k].op = "d2h" =>
            /\ stream[k].tensor \in Outputs
            /\ \/ cell[stream[k].batch].status = "err"
               \/ pc = "sync" /\ stream[k].batch = batch
    /\ Loaded /\ model.gpu =>
        gpu = [ins  |-> [i \in Inputs |-> gpu.ins[i]],
               outs |-> [o \in Outputs |-> gpu.outs[o]]]
    /\ pc = "run_host" => ~model.gpu
    /\ pc \in {"h2d", "run_binding", "d2h", "sync"} => model.gpu

\* The first n operations leave input i of the running batch on the device:
\* the copy that does is number p of the queue, or it was done before (0).
Fed(i, n) ==
    \E p \in 0 .. n :
        /\ IF p = 0 THEN gpu.ins[i] = buffer[batch][i]
           ELSE /\ stream[p].op = "h2d" /\ stream[p].tensor = i
                /\ stream[p].batch = batch
        /\ \A q \in p + 1 .. n :
            stream[q].op = "h2d" /\ stream[q].tensor = i =>
                stream[q].batch = batch

\* The kernel that runs on the inputs of the running batch is operation p, or
\* ran before (0), and no other one follows.
Computed(p) ==
    /\ IF p = 0 THEN gpu.outs = Kernel(buffer[batch])
       ELSE stream[p].op = "kernel" /\ \A i \in Inputs : Fed(i, p - 1)
    /\ \A q \in p + 1 .. Len(stream) : stream[q].op # "kernel"

\* Output o has landed, or its copy is queued behind operation p.
Lands(o, p) ==
    \/ cell[batch].values[o] = Kernel(buffer[batch])[o]
    \/ \E q \in p + 1 .. Len(stream) :
        /\ stream[q].op = "d2h" /\ stream[q].tensor = o
        /\ stream[q].batch = batch

\* Where the run on the device stands, whatever failed runs left queued.
RunInv ==
    /\ pc = "run_binding" => \A i \in Inputs : Fed(i, Len(stream))
    /\ pc = "d2h" => \E p \in 0 .. Len(stream) : Computed(p)
    /\ pc = "sync" =>
        /\ cell[batch].values = [o \in Outputs |-> cell[batch].values[o]]
        /\ \E p \in 0 .. Len(stream) :
            /\ Computed(p)
            /\ \A q \in 1 .. p : ~(stream[q].op = "d2h" /\ stream[q].batch = batch)
            /\ \A o \in Outputs : Lands(o, p)

\* What was sent is what a client may send; what was refused is not valid.
RequestInv ==
    \A c \in Calls : call[c] # "new" =>
        /\ request[c] \in Requests(MetaOf(model))
        /\ call[c] = "invalid" => ~IsValid(request[c])

\* A waiting call has the chunks of its own rows.
AnswerInv ==
    \A c \in Calls : call[c] \in {"waiting", "ok"} =>
        /\ IsValid(request[c])
        /\ RowsOf(c) \in Nat \ {0}
        /\ \E at \in 0 .. head : resv[c] = Chunks(at, RowsOf(c))

\* What the proofs of the other parts know of the state.
Basics == LoadInv /\ BufferInv /\ OrderInv /\ CallInv

-------------------------------------------------------------------------------
(***************************************************************************)
(* What a step does.                                                       *)
(***************************************************************************)
LEMMA Widths ==
    ASSUME LoadInv, Loaded
    PROVE  \A i \in Inputs : Width(i) \in Nat /\ BatchSize * Width(i) \in Nat
<1>1. BatchSize \in Nat
  BY InferBounds
<1>2. ASSUME NEW i \in Inputs PROVE Width(i) \in Nat
  <2> DEFINE t == model.inputs[i]
             shape == EffectiveShape(t.name, t.shape, model.inShapes)
  <2>1. shape \in Seq(Int)
    BY ModelTypes DEF LoadInv
  <2>2. shape # <<>> /\ IsStatic(Tail(shape))
    BY DEF LoadInv, ShapesAccepted, IsBatchable
  <2>3. Width(i) = NumElements(Tail(shape))
    BY DEF Width, RowElements
  <2> HIDE DEF shape
  <2>4. Tail(shape) \in Seq(Int)
    BY <2>1, <2>2
  <2> QED  BY <2>2, <2>3, <2>4, StaticElements
<1>3. ASSUME NEW i \in Inputs PROVE BatchSize * Width(i) \in Nat
  <2>1. \A x, y \in Nat : x * y \in Nat
    BY SMT
  <2> QED  BY <1>1, <1>2, <2>1
<1> QED  BY <1>2, <1>3

\* What fits the capacity lies in batches that exist.
LEMMA ChunkInRange ==
    ASSUME OrderInv, NEW n \in Nat \ {0}, head + n <= Capacity, NEW ch,
           LiesIn(ch, head, n)
    PROVE  /\ ch.batch \in BatchIds
           /\ ch \in Reservation
           /\ ch.batch * BatchSize + ch.end <= head + n
           /\ head < ch.batch * BatchSize + BatchSize
<1>1. ch \in ChunkType /\ ch.batch * BatchSize + ch.end <= head + n
      /\ head < ch.batch * BatchSize + BatchSize
  BY DEF LiesIn
<1>2. ch.batch \in Nat /\ ch.end \in 1 .. BatchSize
  BY <1>1 DEF ChunkType
<1>3. BatchSize \in Nat \ {0} /\ MaxBatches \in Nat \ {0} /\ head \in Int
  BY InferBounds DEF OrderInv
<1>4. ch.batch < MaxBatches
  <2>1. MaxBatches <= ch.batch =>
            MaxBatches * BatchSize <= ch.batch * BatchSize
    BY <1>2, <1>3, BatchStarts
  <2>2. /\ ch.batch * BatchSize \in Int /\ MaxBatches * BatchSize \in Int
    BY <1>2, <1>3, BatchStarts
  <2>3. head + n <= MaxBatches * BatchSize
    BY DEF Capacity
  <2> QED  BY <1>1, <1>2, <1>3, <2>1, <2>2, <2>3
<1>5. ch.batch \in BatchIds
  BY <1>2, <1>3, <1>4 DEF BatchIds
<1>6. ch \in Reservation
  BY <1>1, <1>5 DEF ChunkType, Reservation
<1> QED  BY <1>1, <1>5, <1>6

\* A copy leaves the tensors of a batch as long as they were.
LEMMA CopyKeepsLength ==
    ASSUME NEW data, NEW ch, NEW tensors,
           \A i \in Inputs : OfLength(tensors[i], BatchSize * Width(i))
    PROVE  LET after == AfterChunk(data, ch, tensors) IN
           /\ after = [i \in Inputs |-> after[i]]
           /\ \A i \in Inputs : OfLength(after[i], BatchSize * Width(i))
<1> DEFINE after == AfterChunk(data, ch, tensors)
<1>1. after = [i \in Inputs |->
                IF i \in Copied
                THEN CopiedAt(tensors[i], Width(i), ch.start, ChunkSlice(data, i, ch))
                ELSE tensors[i]]
  BY DEF AfterChunk
<1> HIDE DEF after
<1>2. ASSUME NEW i \in Inputs PROVE OfLength(after[i], BatchSize * Width(i))
  <2>1. CASE i \in Copied
    <3>1. after[i] = CopiedAt(tensors[i], Width(i), ch.start, ChunkSlice(data, i, ch))
      BY <1>1, <2>1
    <3>2. DOMAIN tensors[i] = 1 .. BatchSize * Width(i)
      BY DEF OfLength
    <3>3. ASSUME NEW w, NEW sl
          PROVE  OfLength(CopiedAt(tensors[i], w, ch.start, sl), BatchSize * Width(i))
      BY <3>2 DEF CopiedAt, OfLength
    <3> QED  BY <3>1, <3>3
  <2>2. CASE i \notin Copied
    <3>1. after[i] = tensors[i]
      BY <1>1, <2>2
    <3> QED  BY <3>1
  <2> QED  BY <2>1, <2>2
<1>3. after = [i \in Inputs |-> after[i]]
  BY <1>1
<1> QED  BY <1>2, <1>3 DEF after

\* What `infer` does with the ordered inputs, one chunk of at most per batch.
Received(c, req) ==
    LET data == TensorBytes(c, req)
        n    == req.inputs[1].shape[1]
        cs   == Chunks(head, n)
    IN  /\ Copied = Inputs
        /\ \A k \in 1 .. Len(cs) :
            /\ buffer'[cs[k].batch]
                    = AfterChunk(data, cs[k], buffer[cs[k].batch])
            /\ written'[cs[k].batch]
                    = written[cs[k].batch] + cs[k].end - cs[k].start
            /\ ~OutOfRange(data, cs[k])
        /\ \A b \in BatchIds : (\A k \in 1 .. Len(cs) : cs[k].batch # b) =>
                buffer'[b] = buffer[b] /\ written'[b] = written[b]
        /\ written' = [b \in BatchIds |-> written'[b]]
        /\ resv' = [resv EXCEPT ![c] = cs]
        /\ call' = [call EXCEPT ![c] = "waiting"]
        /\ phase' = phase

\* A copy left its tensor: the panic of the slice index.
Overran(c, req) ==
    LET data == TensorBytes(c, req)
        cs   == Chunks(head, req.inputs[1].shape[1])
    IN  /\ \E k \in 1 .. Len(cs) : OutOfRange(data, cs[k])
        /\ phase' = "copy_panic"
        /\ UNCHANGED <<buffer, written, call, resv>>

\* A type that cannot be copied: the call ends with an error.
Uncopied(c) ==
    /\ phase' = phase
    /\ call' = [call EXCEPT ![c] = "error"]
    /\ UNCHANGED <<written, resv>>

\* A batch keeps its tensors, but for the copy of one of the chunks.
Touched(c, req, b) ==
    LET cs == Chunks(head, req.inputs[1].shape[1]) IN
    \/ buffer'[b] = buffer[b]
    \/ \E k \in 1 .. Len(cs) :
        /\ LiesIn(cs[k], head, req.inputs[1].shape[1]) /\ cs[k].batch = b
        /\ buffer'[b] = AfterChunk(TensorBytes(c, req), cs[k], buffer[b])

\* `infer` ends in one of three ways; sealed batches are not touched in any.
LEMMA InsertFacts ==
    ASSUME Basics, phase = "serving", NEW c \in Calls,
           NEW req \in Requests(MetaOf(model)), IsValid(req), Insert(c, req)
    PROVE  /\ req.inputs[1].shape[1] \in Nat \ {0}
           /\ head' = head + req.inputs[1].shape[1]
           /\ head' <= Capacity
           /\ Received(c, req) \/ Overran(c, req) \/ Uncopied(c)
           /\ buffer' = [b \in BatchIds |-> buffer'[b]]
           /\ \A b \in BatchIds :
                /\ buffer'[b] = [i \in Inputs |-> buffer'[b][i]]
                /\ \A i \in Inputs : OfLength(buffer'[b][i], BatchSize * Width(i))
                /\ b * BatchSize + BatchSize <= head => buffer'[b] = buffer[b]
                /\ Touched(c, req, b)
<1> DEFINE data == TensorBytes(c, req)
           n == data[1].shape[1]
           cs == Chunks(head, n)
           done == IF Copied = Inputs THEN cs ELSE <<cs[1]>>
           in(b) == {k \in DOMAIN done : done[k].batch = b}
           part(b) == done[CHOOSE k \in in(b) : TRUE]
<1>1. n = req.inputs[1].shape[1]
  BY ValidRequests DEF Basics, LoadInv
<1>17. Chunks(head, req.inputs[1].shape[1]) = cs
  BY <1>1, Zenon
<1>2. n \in Nat \ {0}
  <2>1. PICK k \in DOMAIN req.inputs :
            /\ SentFor(c, req, 1, k)
            /\ Matches(req.inputs[k], model.inputs[1].name, ConfigDims(1))
    BY ValidRequests DEF Basics, LoadInv
  <2>2. /\ 1 \in Inputs /\ n = req.inputs[k].shape[1]
    BY <1>1, ValidRequests DEF Basics, LoadInv
  <2>3. ConfigDims(1) # <<>> /\ ConfigDims(1) \in Seq(Int)
    BY <2>2, ModelTypes DEF Basics, LoadInv, ShapesAccepted, Loaded
  <2>4. PICK shape \in Seq(Int) : shape = req.inputs[k].shape
    BY <2>1 DEF SentFor
  <2>5. shape[1] > 0 /\ Len(shape) = Len(ConfigDims(1))
    BY <2>1, <2>4 DEF Matches
  <2>6. 1 \in 1 .. Len(shape)
    <3>1. PICK dims \in Seq(Int) : dims = ConfigDims(1)
      BY <2>3
    <3>2. Len(dims) \in Nat \ {0}
      BY <2>3, <3>1
    <3> QED  BY <2>5, <3>1, <3>2
  <2>7. shape[1] \in Nat \ {0}
    BY <2>5, <2>6
  <2> QED  BY <2>2, <2>4, <2>7
<1>3. /\ head + n <= Capacity
      /\ head' = head + n
      /\ IF \E k \in DOMAIN done : OutOfRange(data, done[k])
         THEN /\ phase' = "copy_panic"
              /\ UNCHANGED <<buffer, written, call, resv>>
         ELSE /\ buffer' = [b \in BatchIds |->
                    IF in(b) = {} THEN buffer[b]
                    ELSE AfterChunk(data, part(b), buffer[b])]
              /\ IF Copied = Inputs
                 THEN /\ written' = [b \in BatchIds |->
                            IF in(b) = {} THEN written[b]
                            ELSE written[b] + part(b).end - part(b).start]
                      /\ resv' = [resv EXCEPT ![c] = cs]
                      /\ call' = [call EXCEPT ![c] = "waiting"]
                 ELSE /\ call' = [call EXCEPT ![c] = "error"]
                      /\ UNCHANGED <<written, resv>>
              /\ UNCHANGED phase
  BY Zenon DEF Insert
<1>4. head \in Nat /\ OrderInv
  BY DEF Basics, OrderInv
<1>5. /\ cs \in Seq(ChunkType) /\ Len(cs) \in Nat \ {0}
      /\ DOMAIN cs = 1 .. Len(cs)
      /\ \A k \in 1 .. Len(cs) : LiesIn(cs[k], head, n)
      /\ \A j, k \in 1 .. Len(cs) : cs[j].batch = cs[k].batch => j = k
  BY <1>2, <1>4, ChunkPlaces
<1> HIDE DEF n, data, cs
<1>6. \A k \in 1 .. Len(cs) : /\ cs[k].batch \in BatchIds
                              /\ head < cs[k].batch * BatchSize + BatchSize
  BY <1>2, <1>3, <1>4, <1>5, ChunkInRange
<1>7. /\ DOMAIN done \subseteq 1 .. Len(cs)
      /\ \A k \in DOMAIN done : done[k] = cs[k]
      /\ Copied = Inputs => done = cs
  <2>1. Copied # Inputs => DOMAIN done = {1} /\ done[1] = cs[1]
    OBVIOUS
  <2> QED  BY <1>5, <2>1
<1> HIDE DEF done
<1>8. ASSUME NEW b, in(b) # {}
      PROVE  \E k \in DOMAIN done : /\ k \in 1 .. Len(cs) /\ part(b) = cs[k]
                                    /\ cs[k].batch = b
  <2>1. PICK k \in in(b) : k = CHOOSE j \in in(b) : TRUE
    BY <1>8
  <2> QED  BY <1>7, <2>1
<1> HIDE DEF part
<1>9. ASSUME NEW k \in DOMAIN done
      PROVE  /\ in(cs[k].batch) # {}
             /\ part(cs[k].batch) = cs[k]
  <2>1. in(cs[k].batch) # {}
    BY <1>7
  <2>2. PICK j \in 1 .. Len(cs) : part(cs[k].batch) = cs[j] /\ cs[j].batch = cs[k].batch
    BY <1>8, <2>1
  <2>3. j = k
    BY <1>5, <1>7, <2>2
  <2> QED  BY <2>1, <2>2, <2>3
<1>10. \A b : in(b) = {} <=> \A k \in DOMAIN done : cs[k].batch # b
  BY <1>7
<1> HIDE DEF in
<1>11. BufferInv /\ Loaded
  BY DEF Basics, Loaded
<1>12. /\ buffer = [b \in BatchIds |-> buffer[b]]
       /\ \A b \in BatchIds :
            /\ buffer[b] = [i \in Inputs |-> buffer[b][i]]
            /\ \A i \in Inputs : OfLength(buffer[b][i], BatchSize * Width(i))
  BY <1>11 DEF BufferInv
<1>13. ASSUME NEW b \in BatchIds
       PROVE  /\ buffer'[b] = [i \in Inputs |-> buffer'[b][i]]
              /\ \A i \in Inputs : OfLength(buffer'[b][i], BatchSize * Width(i))
              /\ b * BatchSize + BatchSize <= head => buffer'[b] = buffer[b]
              /\ Touched(c, req, b)
  <2>1. CASE buffer'[b] = buffer[b]
    BY <1>12, <2>1 DEF Touched
  <2>2. CASE buffer'[b] # buffer[b]
    <3>1. in(b) # {} /\ buffer'[b] = AfterChunk(data, part(b), buffer[b])
      BY <1>3, <2>2
    <3>2. PICK k \in 1 .. Len(cs) : cs[k].batch = b /\ part(b) = cs[k]
      BY <1>8, <3>1
    <3>6. Touched(c, req, b)
      <4>1. LiesIn(cs[k], head, req.inputs[1].shape[1])
        BY <1>1, <1>5
      <4>2. buffer'[b] = AfterChunk(TensorBytes(c, req), cs[k], buffer[b])
        BY <3>1, <3>2 DEF data
      <4> QED  BY <1>17, <3>2, <4>1, <4>2 DEF Touched
    <3>3. head < b * BatchSize + BatchSize
      BY <1>6, <3>2
    <3>4. ~(b * BatchSize + BatchSize <= head)
      <4>1. b * BatchSize \in Int /\ BatchSize \in Nat
        BY InferBounds, BatchStarts DEF BatchIds
      <4> QED  BY <1>4, <3>3, <4>1
    <3>5. \A i \in Inputs : OfLength(buffer[b][i], BatchSize * Width(i))
      BY <1>12
    <3> QED  BY <3>1, <3>4, <3>5, <3>6, CopyKeepsLength
  <2> QED  BY <2>1, <2>2
<1>14. buffer' = [b \in BatchIds |-> buffer'[b]]
  BY <1>3, <1>12
<1>15. CASE \E k \in DOMAIN done : OutOfRange(data, done[k])
  <2>1. Overran(c, req)
    BY <1>3, <1>7, <1>15, <1>17 DEF Overran, data
  <2> QED  BY <1>2, <1>3, <1>13, <1>14, <2>1, <1>1
<1>16. CASE ~ \E k \in DOMAIN done : OutOfRange(data, done[k])
  <2>1. CASE Copied = Inputs
    <3>1. DOMAIN done = 1 .. Len(cs)
      BY <1>5, <1>7, <2>1
    <3>2. ASSUME NEW k \in 1 .. Len(cs)
          PROVE  /\ buffer'[cs[k].batch]
                        = AfterChunk(data, cs[k], buffer[cs[k].batch])
                 /\ written'[cs[k].batch]
                        = written[cs[k].batch] + cs[k].end - cs[k].start
                 /\ ~OutOfRange(data, cs[k])
      <4>1. in(cs[k].batch) # {} /\ part(cs[k].batch) = cs[k] /\ cs[k].batch \in BatchIds
        BY <1>6, <1>9, <3>1
      <4>2. PICK b \in BatchIds : b = cs[k].batch /\ in(b) # {} /\ part(b) = cs[k]
        BY <4>1
      <4>3. /\ buffer' = [d \in BatchIds |->
                    IF in(d) = {} THEN buffer[d]
                    ELSE AfterChunk(data, part(d), buffer[d])]
            /\ written' = [d \in BatchIds |->
                    IF in(d) = {} THEN written[d]
                    ELSE written[d] + part(d).end - part(d).start]
        BY <1>3, <1>16, <2>1, Zenon
      <4>4. buffer'[b] = AfterChunk(data, cs[k], buffer[b])
        BY <4>2, <4>3
      <4>5. written'[b] = written[b] + cs[k].end - cs[k].start
        BY <4>2, <4>3
      <4>6. ~OutOfRange(data, cs[k])
        BY <1>7, <1>16, <3>1
      <4> QED  BY <4>2, <4>4, <4>5, <4>6, Zenon
    <3>3. ASSUME NEW b \in BatchIds, \A k \in 1 .. Len(cs) : cs[k].batch # b
          PROVE  buffer'[b] = buffer[b] /\ written'[b] = written[b]
      <4>1. in(b) = {}
        BY <1>10, <3>1, <3>3
      <4> QED  BY <1>3, <1>16, <2>1, <4>1, Zenon
    <3>4. /\ written' = [b \in BatchIds |-> written'[b]]
          /\ resv' = [resv EXCEPT ![c] = cs]
          /\ call' = [call EXCEPT ![c] = "waiting"]
          /\ phase' = phase
      BY <1>3, <1>16, <2>1
    <3>5. Received(c, req)
      BY <1>17, <2>1, <3>2, <3>3, <3>4, Zenon DEF Received, data
    <3> QED  BY <1>2, <1>3, <1>13, <1>14, <3>5, <1>1
  <2>2. CASE Copied # Inputs
    <3>1. Uncopied(c)
      BY <1>3, <1>16, <2>2 DEF Uncopied
    <3> QED  BY <1>2, <1>3, <1>13, <1>14, <3>1, <1>1
  <2> QED  BY <2>1, <2>2
<1> QED  BY <1>15, <1>16

\* What is derived from the model stays with it.
LEMMA ModelFrame ==
    ASSUME model' = model
    PROVE  /\ Inputs' = Inputs /\ Outputs' = Outputs
           /\ \A i : Width(i)' = Width(i) /\ ConfigDims(i)' = ConfigDims(i)
           /\ \A o : OutWidth(o)' = OutWidth(o)
           /\ ShapesAccepted' = ShapesAccepted
           /\ GpuTensorsAllocated' = GpuTensorsAllocated
           /\ WarmupSucceeds' = WarmupSucceeds
<1>1. Inputs' = Inputs /\ Outputs' = Outputs
  BY DEF Inputs, Outputs
<1>2. \A i : Width(i)' = Width(i) /\ ConfigDims(i)' = ConfigDims(i)
  BY DEF Width, ConfigDims
<1>3. \A o : OutWidth(o)' = OutWidth(o)
  BY DEF OutWidth
<1>4. ShapesAccepted' = ShapesAccepted
  BY DEF ShapesAccepted, ConfigDims, Inputs
<1>5. GpuTensorsAllocated' = GpuTensorsAllocated
  BY DEF GpuTensorsAllocated, GpuInputShape, GpuOutputShape, ConfigDims, OutputMeta,
         Inputs, Outputs
<1>6. WarmupSucceeds' = WarmupSucceeds
  BY DEF WarmupSucceeds, GpuInputShape, GpuOutputShape, ConfigDims, OutputMeta,
         Inputs, Outputs
<1> QED  BY <1>1, <1>2, <1>3, <1>4, <1>5, <1>6

\* What `infer` leaves for the rest of the state to know.
Inserted(c, req) ==
    /\ req.inputs[1].shape[1] \in Nat \ {0}
    /\ head' = head + req.inputs[1].shape[1]
    /\ head' <= Capacity
    /\ Received(c, req) \/ Overran(c, req) \/ Uncopied(c)
    /\ buffer' = [b \in BatchIds |-> buffer'[b]]
    /\ \A b \in BatchIds :
        /\ buffer'[b] = [i \in Inputs |-> buffer'[b][i]]
        /\ \A i \in Inputs : OfLength(buffer'[b][i], BatchSize * Width(i))
        /\ b * BatchSize + BatchSize <= head => buffer'[b] = buffer[b]
        /\ Touched(c, req, b)

\* The answers of model_infer before anything is inserted.
Refused(c, req) ==
    /\ \/ ~IsValid(req) /\ call' = [call EXCEPT ![c] = "invalid"]
       \/ IsValid(req) /\ call' = [call EXCEPT ![c] = "ring_full"]
    /\ UNCHANGED <<head, phase, buffer, written, resv>>

\* A call is refused or inserted; the session and the model do not change.
LEMMA ModelInferFacts ==
    ASSUME Basics, NEW c \in Calls, ModelInfer(c)
    PROVE  /\ phase = "serving" /\ call[c] = "new"
           /\ UNCHANGED <<model, reply, cell, pc, batch, stream, gpu>>
           /\ \E req \in Requests(MetaOf(model)) :
                /\ request' = [request EXCEPT ![c] = req]
                /\ Refused(c, req) \/ (IsValid(req) /\ Inserted(c, req))
<1>1. phase = "serving" /\ call[c] = "new"
      /\ UNCHANGED <<model, reply, cell, pc, batch, stream, gpu>>
  BY DEF ModelInfer, sessionVars
<1>2. PICK req \in Requests(MetaOf(model)) :
        /\ request' = [request EXCEPT ![c] = req]
        /\ Refused(c, req) \/ (IsValid(req) /\ Insert(c, req))
  BY Zenon DEF ModelInfer, InputMeta, Refused
<1>3. IsValid(req) /\ Insert(c, req) => Inserted(c, req)
  BY <1>1, InsertFacts DEF Inserted
<1> QED  BY <1>1, <1>2, <1>3

\* What a step of the session thread, of the stream or of an answer leaves.
LEMMA SessionFrame ==
    ASSUME StartRun \/ RunHost \/ QueueH2D \/ RunBinding \/ QueueD2H \/ FinishGpuRun
           \/ StreamStep
    PROVE  phase = "serving"
           /\ UNCHANGED <<model, phase, buffer, written, call, request, resv, reply>>
BY DEF StartRun, RunHost, QueueH2D, RunBinding, QueueD2H, FinishGpuRun, StreamStep,
       Serving, requestVars

\* An answer changes the status and the reply of its call only.
LEMMA AnswerFrame ==
    ASSUME NEW c \in Calls, GetData(c)
    PROVE  /\ phase = "serving" /\ call[c] = "waiting"
           /\ UNCHANGED <<model, phase, head, buffer, written, request, resv,
                          cell, pc, batch, stream, gpu>>
           /\ \/ call' = [call EXCEPT ![c] = "ok"]
                 /\ reply' = [reply EXCEPT ![c] = [o \in Outputs |-> ResponseTensor(c, o)]]
                 /\ \A k \in DOMAIN resv[c] : cell[resv[c][k].batch].status = "ok"
              \/ call' = [call EXCEPT ![c] = "error"] /\ reply' = reply
BY Zenon DEF GetData, Serving, sessionVars

\* Loading changes the phase, the buffers and the device tensors only.
LEMMA LoadFacts ==
    ASSUME LoadInv, LoadModel
    PROVE  /\ phase = "loading" /\ phase' \in {"serving", "load_panic"}
           /\ UNCHANGED <<model, head, written, call, request, resv, reply, cell,
                          pc, batch, stream>>
           /\ phase' = "serving" =>
                /\ ShapesAccepted /\ WarmupSucceeds
                /\ model.gpu => GpuTensorsAllocated
                /\ buffer' = [b \in BatchIds |-> FreshInputs]
                /\ model.gpu => gpu' = [ins |-> FreshInputs,
                                        outs |-> Kernel(FreshInputs)]
                /\ ~model.gpu => gpu' = gpu
BY Zenon DEF LoadModel, requestVars

-------------------------------------------------------------------------------
\* Nothing is loaded, queued or handed out at the start.
LEMMA InitInvariants ==
    Init => /\ Basics /\ CellInv /\ StreamInv /\ RunInv /\ RequestInv /\ AnswerInv
<1> SUFFICES ASSUME Init
             PROVE  Basics /\ CellInv /\ StreamInv /\ RunInv /\ RequestInv /\ AnswerInv
  OBVIOUS
<1>1. BatchSize \in Nat \ {0} /\ MaxBatches \in Nat \ {0} /\ RunMayFail \in BOOLEAN
  BY InferBounds
<1>2. ~Loaded /\ phase \in Phases
  BY DEF Init, Loaded, Phases
<1>3. LoadInv /\ BufferInv
  BY <1>2 DEF Init, LoadInv, BufferInv
<1>4. OrderInv
  <2>1. Capacity \in Nat
    BY <1>1, BatchStarts DEF Capacity
  <2> QED  BY <1>1, <2>1 DEF Init, OrderInv, SessionSteps
<1>5. CallInv
  <2>1. \A c \in Calls : resv[c] = <<>> /\ DOMAIN resv[c] = {}
    BY DEF Init
  <2>2. resv \in [Calls -> Seq(Reservation)]
    BY DEF Init
  <2>3. call \in [Calls -> CallStatuses]
    BY DEF Init, CallStatuses
  <2>4. request = [c \in Calls |-> request[c]] /\ reply = [c \in Calls |-> reply[c]]
    BY DEF Init
  <2> QED  BY <2>1, <2>2, <2>3, <2>4 DEF CallInv
<1>6. CellInv
  BY <1>1 DEF Init, CellInv, PublishedOutputsAreFinal, BatchIds
<1>7. StreamInv /\ RunInv
  <2>1. stream \in Seq(StreamOps) /\ DOMAIN stream = {}
    BY DEF Init
  <2> QED  BY <1>2, <2>1 DEF Init, StreamInv, RunInv
<1>8. RequestInv /\ AnswerInv
  BY DEF Init, RequestInv, AnswerInv
<1> QED  BY <1>3, <1>4, <1>5, <1>6, <1>7, <1>8 DEF Basics

\* Batches are numbered from 0, and their first slots are integers.
LEMMA BatchNumbers ==
    /\ BatchSize \in Nat \ {0} /\ MaxBatches \in Nat \ {0} /\ RunMayFail \in BOOLEAN
    /\ Capacity \in Nat
    /\ \A b \in BatchIds : /\ b \in Nat /\ b < MaxBatches
                           /\ b * BatchSize \in Int
                           /\ b * BatchSize + BatchSize <= Capacity
                           /\ (b + 1) * BatchSize = b * BatchSize + BatchSize
<1>1. BatchSize \in Nat \ {0} /\ MaxBatches \in Nat \ {0} /\ RunMayFail \in BOOLEAN
  BY InferBounds
<1>2. Capacity \in Nat
  <2>1. \A x, y \in Nat : x * y \in Nat
    BY SMT
  <2> QED  BY <1>1, <2>1 DEF Capacity
<1>3. ASSUME NEW b \in BatchIds
      PROVE  /\ b \in Nat /\ b < MaxBatches
             /\ b * BatchSize \in Int
             /\ b * BatchSize + BatchSize <= Capacity
             /\ (b + 1) * BatchSize = b * BatchSize + BatchSize
  <2>1. b \in Nat /\ b < MaxBatches
    BY <1>1 DEF BatchIds
  <2> QED  BY <1>1, <2>1, BatchStarts DEF Capacity
<1> QED  BY <1>1, <1>2, <1>3

\* Every step keeps the model and the lengths of its tensors.
LEMMA NextLoads ==
    ASSUME Basics, Next
    PROVE  LoadInv' /\ BufferInv'
<1>1. CASE LoadModel
  <2>1. /\ phase = "loading" /\ phase' \in {"serving", "load_panic"}
        /\ UNCHANGED <<model, head, call, resv, pc, batch, stream>>
        /\ phase' = "serving" =>
                /\ ShapesAccepted /\ WarmupSucceeds
                /\ model.gpu => GpuTensorsAllocated
                /\ buffer' = [b \in BatchIds |-> FreshInputs]
    BY <1>1, LoadFacts DEF Basics
  <2>2. LoadInv'
    <3>1. /\ ShapesAccepted' = ShapesAccepted /\ WarmupSucceeds' = WarmupSucceeds
          /\ GpuTensorsAllocated' = GpuTensorsAllocated
      BY <2>1, ModelFrame
    <3>2. ~Loaded /\ (Loaded' => phase' = "serving") /\ phase' \in Phases
      BY <2>1 DEF Loaded, Phases
    <3> QED  BY <2>1, <3>1, <3>2 DEF Basics, LoadInv
  <2>3. BufferInv'
    <3>1. SUFFICES ASSUME phase' = "serving" PROVE BufferInv'
      BY <2>1 DEF BufferInv, Loaded
    <3>2. /\ Inputs' = Inputs /\ \A i : Width(i)' = Width(i)
      BY <2>1, ModelFrame
    <3>3. /\ FreshInputs = [i \in Inputs |-> FreshInputs[i]]
          /\ \A i \in Inputs : OfLength(FreshInputs[i], BatchSize * Width(i))
      BY DEF FreshInputs, OfLength
    <3>4. \A b \in BatchIds : buffer'[b] = FreshInputs
      BY <2>1, <3>1
    <3>5. buffer' = [b \in BatchIds |-> buffer'[b]]
      BY <2>1, <3>1
    <3>6. ASSUME NEW b \in BatchIds
          PROVE  /\ buffer'[b] = [i \in Inputs |-> buffer'[b][i]]
                 /\ \A i \in Inputs : OfLength(buffer'[b][i], BatchSize * Width(i))
      BY <3>3, <3>4
    <3> QED  BY <3>2, <3>5, <3>6 DEF BufferInv, OfLength
  <2> QED  BY <2>2, <2>3
<1>2. CASE phase = "serving" /\ phase' \in {"serving", "copy_panic"} /\ model' = model
           /\ (UNCHANGED buffer \/ \E c, req : Inserted(c, req))
  <2>1. Loaded /\ Loaded'
    BY <1>2 DEF Loaded
  <2>2. /\ Inputs' = Inputs /\ \A i : Width(i)' = Width(i)
        /\ ShapesAccepted' = ShapesAccepted /\ WarmupSucceeds' = WarmupSucceeds
        /\ GpuTensorsAllocated' = GpuTensorsAllocated
    BY <1>2, ModelFrame
  <2>3. LoadInv'
    BY <1>2, <2>1, <2>2 DEF Basics, LoadInv, Phases
  <2>4. /\ buffer' = [b \in BatchIds |-> buffer'[b]]
        /\ \A b \in BatchIds :
            /\ buffer'[b] = [i \in Inputs |-> buffer'[b][i]]
            /\ \A i \in Inputs : OfLength(buffer'[b][i], BatchSize * Width(i))
    <3>1. CASE UNCHANGED buffer
      BY <2>1, <3>1 DEF Basics, BufferInv
    <3>2. CASE \E c, req : Inserted(c, req)
      BY <3>2 DEF Inserted
    <3> QED  BY <1>2, <3>1, <3>2
  <2>5. BufferInv'
    BY <2>2, <2>4 DEF BufferInv, OfLength
  <2> QED  BY <2>3, <2>5
<1>3. ASSUME NEW c \in Calls, ModelInfer(c) PROVE LoadInv' /\ BufferInv'
  <2>1. /\ phase = "serving" /\ model' = model
        /\ \E req : Refused(c, req) \/ Inserted(c, req)
    BY <1>3, ModelInferFacts
  <2>2. PICK req : Refused(c, req) \/ Inserted(c, req)
    BY <2>1
  <2>3. phase' \in {"serving", "copy_panic"}
    BY <2>1, <2>2 DEF Refused, Inserted, Received, Overran, Uncopied
  <2>4. UNCHANGED buffer \/ Inserted(c, req)
    BY <2>2 DEF Refused
  <2> QED  BY <1>2, <2>1, <2>3, <2>4
<1>4. ASSUME NEW c \in Calls, GetData(c) PROVE LoadInv' /\ BufferInv'
  <2>1. phase = "serving" /\ UNCHANGED <<model, phase, buffer>>
    BY <1>4, AnswerFrame
  <2> QED  BY <1>2, <2>1
<1>5. CASE StartRun \/ RunHost \/ QueueH2D \/ RunBinding \/ QueueD2H \/ FinishGpuRun
           \/ StreamStep
  <2>1. phase = "serving" /\ UNCHANGED <<model, phase, buffer>>
    BY <1>5, SessionFrame
  <2> QED  BY <1>2, <2>1
<1> QED  BY <1>1, <1>3, <1>4, <1>5 DEF Next

\* A run moves from one step to the next.
LEMMA RunOrder ==
    ASSUME Basics, StartRun \/ RunHost \/ QueueH2D \/ RunBinding \/ QueueD2H
                   \/ FinishGpuRun \/ StreamStep
    PROVE  OrderInv' /\ head <= head'
<1>1. /\ head \in 0 .. Capacity /\ batch \in 0 .. MaxBatches /\ pc \in SessionSteps
      /\ batch * BatchSize <= head
      /\ pc # "idle" => batch \in BatchIds /\ (batch + 1) * BatchSize <= head
      /\ written \in [BatchIds -> 0 .. BatchSize]
      /\ \A b \in BatchIds : written[b] > 0 => b * BatchSize + written[b] <= head
  BY DEF Basics, OrderInv
<1>2. \A b \in BatchIds : written[b] \in 0 .. BatchSize /\ b * BatchSize \in Int
  BY <1>1, BatchNumbers
<1>3. CASE StartRun
  <2>1. /\ batch \in BatchIds /\ head' = SealedHead /\ pc' \in {"h2d", "run_host"}
        /\ UNCHANGED <<written, batch>>
    BY <1>3 DEF StartRun
  <2>2. PICK e \in Int : e = (batch + 1) * BatchSize
    BY <2>1, BatchNumbers
  <2>3. e <= Capacity /\ batch * BatchSize <= e /\ batch * BatchSize \in Int
    BY <2>1, <2>2, BatchNumbers
  <2>4. head' = IF head < e THEN e ELSE head
    BY <2>1, <2>2 DEF SealedHead
  <2>5. /\ head' \in 0 .. Capacity /\ e <= head' /\ head <= head'
        /\ batch * BatchSize <= head'
    BY <1>1, <2>2, <2>3, <2>4, BatchNumbers
  <2>6. \A b \in BatchIds : written[b] > 0 => b * BatchSize + written[b] <= head'
    BY <1>1, <1>2, <2>5
  <2> QED  BY <1>1, <2>1, <2>2, <2>5, <2>6 DEF OrderInv, SessionSteps
<1>4. CASE /\ head' = head /\ written' = written /\ pc' \in SessionSteps
           /\ \/ batch' = batch /\ (pc' # "idle" => pc # "idle")
              \/ pc # "idle" /\ pc' = "idle" /\ batch' = batch + 1
  <2>1. pc # "idle" => batch + 1 \in 0 .. MaxBatches
    BY <1>1, BatchNumbers
  <2> QED  BY <1>1, <1>4, <2>1 DEF OrderInv
<1>5. CASE RunHost
  BY <1>4, <1>5 DEF RunHost, RunFails, SessionSteps
<1>6. CASE QueueH2D
  BY <1>4, <1>6 DEF QueueH2D, RunFails, SessionSteps
<1>7. CASE RunBinding
  BY <1>4, <1>7 DEF RunBinding, RunFails, SessionSteps
<1>8. CASE QueueD2H
  BY <1>4, <1>8 DEF QueueD2H, RunFails, SessionSteps
<1>9. CASE FinishGpuRun
  BY <1>4, <1>9 DEF FinishGpuRun, SessionSteps
<1>10. CASE StreamStep
  BY <1>1, <1>4, <1>10 DEF StreamStep
<1> QED  BY <1>3, <1>5, <1>6, <1>7, <1>8, <1>9, <1>10

\* The chunks of an insertion, all in the batches there are.
LEMMA ChunksInRange ==
    ASSUME Basics, NEW n \in Nat \ {0}, head + n <= Capacity
    PROVE  LET cs == Chunks(head, n) IN
           /\ cs \in Seq(Reservation) /\ Len(cs) \in Nat \ {0}
           /\ DOMAIN cs = 1 .. Len(cs)
           /\ \A k \in 1 .. Len(cs) :
                /\ LiesIn(cs[k], head, n) /\ cs[k] \in Reservation
                /\ cs[k].batch \in BatchIds
                /\ cs[k].batch * BatchSize + cs[k].end <= head + n
                /\ head < cs[k].batch * BatchSize + BatchSize
           /\ \A j, k \in 1 .. Len(cs) : cs[j].batch = cs[k].batch => j = k
<1> DEFINE cs == Chunks(head, n)
<1>1. head \in Nat /\ OrderInv
  BY DEF Basics, OrderInv
<1>2. /\ cs \in Seq(ChunkType) /\ Len(cs) \in Nat \ {0}
      /\ DOMAIN cs = 1 .. Len(cs)
      /\ \A k \in 1 .. Len(cs) : LiesIn(cs[k], head, n)
      /\ \A j, k \in 1 .. Len(cs) : cs[j].batch = cs[k].batch => j = k
  BY <1>1, ChunkPlaces
<1> HIDE DEF cs
<1>3. \A k \in 1 .. Len(cs) :
            /\ LiesIn(cs[k], head, n) /\ cs[k] \in Reservation
            /\ cs[k].batch \in BatchIds
            /\ cs[k].batch * BatchSize + cs[k].end <= head + n
            /\ head < cs[k].batch * BatchSize + BatchSize
  BY <1>1, <1>2, ChunkInRange
<1>4. cs \in Seq(Reservation)
  <2>1. PICK m \in Nat : m = Len(cs)
    BY <1>2
  <2>2. cs \in [1 .. m -> ChunkType]
    BY <1>2, <2>1
  <2>3. cs \in [1 .. m -> Reservation]
    BY <1>3, <2>1, <2>2
  <2> QED  BY <2>3
<1> QED  BY <1>2, <1>3, <1>4 DEF cs

\* Rows go into slots from head on, behind the batches that ran or run.
LEMMA InsertOrder ==
    ASSUME Basics, NEW c \in Calls, NEW req, Inserted(c, req),
           UNCHANGED <<pc, batch>>
    PROVE  OrderInv' /\ head <= head'
<1> DEFINE n == req.inputs[1].shape[1]
           cs == Chunks(head, n)
<1>1. /\ head \in 0 .. Capacity /\ batch \in 0 .. MaxBatches /\ pc \in SessionSteps
      /\ batch * BatchSize <= head
      /\ pc # "idle" => batch \in BatchIds /\ (batch + 1) * BatchSize <= head
      /\ written \in [BatchIds -> 0 .. BatchSize]
      /\ \A b \in BatchIds : written[b] > 0 => b * BatchSize + written[b] <= head
  BY DEF Basics, OrderInv
<1>2. /\ n \in Nat \ {0} /\ head' = head + n /\ head' <= Capacity
      /\ head \in Nat
  BY DEF Inserted, Basics, OrderInv
<1>3. \A b \in BatchIds : written[b] \in 0 .. BatchSize /\ b * BatchSize \in Int
                          /\ (b + 1) * BatchSize \in Int /\ b \in Nat
  BY <1>1, BatchNumbers
<1>4. head' \in 0 .. Capacity /\ head <= head'
  BY <1>1, <1>2, BatchNumbers
<1>5. /\ batch * BatchSize <= head'
      /\ pc # "idle" => (batch + 1) * BatchSize <= head'
  <2>1. batch * BatchSize \in Int
    BY <1>1, BatchStarts
  <2> QED  BY <1>1, <1>2, <1>3, <2>1
<1>6. /\ written' \in [BatchIds -> 0 .. BatchSize]
      /\ \A b \in BatchIds : written'[b] > 0 => b * BatchSize + written'[b] <= head'
  <2>1. CASE written' = written
    BY <1>1, <1>2, <1>3, <2>1
  <2>2. CASE Received(c, req)
    <3>1. /\ \A k \in 1 .. Len(cs) :
                written'[cs[k].batch] = written[cs[k].batch] + cs[k].end - cs[k].start
          /\ \A b \in BatchIds : (\A k \in 1 .. Len(cs) : cs[k].batch # b) =>
                written'[b] = written[b]
          /\ written' = [b \in BatchIds |-> written'[b]]
      BY <2>2 DEF Received
    <3>2. \A k \in 1 .. Len(cs) :
                /\ LiesIn(cs[k], head, n) /\ cs[k] \in Reservation
                /\ cs[k].batch \in BatchIds
                /\ cs[k].batch * BatchSize + cs[k].end <= head + n
      BY <1>2, ChunksInRange
    <3> HIDE DEF cs
    <3>3. ASSUME NEW b \in BatchIds
          PROVE  /\ written'[b] \in 0 .. BatchSize
                 /\ written'[b] > 0 => b * BatchSize + written'[b] <= head'
      <4>1. CASE \A k \in 1 .. Len(cs) : cs[k].batch # b
        <5>1. written'[b] = written[b]
          BY <3>1, <4>1
        <5> HIDE DEF n
        <5> QED  BY <1>1, <1>2, <1>3, <5>1
      <4>2. CASE \E k \in 1 .. Len(cs) : cs[k].batch = b
        <5>1. PICK k \in 1 .. Len(cs) : cs[k].batch = b
          BY <4>2
        <5>2. PICK ch : ch = cs[k]
          OBVIOUS
        <5>3. /\ written'[b] = written[b] + ch.end - ch.start
              /\ LiesIn(ch, head, n) /\ ch \in Reservation /\ ch.batch = b
              /\ b * BatchSize + ch.end <= head + n
          BY <3>1, <3>2, <5>1, <5>2
        <5>4. /\ ch.start \in Nat /\ ch.end \in Nat /\ ch.row \in Nat
              /\ ch.end <= BatchSize
          BY <5>3, BatchNumbers DEF Reservation
        <5>5. /\ b * BatchSize + ch.start = head + ch.row /\ ch.start < ch.end
              /\ b * BatchSize \in Int /\ written[b] \in Nat
              /\ written[b] > 0 => b * BatchSize + written[b] <= head
          BY <1>1, <1>3, <5>3 DEF LiesIn
        <5> HIDE DEF n
        <5>6. ASSUME NEW y \in Int, NEW s \in Nat, NEW e \in Nat, NEW r \in Nat,
                     NEW w \in Nat, NEW h \in Nat, NEW z \in Nat,
                     y + s = h + r, s < e, e <= z, w > 0 => y + w <= h
              PROVE  w + e - s \in 0 .. z /\ y + (w + e - s) <= y + e
          BY <5>6
        <5>7. /\ written[b] + ch.end - ch.start \in 0 .. BatchSize
              /\ b * BatchSize + (written[b] + ch.end - ch.start)
                    <= b * BatchSize + ch.end
          BY <1>2, <5>4, <5>5, <5>6, BatchNumbers
        <5>8. head + n \in Int
          BY <1>2
        <5> QED  BY <1>2, <5>3, <5>4, <5>5, <5>7, <5>8
      <4> QED  BY <4>1, <4>2
    <3> QED  BY <3>1, <3>3
  <2> QED  BY <2>1, <2>2 DEF Inserted, Overran, Uncopied
<1> HIDE DEF n
<1> QED  BY <1>1, <1>4, <1>5, <1>6 DEF OrderInv

\* The reservations of the new call lie between the old head and the new one.
LEMMA InsertCalls ==
    ASSUME Basics, NEW c \in Calls, NEW req, Inserted(c, req),
           request' = [request EXCEPT ![c] = req], reply' = reply
    PROVE  CallInv'
<1> DEFINE n == req.inputs[1].shape[1]
           cs == Chunks(head, n)
<1>1. /\ call \in [Calls -> CallStatuses]
      /\ request = [d \in Calls |-> request[d]]
      /\ reply = [d \in Calls |-> reply[d]]
      /\ resv \in [Calls -> Seq(Reservation)]
      /\ \A d \in Calls : \A k \in DOMAIN resv[d] :
            resv[d][k].batch * BatchSize + resv[d][k].end <= head
  BY DEF Basics, CallInv
<1>2. n \in Nat \ {0} /\ head' = head + n /\ head' <= Capacity /\ head \in Nat
  BY DEF Inserted, Basics, OrderInv
<1>3. request' = [d \in Calls |-> request'[d]]
  BY <1>1
<1>4. call' \in [Calls -> CallStatuses]
  BY <1>1 DEF Inserted, Received, Overran, Uncopied, CallStatuses
<1>5. ASSUME NEW d \in Calls, NEW k \in DOMAIN resv[d]
      PROVE  resv[d][k].batch * BatchSize + resv[d][k].end <= head'
  <2>1. resv[d] \in Seq(Reservation)
    BY <1>1
  <2>2. resv[d][k] \in Reservation
    <3>1. PICK rs \in Seq(Reservation) : rs = resv[d]
      BY <2>1
    <3> QED  BY <3>1
  <2>3. PICK y \in Int : y = resv[d][k].batch * BatchSize
    BY <2>2, BatchNumbers DEF Reservation
  <2>4. y + resv[d][k].end <= head /\ resv[d][k].end \in Int
    BY <1>1, <2>2, <2>3 DEF Reservation
  <2> HIDE DEF n
  <2> QED  BY <1>2, <2>3, <2>4
<1>6. /\ resv' \in [Calls -> Seq(Reservation)]
      /\ \A d \in Calls : \A k \in DOMAIN resv'[d] :
            resv'[d][k].batch * BatchSize + resv'[d][k].end <= head'
  <2>1. CASE resv' = resv
    BY <1>1, <1>5, <2>1
  <2>2. CASE Received(c, req)
    <3>1. resv' = [resv EXCEPT ![c] = cs]
      BY <2>2 DEF Received
    <3>2. /\ cs \in Seq(Reservation) /\ DOMAIN cs = 1 .. Len(cs)
          /\ \A k \in 1 .. Len(cs) : cs[k].batch * BatchSize + cs[k].end <= head + n
      BY <1>2, ChunksInRange
    <3> HIDE DEF cs, n
    <3>3. resv' \in [Calls -> Seq(Reservation)]
      BY <1>1, <3>1, <3>2
    <3>4. \A d \in Calls : resv'[d] = IF d = c THEN cs ELSE resv[d]
      BY <1>1, <3>1
    <3> QED  BY <1>2, <1>5, <3>2, <3>3, <3>4
  <2> QED  BY <2>1, <2>2 DEF Inserted, Overran, Uncopied
<1> HIDE DEF n, cs
<1> QED  BY <1>1, <1>3, <1>4, <1>6 DEF CallInv

\* Every step keeps what the other proofs take for granted.
LEMMA NextBasics ==
    ASSUME Basics, [Next]_vars
    PROVE  Basics'
<1>1. LoadInv /\ BufferInv /\ OrderInv /\ CallInv
  BY DEF Basics
<1>2. ASSUME UNCHANGED <<call, request, reply, resv, head>> PROVE CallInv'
  BY <1>1, <1>2 DEF CallInv
<1>3. CASE LoadModel
  <2>1. UNCHANGED <<head, written, call, request, resv, reply, pc, batch>>
    BY <1>1, <1>3, LoadFacts
  <2>2. OrderInv'
    BY <1>1, <2>1 DEF OrderInv
  <2> QED  BY <1>2, <1>3, <2>1, <2>2, NextLoads DEF Basics, Next
<1>4. ASSUME NEW c \in Calls, ModelInfer(c) PROVE Basics'
  <2>1. /\ UNCHANGED <<reply, pc, batch>>
        /\ \E req : /\ request' = [request EXCEPT ![c] = req]
                    /\ Refused(c, req) \/ Inserted(c, req)
    BY <1>4, ModelInferFacts
  <2>2. PICK req : /\ request' = [request EXCEPT ![c] = req]
                   /\ Refused(c, req) \/ Inserted(c, req)
    BY <2>1
  <2>3. OrderInv' /\ CallInv'
    <3>1. CASE Inserted(c, req)
      BY <2>1, <2>2, <3>1, InsertOrder, InsertCalls
    <3>2. CASE Refused(c, req)
      <4>1. OrderInv'
        BY <1>1, <2>1, <3>2 DEF OrderInv, Refused
      <4>2. CallInv'
        <5>1. UNCHANGED <<head, resv, reply>> /\ call' \in [Calls -> CallStatuses]
              /\ request' = [d \in Calls |-> request'[d]]
          BY <1>1, <2>1, <2>2, <3>2 DEF Refused, CallInv, CallStatuses
        <5> QED  BY <1>1, <5>1 DEF CallInv
      <4> QED  BY <4>1, <4>2
    <3> QED  BY <2>2, <3>1, <3>2
  <2> QED  BY <1>4, <2>3, NextLoads DEF Basics, Next
<1>5. ASSUME NEW c \in Calls, GetData(c) PROVE Basics'
  <2>1. /\ UNCHANGED <<head, written, request, resv, pc, batch>>
        /\ \/ call' = [call EXCEPT ![c] = "ok"]
              /\ reply' = [reply EXCEPT ![c] = [o \in Outputs |-> ResponseTensor(c, o)]]
           \/ call' = [call EXCEPT ![c] = "error"] /\ reply' = reply
    BY <1>5, AnswerFrame
  <2>2. OrderInv'
    BY <1>1, <2>1 DEF OrderInv
  <2>3. CallInv'
    <3>1. call' \in [Calls -> CallStatuses] /\ reply' = [d \in Calls |-> reply'[d]]
      BY <1>1, <2>1 DEF CallInv, CallStatuses
    <3> QED  BY <1>1, <2>1, <3>1 DEF CallInv
  <2> QED  BY <1>5, <2>2, <2>3, NextLoads DEF Basics, Next
<1>6. CASE StartRun \/ RunHost \/ QueueH2D \/ RunBinding \/ QueueD2H \/ FinishGpuRun
           \/ StreamStep
  <2>1. UNCHANGED <<call, request, resv, reply>>
    BY <1>6, SessionFrame
  <2>2. OrderInv' /\ head <= head' /\ head \in Nat /\ head' \in Nat
    <3>1. OrderInv' /\ head <= head'
      BY <1>6, RunOrder
    <3> QED  BY <1>1, <3>1 DEF OrderInv
  <2>3. CallInv'
    <3>1. ASSUME NEW d \in Calls, NEW k \in DOMAIN resv[d]
          PROVE  resv[d][k].batch * BatchSize + resv[d][k].end <= head'
      <4>1. PICK rs \in Seq(Reservation) : rs = resv[d]
        BY <1>1 DEF CallInv
      <4>2. rs[k] \in Reservation
        BY <4>1
      <4>3. PICK y \in Int : y = rs[k].batch * BatchSize
        BY <4>2, BatchNumbers DEF Reservation
      <4>4. y + rs[k].end <= head /\ rs[k].end \in Int
        BY <1>1, <4>1, <4>2, <4>3 DEF Reservation, CallInv
      <4> QED  BY <2>2, <4>1, <4>3, <4>4
    <3> QED  BY <1>1, <2>1, <3>1 DEF CallInv
  <2> QED  BY <1>6, <2>2, <2>3, NextLoads DEF Basics, Next
<1>7. CASE UNCHANGED vars
  BY <1>1, <1>7, ModelFrame DEF vars, requestVars, sessionVars, Basics, LoadInv,
     BufferInv, OrderInv, CallInv, Loaded
<1> QED  BY <1>3, <1>4, <1>5, <1>6, <1>7 DEF Next

\* The graph computes the same from the same tensors.
LEMMA KernelFrame ==
    ASSUME model' = model, NEW b, buffer'[b] = buffer[b]
    PROVE  Kernel(buffer[b])' = Kernel(buffer[b])
BY DEF Kernel, Outputs, Inputs, OutWidth, Width

\* The graph computes every output.
LEMMA KernelOutputs ==
    ASSUME NEW tensors
    PROVE  Kernel(tensors) = [o \in Outputs |-> Kernel(tensors)[o]]
BY DEF Kernel

\* Insertions do not touch the batches that ran, nor the one that runs.
LEMMA FrozenBuffers ==
    ASSUME Basics, NEW req, NEW c, Inserted(c, req)
    PROVE  /\ \A b \in BatchIds : b < batch => buffer'[b] = buffer[b]
           /\ pc # "idle" => buffer'[batch] = buffer[batch]
<1>1. /\ head \in Nat /\ batch \in Nat /\ batch * BatchSize <= head
      /\ pc # "idle" => batch \in BatchIds /\ (batch + 1) * BatchSize <= head
  BY DEF Basics, OrderInv
<1>2. \A b \in BatchIds : b * BatchSize + BatchSize <= head => buffer'[b] = buffer[b]
  BY DEF Inserted
<1>3. ASSUME NEW b \in BatchIds, b < batch PROVE buffer'[b] = buffer[b]
  <2>1. b * BatchSize + BatchSize <= batch * BatchSize /\ b * BatchSize \in Int
        /\ batch * BatchSize \in Int
    BY <1>1, <1>3, BatchStarts, BatchNumbers
  <2>2. b * BatchSize + BatchSize <= head
    BY <1>1, <2>1, BatchNumbers
  <2> QED  BY <1>2, <2>2
<1>4. pc # "idle" => buffer'[batch] = buffer[batch]
  BY <1>1, <1>2, BatchNumbers
<1> QED  BY <1>3, <1>4

\* The result of the running batch is all that a step of a run writes.
LEMMA ResultWritten ==
    ASSUME Basics, CellInv, UNCHANGED <<model, buffer>>, NEW status, NEW values,
           batch \in BatchIds,
           cell' = [cell EXCEPT ![batch] = [status |-> status, values |-> values]],
           \/ batch' = batch /\ status = "none"
           \/ batch' = batch + 1 /\ status = "err"
           \/ batch' = batch + 1 /\ status = "ok" /\ values = Kernel(buffer[batch])
    PROVE  CellInv'
<1>1. /\ cell = [b \in BatchIds |-> [status |-> cell[b].status,
                                     values |-> cell[b].values]]
      /\ \A b \in BatchIds :
            /\ b < batch => cell[b].status \in {"ok", "err"}
            /\ b >= batch => cell[b].status = "none"
      /\ \A b \in BatchIds : cell[b].status = "ok" => cell[b].values = Kernel(buffer[b])
  BY DEF CellInv, PublishedOutputsAreFinal
<1>2. \A b \in BatchIds : cell'[b] = IF b = batch
                                     THEN [status |-> status, values |-> values]
                                     ELSE cell[b]
  BY <1>1
<1>3. cell' = [b \in BatchIds |-> [status |-> cell'[b].status,
                                   values |-> cell'[b].values]]
  <2>1. DOMAIN cell' = BatchIds /\ cell' = [b \in BatchIds |-> cell'[b]]
    BY <1>1
  <2>2. \A b \in BatchIds : cell'[b] = [status |-> cell'[b].status,
                                        values |-> cell'[b].values]
    <3> TAKE b \in BatchIds
    <3>1. CASE b = batch
      <4>1. cell'[b] = [status |-> status, values |-> values]
        BY <1>2, <3>1
      <4> QED  BY <4>1
    <3>2. CASE b # batch
      <4>1. cell'[b] = cell[b]
        BY <1>2, <3>2
      <4>2. cell[b] = [status |-> cell[b].status, values |-> cell[b].values]
        BY <1>1
      <4> QED  BY <4>1, <4>2
    <3> QED  BY <3>1, <3>2
  <2> QED  BY <2>1, <2>2
<1>4. ASSUME NEW b \in BatchIds
      PROVE  /\ b < batch' => cell'[b].status \in {"ok", "err"}
             /\ b >= batch' => cell'[b].status = "none"
             /\ cell'[b].status = "ok" => cell'[b].values = Kernel(buffer[b])
  <2>1. b \in Nat /\ batch \in Nat
    BY BatchNumbers
  <2>2. CASE b = batch
    <3>1. cell'[b].status = status /\ cell'[b].values = values
      BY <1>2, <2>2
    <3> QED  BY <2>1, <2>2, <3>1
  <2>3. CASE b # batch
    <3>1. cell'[b] = cell[b]
      BY <1>2, <2>3
    <3>2. (b < batch' <=> b < batch) /\ (b >= batch' <=> b >= batch)
      BY <2>1, <2>3
    <3> QED  BY <1>1, <3>1, <3>2
  <2> QED  BY <2>2, <2>3
<1>5. \A b \in BatchIds : Kernel(buffer[b])' = Kernel(buffer[b])
  BY KernelFrame
<1> QED  BY <1>3, <1>4, <1>5 DEF CellInv, PublishedOutputsAreFinal

\* When everything queued is done, the outputs have landed.
LEMMA DrainedOutputs ==
    ASSUME RunInv, StreamInv, pc = "sync", Drained
    PROVE  cell[batch].values = Kernel(buffer[batch])
<1>1. /\ cell[batch].values = [o \in Outputs |-> cell[batch].values[o]]
      /\ \E p \in 0 .. Len(stream) : \A o \in Outputs : Lands(o, p)
  BY DEF RunInv
<1>2. Len(stream) = 0
  BY DEF Drained
<1>3. \A o \in Outputs : cell[batch].values[o] = Kernel(buffer[batch])[o]
  BY <1>1, <1>2 DEF Lands
<1> QED  BY <1>1, <1>3, KernelOutputs, Zenon

\* Results are written once, by the batch that runs, and stay.
LEMMA NextCells ==
    ASSUME Basics, CellInv, StreamInv, RunInv, [Next]_vars
    PROVE  CellInv'
<1>1. /\ cell = [b \in BatchIds |-> [status |-> cell[b].status,
                                     values |-> cell[b].values]]
      /\ \A b \in BatchIds :
            /\ b < batch => cell[b].status \in {"ok", "err"}
            /\ b >= batch => cell[b].status = "none"
      /\ \A b \in BatchIds : cell[b].status = "ok" => cell[b].values = Kernel(buffer[b])
  BY DEF CellInv, PublishedOutputsAreFinal
<1>2. pc # "idle" => batch \in BatchIds
  BY DEF Basics, OrderInv
<1>3. ASSUME UNCHANGED <<model, buffer, cell, batch>> PROVE CellInv'
  <2>1. \A b \in BatchIds : Kernel(buffer[b])' = Kernel(buffer[b])
    BY <1>3, KernelFrame
  <2> QED  BY <1>1, <1>3, <2>1 DEF CellInv, PublishedOutputsAreFinal
<1>4. CASE LoadModel
  <2>1. UNCHANGED <<cell, batch>> /\ batch = 0
    BY <1>4, LoadFacts DEF Basics, LoadInv, Loaded
  <2>2. \A b \in BatchIds : cell[b].status = "none"
    BY <1>1, <2>1, BatchNumbers
  <2> QED  BY <1>1, <2>1, <2>2 DEF CellInv, PublishedOutputsAreFinal
<1>5. ASSUME NEW c \in Calls, ModelInfer(c) PROVE CellInv'
  <2>1. /\ UNCHANGED <<model, cell, batch>>
        /\ \E req : Refused(c, req) \/ Inserted(c, req)
    BY <1>5, ModelInferFacts
  <2>2. PICK req : Refused(c, req) \/ Inserted(c, req)
    BY <2>1
  <2>3. CASE Refused(c, req)
    BY <1>3, <2>1, <2>3 DEF Refused
  <2>4. CASE Inserted(c, req)
    <3>1. \A b \in BatchIds : b < batch => buffer'[b] = buffer[b]
      BY <2>4, FrozenBuffers
    <3>2. \A b \in BatchIds : cell[b].status = "ok" => b < batch
      BY <1>1, BatchNumbers DEF Basics, OrderInv
    <3>3. \A b \in BatchIds : cell[b].status = "ok" =>
                Kernel(buffer[b])' = Kernel(buffer[b])
      BY <2>1, <3>1, <3>2, KernelFrame
    <3> QED  BY <1>1, <2>1, <3>3 DEF CellInv, PublishedOutputsAreFinal
  <2> QED  BY <2>2, <2>3, <2>4
<1>6. ASSUME NEW c \in Calls, GetData(c) PROVE CellInv'
  BY <1>3, <1>6, AnswerFrame
<1>7. CASE StartRun
  BY <1>3, <1>7 DEF StartRun
<1>8. CASE RunHost
  <2>1. /\ UNCHANGED <<model, buffer>> /\ batch' = batch + 1 /\ pc # "idle"
        /\ \/ cell' = [cell EXCEPT ![batch] = [status |-> "ok",
                                               values |-> Kernel(buffer[batch])]]
           \/ cell' = [cell EXCEPT ![batch] = [status |-> "err", values |-> <<>>]]
    BY <1>8 DEF RunHost, RunFails, OutputOf
  <2> QED  BY <1>2, <2>1, ResultWritten
<1>9. ASSUME UNCHANGED <<model, buffer>>, pc # "idle", RunFails PROVE CellInv'
  <2>1. /\ cell' = [cell EXCEPT ![batch] = [status |-> "err", values |-> <<>>]]
        /\ batch' = batch + 1
    BY <1>9 DEF RunFails, OutputOf
  <2> QED  BY <1>2, <1>9, <2>1, ResultWritten
<1>10. CASE QueueH2D
  <2>1. UNCHANGED <<model, buffer>> /\ pc # "idle"
        /\ (RunFails \/ UNCHANGED <<cell, batch>>)
    BY <1>10 DEF QueueH2D
  <2> QED  BY <1>3, <1>9, <2>1
<1>11. CASE RunBinding
  <2>1. UNCHANGED <<model, buffer>> /\ pc # "idle"
        /\ (RunFails \/ UNCHANGED <<cell, batch>>)
    BY <1>11 DEF RunBinding
  <2> QED  BY <1>3, <1>9, <2>1
<1>12. CASE QueueD2H
  <2>1. UNCHANGED <<model, buffer>> /\ pc # "idle"
        /\ (RunFails \/ (OutputOf(batch, "none", Unset) /\ UNCHANGED batch))
    BY <1>12 DEF QueueD2H
  <2>2. CASE OutputOf(batch, "none", Unset) /\ UNCHANGED batch
    <3>1. cell' = [cell EXCEPT ![batch] = [status |-> "none", values |-> Unset]]
      BY <2>2 DEF OutputOf
    <3> QED  BY <1>2, <2>1, <2>2, <3>1, ResultWritten
  <2> QED  BY <1>9, <2>1, <2>2
<1>13. CASE FinishGpuRun
  <2>1. /\ UNCHANGED <<model, buffer>> /\ batch' = batch + 1 /\ pc = "sync" /\ Drained
        /\ cell' = [cell EXCEPT ![batch] = [status |-> "ok",
                                            values |-> cell[batch].values]]
    BY <1>13 DEF FinishGpuRun, OutputOf
  <2>2. cell[batch].values = Kernel(buffer[batch])
    BY <2>1, DrainedOutputs
  <2> QED  BY <1>2, <2>1, <2>2, ResultWritten
<1>14. CASE StreamStep
  <2> DEFINE op == Head(stream)
  <2>1. stream # <<>> /\ UNCHANGED <<model, buffer, batch>>
    BY <1>14 DEF StreamStep
  <2>2. op = stream[1] /\ 1 \in DOMAIN stream /\ op \in StreamOps
    BY <2>1 DEF StreamInv
  <2>3. op.op # "d2h" => UNCHANGED cell
    BY <1>14, <2>2 DEF StreamStep, StreamOps
  <2>4. CASE op.op = "d2h" /\ cell[op.batch].status # "err"
    <3>1. pc = "sync" /\ op.batch = batch
      BY <2>2, <2>4 DEF StreamInv
    <3>2. cell' = [cell EXCEPT ![batch].values[op.tensor] = gpu.outs[op.tensor]]
      BY <1>14, <2>4, <3>1 DEF StreamStep
    <3>3. batch \in BatchIds /\ cell[batch].status = "none"
      BY <1>1, <1>2, <3>1, BatchNumbers
    <3> DEFINE vs == [cell[batch].values EXCEPT ![op.tensor] = gpu.outs[op.tensor]]
    <3>4. cell[batch] = [status |-> "none", values |-> cell[batch].values]
      BY <1>1, <3>3
    <3>5. cell' = [cell EXCEPT ![batch] = [status |-> "none", values |-> vs]]
      <4>1. cell' = [cell EXCEPT ![batch] = [cell[batch] EXCEPT !.values = vs]]
        BY <3>2
      <4>2. [cell[batch] EXCEPT !.values = vs] = [status |-> "none", values |-> vs]
        <5> HIDE DEF vs
        <5> QED  BY <3>4
      <4> QED  BY <4>1, <4>2
    <3> HIDE DEF vs
    <3> QED  BY <2>1, <3>3, <3>5, ResultWritten
  <2>5. CASE op.op = "d2h" /\ cell[op.batch].status = "err"
    <3>1. UNCHANGED cell
      BY <1>14, <2>5 DEF StreamStep
    <3> QED  BY <1>3, <2>1, <3>1
  <2> QED  BY <1>3, <2>1, <2>3, <2>4, <2>5
<1>15. CASE UNCHANGED vars
  BY <1>3, <1>15 DEF vars, sessionVars
<1> QED  BY <1>4, <1>5, <1>6, <1>7, <1>8, <1>10, <1>11, <1>12, <1>13, <1>14, <1>15
         DEF Next

\* The copies of the first n tensors of a run.
Copies(kind, n) ==
    [i \in 1 .. n |-> [op |-> kind, batch |-> batch, tensor |-> i]]

\* They come behind what was queued before.
Behind(next, kind, n) ==
    /\ next \in Seq(StreamOps) /\ Len(next) = Len(stream) + n
    /\ Len(stream) \in Nat
    /\ \A k \in 1 .. Len(stream) : next[k] = stream[k]
    /\ \A i \in 1 .. n : next[Len(stream) + i] =
             [op |-> kind, batch |-> batch, tensor |-> i]
    /\ \A k \in 1 .. Len(next) : \/ k \in 1 .. Len(stream)
                                 \/ \E i \in 1 .. n : k = Len(stream) + i

\* Copies that are queued leave the operations before them in place.
LEMMA QueuedBehind ==
    ASSUME stream \in Seq(StreamOps), batch \in BatchIds, NEW n \in Nat,
           NEW kind \in {"h2d", "kernel", "d2h"}
    PROVE  Behind(stream \o Copies(kind, n), kind, n)
<1> DEFINE new  == Copies(kind, n)
           next == stream \o new
<1>1. new \in Seq(StreamOps) /\ Len(new) = n
  <2>1. \A i \in 1 .. n : [op |-> kind, batch |-> batch, tensor |-> i] \in StreamOps
    BY DEF StreamOps
  <2> QED  BY <2>1 DEF Copies
<1>2. \A i \in 1 .. n : new[i] = [op |-> kind, batch |-> batch, tensor |-> i]
  BY DEF Copies
<1>3. next = stream \o new
  OBVIOUS
<1> HIDE DEF new, next
<1>4. next \in Seq(StreamOps) /\ Len(next) = Len(stream) + n /\ Len(stream) \in Nat
  <2>1. Len(stream) \in Nat
    OBVIOUS
  <2>2. stream \o new \in Seq(StreamOps) /\ Len(stream \o new) = Len(stream) + Len(new)
    BY <1>1, ConcatProperties, Zenon
  <2> QED  BY <1>1, <1>3, <2>1, <2>2, Zenon
<1>5. /\ \A k \in 1 .. Len(stream) : next[k] = stream[k]
      /\ \A i \in 1 .. n : next[Len(stream) + i] = new[i]
  <2>1. \A k \in 1 .. Len(stream) + n :
            next[k] = IF k <= Len(stream) THEN stream[k] ELSE new[k - Len(stream)]
    BY <1>1, <1>3, ConcatProperties
  <2>2. ASSUME NEW i \in 1 .. n PROVE next[Len(stream) + i] = new[i]
    <3>1. Len(stream) + i \in 1 .. Len(stream) + n /\ (Len(stream) + i) - Len(stream) = i
          /\ ~(Len(stream) + i <= Len(stream))
      BY <1>4
    <3> QED  BY <2>1, <3>1
  <2> QED  BY <1>4, <2>1, <2>2
<1>6. ASSUME NEW k \in 1 .. Len(next), k \notin 1 .. Len(stream)
      PROVE  \E i \in 1 .. n : k = Len(stream) + i
  <2>1. k - Len(stream) \in 1 .. n /\ k = Len(stream) + (k - Len(stream))
    BY <1>4, <1>6
  <2> QED  BY <2>1
<1>7. Behind(next, kind, n)
  BY <1>2, <1>4, <1>5, <1>6 DEF Behind
<1> QED  BY <1>7 DEF next, new

\* Operations of a run that has just failed, or of one that waits, are allowed.
StreamKept(next) ==
    /\ next \in Seq(StreamOps)
    /\ \A k \in DOMAIN next :
        /\ next[k].op = "h2d" => next[k].tensor \in Inputs
        /\ next[k].op = "d2h" =>
            /\ next[k].tensor \in Outputs
            /\ \/ cell'[next[k].batch].status = "err"
               \/ pc' = "sync" /\ next[k].batch = batch'

\* The result of a run that ends in an error leaves the queue in order.
LEMMA OldOperations ==
    ASSUME Basics, CellInv, StreamInv, pc # "sync",
           \/ cell' = cell
           \/ \E status, values :
                cell' = [cell EXCEPT ![batch] = [status |-> status, values |-> values]]
                /\ batch >= 0 /\ batch \in BatchIds
    PROVE  \A k \in DOMAIN stream :
              /\ stream[k].op = "h2d" => stream[k].tensor \in Inputs
              /\ stream[k].op = "d2h" =>
                  /\ stream[k].tensor \in Outputs
                  /\ stream[k].batch # batch \/ batch \notin BatchIds
                  /\ cell'[stream[k].batch].status = "err"
<1> TAKE k \in DOMAIN stream
<1>1. /\ stream[k].op = "h2d" => stream[k].tensor \in Inputs
      /\ stream[k].op = "d2h" => stream[k].tensor \in Outputs
                              /\ cell[stream[k].batch].status = "err"
  BY DEF StreamInv
<1>2. stream[k].batch \in BatchIds
  <2>1. stream \in Seq(StreamOps)
    BY DEF StreamInv
  <2>2. stream[k] \in StreamOps
    BY <2>1
  <2> QED  BY <2>2 DEF StreamOps
<1>3. ASSUME stream[k].op = "d2h", batch \in BatchIds PROVE stream[k].batch # batch
  <2>1. batch \in Nat
    BY DEF Basics, OrderInv
  <2>2. cell[batch].status = "none"
    BY <1>3, <2>1 DEF CellInv
  <2> QED  BY <1>1, <1>3, <2>2
<1>4. ASSUME stream[k].op = "d2h" PROVE cell'[stream[k].batch].status = "err"
  <2>1. CASE cell' = cell
    BY <1>1, <1>4, <2>1
  <2>2. CASE cell' # cell
    <3>1. PICK status, values :
                cell' = [cell EXCEPT ![batch] = [status |-> status, values |-> values]]
                /\ batch \in BatchIds
      BY <2>2
    <3>2. cell'[stream[k].batch] = cell[stream[k].batch]
      BY <1>2, <1>3, <1>4, <3>1 DEF CellInv
    <3> QED  BY <1>1, <1>4, <3>2
  <2> QED  BY <2>1, <2>2
<1> QED  BY <1>1, <1>3, <1>4

\* Every step keeps the queue to copies of tensors that exist.
LEMMA NextStream ==
    ASSUME Basics, CellInv, StreamInv, [Next]_vars
    PROVE  StreamInv'
<1>1. /\ stream \in Seq(StreamOps)
      /\ ~model.gpu => stream = <<>>
      /\ Loaded /\ model.gpu =>
            gpu = [ins  |-> [i \in Inputs |-> gpu.ins[i]],
                   outs |-> [o \in Outputs |-> gpu.outs[o]]]
      /\ pc = "run_host" => ~model.gpu
      /\ pc \in {"h2d", "run_binding", "d2h", "sync"} => model.gpu
  BY DEF StreamInv
<1>2. pc # "idle" => batch \in BatchIds
  BY DEF Basics, OrderInv
<1>3. ASSUME UNCHANGED <<model, cell, pc, batch, stream, gpu>>, Loaded' => Loaded
      PROVE  StreamInv'
  <2>1. Inputs' = Inputs /\ Outputs' = Outputs
    BY <1>3, ModelFrame
  <2> QED  BY <1>3, <2>1 DEF StreamInv
<1>4. CASE LoadModel
  <2>1. /\ UNCHANGED <<model, cell, pc, batch, stream>> /\ stream = <<>> /\ pc = "idle"
        /\ Inputs' = Inputs /\ Outputs' = Outputs
        /\ phase' = "serving" /\ model.gpu =>
                gpu' = [ins |-> FreshInputs, outs |-> Kernel(FreshInputs)]
        /\ phase' # "copy_panic"
    BY <1>4, LoadFacts, ModelFrame DEF Basics, LoadInv, Loaded
  <2>2. FreshInputs = [i \in Inputs |-> FreshInputs[i]]
        /\ Kernel(FreshInputs) = [o \in Outputs |-> Kernel(FreshInputs)[o]]
    BY KernelOutputs DEF FreshInputs
  <2>3. Loaded' /\ model'.gpu =>
            gpu' = [ins  |-> [i \in Inputs' |-> gpu'.ins[i]],
                    outs |-> [o \in Outputs' |-> gpu'.outs[o]]]
    <3> SUFFICES ASSUME Loaded', model'.gpu
                 PROVE gpu' = [ins  |-> [i \in Inputs |-> gpu'.ins[i]],
                               outs |-> [o \in Outputs |-> gpu'.outs[o]]]
      BY <2>1
    <3>1. gpu' = [ins |-> FreshInputs, outs |-> Kernel(FreshInputs)]
      BY <2>1 DEF Loaded
    <3>2. gpu'.ins = FreshInputs /\ gpu'.outs = Kernel(FreshInputs)
      BY <3>1
    <3> QED  BY <2>2, <3>1, <3>2, Zenon
  <2>4. stream' \in Seq(StreamOps) /\ DOMAIN stream' = {}
    BY <2>1
  <2> QED  BY <2>1, <2>3, <2>4 DEF StreamInv
<1>5. ASSUME NEW c \in Calls, ModelInfer(c) PROVE StreamInv'
  <2>1. phase = "serving" /\ UNCHANGED <<model, cell, pc, batch, stream, gpu>>
    BY <1>5, ModelInferFacts
  <2> QED  BY <1>3, <2>1 DEF Loaded
<1>6. ASSUME NEW c \in Calls, GetData(c) PROVE StreamInv'
  <2>1. phase = "serving" /\ UNCHANGED <<model, cell, pc, batch, stream, gpu>>
    BY <1>6, AnswerFrame
  <2> QED  BY <1>3, <2>1 DEF Loaded
\* What the steps of the session thread have to show.
<1>7. ASSUME UNCHANGED <<model, gpu>>, phase = "serving", StreamKept(stream'),
             ~model.gpu => stream' = <<>>,
             pc' = "run_host" => ~model.gpu,
             pc' \in {"h2d", "run_binding", "d2h", "sync"} => model.gpu
      PROVE  StreamInv'
  <2>1. Inputs' = Inputs /\ Outputs' = Outputs /\ Loaded
    BY <1>7, ModelFrame DEF Loaded
  <2> QED  BY <1>1, <1>7, <2>1 DEF StreamInv, StreamKept
<1>8. CASE StartRun
  <2>1. /\ UNCHANGED <<model, gpu, stream, cell, batch>> /\ phase = "serving" /\ pc = "idle"
        /\ pc' = IF model.gpu THEN "h2d" ELSE "run_host"
    BY <1>8 DEF StartRun, Serving
  <2>2. StreamKept(stream')
    BY <1>1, <2>1, OldOperations DEF StreamKept
  <2> QED  BY <1>1, <1>7, <2>1, <2>2
<1>9. CASE RunHost
  <2>1. /\ UNCHANGED <<model, gpu, stream>> /\ phase = "serving" /\ pc = "run_host"
        /\ pc' = "idle"
    BY <1>9 DEF RunHost, Serving, RunFails
  <2>2. StreamKept(stream')
    <3>1. stream' = <<>> /\ DOMAIN stream' = {}
      BY <1>1, <2>1
    <3> QED  BY <1>1, <2>1, <3>1 DEF StreamKept
  <2> QED  BY <1>1, <1>7, <2>1, <2>2
<1>10. ASSUME RunFails, pc # "idle"
       PROVE  /\ cell' = [cell EXCEPT ![batch] = [status |-> "err", values |-> <<>>]]
              /\ batch \in BatchIds /\ batch >= 0 /\ pc' = "idle"
              /\ cell'[batch].status = "err"
  <2>1. /\ cell' = [cell EXCEPT ![batch] = [status |-> "err", values |-> <<>>]]
        /\ batch \in BatchIds /\ batch >= 0 /\ pc' = "idle"
    BY <1>2, <1>10 DEF RunFails, OutputOf, Basics, OrderInv
  <2> QED  BY <2>1 DEF CellInv
<1>11. CASE QueueH2D
  <2>1. /\ UNCHANGED <<model, gpu>> /\ phase = "serving" /\ pc = "h2d"
        /\ \E n \in 0 .. Cardinality(Inputs) :
            /\ stream' = stream \o [i \in 1 .. n |->
                                   [op |-> "h2d", batch |-> batch, tensor |-> i]]
            /\ \/ n = Cardinality(Inputs) /\ pc' = "run_binding"
                  /\ UNCHANGED <<cell, batch>>
               \/ RunFails
    BY <1>11 DEF QueueH2D, Serving
  <2>2. Inputs = 1 .. Cardinality(Inputs) /\ Cardinality(Inputs) \in Nat
    <3>1. Inputs = 1 .. Len(model.inputs) /\ Len(model.inputs) \in Nat
      BY ModelTypes DEF Basics, LoadInv
    <3>2. Cardinality(1 .. Len(model.inputs)) = Len(model.inputs)
      BY <3>1, FS_Interval, SMT
    <3> QED  BY <3>1, <3>2
  <2>3. PICK n \in 0 .. Cardinality(Inputs) :
            /\ stream' = stream \o [i \in 1 .. n |->
                                   [op |-> "h2d", batch |-> batch, tensor |-> i]]
            /\ \/ n = Cardinality(Inputs) /\ pc' = "run_binding"
                  /\ UNCHANGED <<cell, batch>>
               \/ RunFails
    BY <2>1
  <2>4. \A i \in 1 .. n : i \in Nat /\ i \in Inputs
    BY <2>2
  <2>5. /\ stream' \in Seq(StreamOps)
        /\ \A k \in 1 .. Len(stream) : stream'[k] = stream[k]
        /\ \A i \in 1 .. n : stream'[Len(stream) + i] =
                    [op |-> "h2d", batch |-> batch, tensor |-> i]
        /\ \A k \in 1 .. Len(stream') : \/ k \in 1 .. Len(stream)
                                        \/ \E i \in 1 .. n : k = Len(stream) + i
    <3>1. n \in Nat /\ batch \in BatchIds /\ "h2d" \in {"h2d", "kernel", "d2h"}
      BY <1>2, <2>1, <2>2
    <3>2. stream \in Seq(StreamOps)
      BY <1>1
    <3>3. stream' = stream \o Copies("h2d", n)
      BY <2>3, Zenon DEF Copies
    <3>4. Behind(stream', "h2d", n)
      BY <3>1, <3>2, <3>3, QueuedBehind
    <3> QED  BY <3>4 DEF Behind
  <2>6. StreamKept(stream')
    <3>1. pc # "sync" /\ (cell' = cell \/ (cell' = [cell EXCEPT ![batch] = [status |-> "err", values |-> <<>>]]
                 /\ batch \in BatchIds /\ batch >= 0))
      BY <1>10, <2>1, <2>3
    <3>2. \A k \in DOMAIN stream :
              /\ stream[k].op = "h2d" => stream[k].tensor \in Inputs
              /\ stream[k].op = "d2h" =>
                  /\ stream[k].tensor \in Outputs
                  /\ cell'[stream[k].batch].status = "err"
      BY <3>1, OldOperations
    <3>3. DOMAIN stream' = 1 .. Len(stream') /\ DOMAIN stream = 1 .. Len(stream)
      BY <1>1, <2>5
    <3>4. ASSUME NEW k \in DOMAIN stream'
          PROVE  /\ stream'[k].op = "h2d" => stream'[k].tensor \in Inputs
                 /\ stream'[k].op # "d2h" \/ k \in DOMAIN stream
      <4>1. CASE k \in DOMAIN stream
        BY <2>5, <3>2, <3>3, <4>1
      <4>2. ASSUME NEW i \in 1 .. n, k = Len(stream) + i
            PROVE  stream'[k].op = "h2d" /\ stream'[k].tensor \in Inputs
        <5>1. stream'[k] = [op |-> "h2d", batch |-> batch, tensor |-> i]
          BY <2>5, <4>2
        <5> QED  BY <2>4, <5>1
      <4>3. k \in DOMAIN stream \/ \E i \in 1 .. n : k = Len(stream) + i
        BY <2>5, <3>3
      <4>4. ASSUME k \notin DOMAIN stream
            PROVE  stream'[k].op = "h2d" /\ stream'[k].tensor \in Inputs
        BY <4>2, <4>3, <4>4
      <4> QED  BY <4>1, <4>4
    <3>5. \A k \in DOMAIN stream : stream'[k] = stream[k]
      BY <2>5, <3>3
    <3>6. ASSUME NEW k \in DOMAIN stream', stream'[k].op = "d2h"
          PROVE  stream'[k].tensor \in Outputs /\ cell'[stream'[k].batch].status = "err"
      BY <3>2, <3>4, <3>5, <3>6
    <3> QED  BY <2>5, <3>4, <3>6 DEF StreamKept
  <2>7. model.gpu
    BY <1>1, <2>1
  <2> QED  BY <1>7, <1>10, <2>1, <2>3, <2>6, <2>7
<1>12. CASE RunBinding
  <2>1. /\ UNCHANGED <<model, gpu>> /\ phase = "serving" /\ pc = "run_binding"
        /\ \/ /\ stream' = Append(stream, [op |-> "kernel", batch |-> batch, tensor |-> 0])
              /\ pc' = "d2h" /\ UNCHANGED <<cell, batch>>
           \/ RunFails /\ UNCHANGED stream
    BY <1>12 DEF RunBinding, Serving
  <2>2. pc # "sync" /\ (cell' = cell \/ (cell' = [cell EXCEPT ![batch] = [status |-> "err", values |-> <<>>]]
                 /\ batch \in BatchIds /\ batch >= 0))
    BY <1>10, <2>1
  <2>3. \A k \in DOMAIN stream :
              /\ stream[k].op = "h2d" => stream[k].tensor \in Inputs
              /\ stream[k].op = "d2h" =>
                  /\ stream[k].tensor \in Outputs
                  /\ cell'[stream[k].batch].status = "err"
    BY <2>2, OldOperations
  <2>4. ASSUME UNCHANGED stream PROVE StreamKept(stream')
    <3>1. stream' = stream
      BY <2>4
    <3>2. ASSUME NEW k \in DOMAIN stream'
          PROVE  /\ stream'[k].op = "h2d" => stream'[k].tensor \in Inputs
                 /\ stream'[k].op = "d2h" =>
                      /\ stream'[k].tensor \in Outputs
                      /\ \/ cell'[stream'[k].batch].status = "err"
                         \/ pc' = "sync" /\ stream'[k].batch = batch'
      BY <2>3, <3>1
    <3>3. stream' \in Seq(StreamOps)
      BY <1>1, <3>1
    <3> QED  BY <3>2, <3>3, Zenon DEF StreamKept
  <2>5. ASSUME stream' = Append(stream, [op |-> "kernel", batch |-> batch, tensor |-> 0])
        PROVE  StreamKept(stream')
    <3> DEFINE op == [op |-> "kernel", batch |-> batch, tensor |-> 0]
    <3>1. op \in StreamOps /\ op.op = "kernel"
      BY <1>2, <2>1 DEF StreamOps
    <3> HIDE DEF op
    <3>2. stream' \in Seq(StreamOps) /\ DOMAIN stream' = 1 .. Len(stream) + 1
          /\ (\A k \in 1 .. Len(stream) : stream'[k] = stream[k])
          /\ stream'[Len(stream) + 1] = op
      BY <1>1, <2>5, <3>1 DEF op
    <3>3. \A k \in DOMAIN stream' : k \in DOMAIN stream \/ k = Len(stream) + 1
      BY <1>1, <3>2
    <3>4. ASSUME NEW k \in DOMAIN stream'
          PROVE  /\ stream'[k].op = "h2d" => stream'[k].tensor \in Inputs
                 /\ stream'[k].op = "d2h" =>
                      /\ stream'[k].tensor \in Outputs
                      /\ \/ cell'[stream'[k].batch].status = "err"
                         \/ pc' = "sync" /\ stream'[k].batch = batch'
      <4>1. CASE k \in DOMAIN stream
        <5>1. stream'[k] = stream[k]
          BY <1>1, <3>2, <4>1
        <5> QED  BY <2>3, <4>1, <5>1
      <4>2. CASE k = Len(stream) + 1
        <5>1. stream'[k] = op
          BY <3>2, <4>2
        <5>2. stream'[k].op = "kernel"
          BY <3>1, <5>1
        <5> QED  BY <5>2
      <4> QED  BY <3>3, <4>1, <4>2
    <3>5. stream' \in Seq(StreamOps)
      BY <3>2
    <3> QED  BY <3>4, <3>5, Zenon DEF StreamKept
  <2>6. model.gpu
    BY <1>1, <2>1
  <2>7. pc' = "d2h" \/ pc' = "idle"
    BY <1>10, <2>1
  <2> QED  BY <1>7, <2>1, <2>4, <2>5, <2>6, <2>7
<1>13. CASE QueueD2H
  <2>1. /\ UNCHANGED <<model, gpu>> /\ phase = "serving" /\ pc = "d2h"
        /\ \E n \in 0 .. Cardinality(Outputs) :
            /\ stream' = stream \o [o \in 1 .. n |->
                                   [op |-> "d2h", batch |-> batch, tensor |-> o]]
            /\ \/ n = Cardinality(Outputs) /\ pc' = "sync" /\ UNCHANGED batch
                  /\ OutputOf(batch, "none", Unset)
               \/ RunFails
    BY <1>13 DEF QueueD2H, Serving
  <2>2. Outputs = 1 .. Cardinality(Outputs) /\ Cardinality(Outputs) \in Nat
    <3>1. Outputs = 1 .. Len(model.outputs) /\ Len(model.outputs) \in Nat
      BY ModelTypes DEF Basics, LoadInv
    <3>2. Cardinality(1 .. Len(model.outputs)) = Len(model.outputs)
      BY <3>1, FS_Interval, SMT
    <3> QED  BY <3>1, <3>2
  <2>3. PICK n \in 0 .. Cardinality(Outputs) :
            /\ stream' = stream \o [o \in 1 .. n |->
                                   [op |-> "d2h", batch |-> batch, tensor |-> o]]
            /\ \/ n = Cardinality(Outputs) /\ pc' = "sync" /\ UNCHANGED batch
                  /\ OutputOf(batch, "none", Unset)
               \/ RunFails
    BY <2>1
  <2>4. \A i \in 1 .. n : i \in Nat /\ i \in Outputs
    BY <2>2
  <2>5. /\ stream' \in Seq(StreamOps)
        /\ \A k \in 1 .. Len(stream) : stream'[k] = stream[k]
        /\ \A i \in 1 .. n : stream'[Len(stream) + i] =
                    [op |-> "d2h", batch |-> batch, tensor |-> i]
        /\ \A k \in 1 .. Len(stream') : \/ k \in 1 .. Len(stream)
                                        \/ \E i \in 1 .. n : k = Len(stream) + i
    <3>1. n \in Nat /\ batch \in BatchIds /\ "d2h" \in {"h2d", "kernel", "d2h"}
      BY <1>2, <2>1, <2>2
    <3>2. stream \in Seq(StreamOps)
      BY <1>1
    <3>3. stream' = stream \o Copies("d2h", n)
      BY <2>3, Zenon DEF Copies
    <3>4. Behind(stream', "d2h", n)
      BY <3>1, <3>2, <3>3, QueuedBehind
    <3> QED  BY <3>4 DEF Behind
  <2>6. StreamKept(stream')
    <3>1. pc # "sync" /\ batch \in BatchIds /\ batch >= 0
          /\ \E status, values :
                cell' = [cell EXCEPT ![batch] = [status |-> status, values |-> values]]
      <4>1. batch \in BatchIds /\ batch >= 0
        BY <1>2, <2>1 DEF Basics, OrderInv
      <4> QED  BY <1>10, <2>1, <2>3, <4>1 DEF OutputOf
    <3>2. \A k \in DOMAIN stream :
              /\ stream[k].op = "h2d" => stream[k].tensor \in Inputs
              /\ stream[k].op = "d2h" =>
                  /\ stream[k].tensor \in Outputs
                  /\ cell'[stream[k].batch].status = "err"
      BY <3>1, OldOperations
    <3>3. DOMAIN stream' = 1 .. Len(stream') /\ DOMAIN stream = 1 .. Len(stream)
      BY <1>1, <2>5
    <3>4. cell'[batch].status = "err" \/ (pc' = "sync" /\ batch' = batch)
      BY <1>10, <2>1, <2>3
    <3>5. ASSUME NEW k \in DOMAIN stream'
          PROVE  /\ stream'[k].op = "h2d" => stream'[k].tensor \in Inputs
                 /\ stream'[k].op = "d2h" =>
                      /\ stream'[k].tensor \in Outputs
                      /\ \/ cell'[stream'[k].batch].status = "err"
                         \/ pc' = "sync" /\ stream'[k].batch = batch'
      <4>1. CASE k \in DOMAIN stream
        <5>1. stream'[k] = stream[k]
          BY <2>5, <3>3, <4>1
        <5> QED  BY <3>2, <4>1, <5>1
      <4>2. ASSUME NEW i \in 1 .. n, k = Len(stream) + i
            PROVE  stream'[k].op = "d2h" /\ stream'[k].tensor \in Outputs
                   /\ stream'[k].batch = batch
        <5>1. stream'[k] = [op |-> "d2h", batch |-> batch, tensor |-> i]
          BY <2>5, <4>2
        <5> QED  BY <2>4, <5>1
      <4>3. k \in DOMAIN stream \/ \E i \in 1 .. n : k = Len(stream) + i
        BY <2>5, <3>3
      <4>4. CASE k \notin DOMAIN stream
        <5>1. stream'[k].op = "d2h" /\ stream'[k].tensor \in Outputs
              /\ stream'[k].batch = batch
          BY <4>2, <4>3, <4>4
        <5> QED  BY <3>4, <5>1
      <4> QED  BY <4>1, <4>4
    <3> QED  BY <2>5, <3>5 DEF StreamKept
  <2>7. model.gpu
    BY <1>1, <2>1
  <2> QED  BY <1>7, <1>10, <2>1, <2>3, <2>6, <2>7
<1>14. CASE FinishGpuRun
  <2>1. /\ UNCHANGED <<model, gpu, stream>> /\ phase = "serving" /\ pc' = "idle"
        /\ stream = <<>>
    BY <1>14 DEF FinishGpuRun, Serving, Drained
  <2>2. StreamKept(stream')
    <3>1. stream' \in Seq(StreamOps) /\ DOMAIN stream' = {}
      BY <2>1
    <3> QED  BY <3>1 DEF StreamKept
  <2> QED  BY <1>1, <1>7, <2>1, <2>2
<1>15. CASE StreamStep
  <2> DEFINE op == Head(stream)
  <2>1. stream # <<>> /\ stream' = Tail(stream)
        /\ UNCHANGED <<model, phase, buffer, batch, pc>> /\ phase = "serving"
    BY <1>15 DEF StreamStep, Serving
  <2>2. op = stream[1] /\ 1 \in DOMAIN stream /\ op \in StreamOps
    BY <1>1, <2>1
  <2>3. stream' \in Seq(StreamOps)
        /\ \A k \in DOMAIN stream' : stream'[k] = stream[k + 1] /\ k + 1 \in DOMAIN stream
    BY <1>1, <2>1
  <2>4. model.gpu /\ Loaded
    BY <1>1, <2>1 DEF Loaded
  <2>5. \A b \in BatchIds : cell'[b].status = cell[b].status
    <3>1. cell' = cell \/ cell' = [cell EXCEPT ![op.batch].values[op.tensor] =
                                     gpu.outs[op.tensor]]
      BY <1>15, <2>2 DEF StreamStep, StreamOps
    <3>2. ASSUME NEW b \in BatchIds, NEW vs, cell' = [cell EXCEPT ![op.batch].values = vs]
          PROVE cell'[b].status = cell[b].status
      <4>1. cell'[b] = IF b = op.batch THEN [cell[b] EXCEPT !.values = vs] ELSE cell[b]
        BY <3>2 DEF CellInv
      <4>2. cell[b] = [status |-> cell[b].status, values |-> cell[b].values]
        BY DEF CellInv
      <4>3. [cell[b] EXCEPT !.values = vs].status = cell[b].status
        BY <4>2
      <4> QED  BY <4>1, <4>3
    <3>3. cell' = cell \/ \E vs : cell' = [cell EXCEPT ![op.batch].values = vs]
      BY <3>1
    <3> QED  BY <3>2, <3>3
  <2>6. \A k \in DOMAIN stream' : stream'[k].batch \in BatchIds
    <3>1. \A k \in DOMAIN stream' : stream'[k] \in StreamOps
      BY <2>3
    <3> QED  BY <3>1 DEF StreamOps
  <2>7. StreamKept(stream')
    <3> SUFFICES ASSUME NEW k \in DOMAIN stream'
                 PROVE /\ stream'[k].op = "h2d" => stream'[k].tensor \in Inputs
                       /\ stream'[k].op = "d2h" =>
                            /\ stream'[k].tensor \in Outputs
                            /\ \/ cell'[stream'[k].batch].status = "err"
                               \/ pc' = "sync" /\ stream'[k].batch = batch'
      BY <2>3 DEF StreamKept
    <3>1. stream'[k] = stream[k + 1] /\ k + 1 \in DOMAIN stream
      BY <2>3
    <3>2. /\ stream[k + 1].op = "h2d" => stream[k + 1].tensor \in Inputs
          /\ stream[k + 1].op = "d2h" =>
            /\ stream[k + 1].tensor \in Outputs
            /\ \/ cell[stream[k + 1].batch].status = "err"
               \/ pc = "sync" /\ stream[k + 1].batch = batch
      BY <3>1 DEF StreamInv
    <3> QED  BY <2>1, <2>5, <2>6, <3>1, <3>2
  <2>8. gpu' = [ins |-> [i \in Inputs |-> gpu'.ins[i]], outs |-> [o \in Outputs |-> gpu'.outs[o]]]
    <3>1. gpu = [ins  |-> [i \in Inputs |-> gpu.ins[i]],
                 outs |-> [o \in Outputs |-> gpu.outs[o]]]
      BY <1>1, <2>4
    <3>2. CASE op.op = "h2d"
      <4>1. gpu' = [gpu EXCEPT !.ins[op.tensor] = buffer[op.batch][op.tensor]]
        BY <1>15, <2>2, <3>2 DEF StreamStep
      <4> DEFINE v == buffer[op.batch][op.tensor]
                 ins == [gpu.ins EXCEPT ![op.tensor] = v]
      <4>2. gpu' = [gpu EXCEPT !.ins = ins]
        BY <4>1
      <4>3. ins = [i \in Inputs |-> ins[i]]
        BY <3>1
      <4> HIDE DEF ins
      <4>4. gpu' = [ins |-> ins, outs |-> gpu.outs]
        BY <3>1, <4>2
      <4>5. gpu.outs = [o \in Outputs |-> gpu.outs[o]]
        BY <3>1
      <4> QED  BY <4>3, <4>4, <4>5
    <3>3. CASE op.op = "kernel"
      <4>1. gpu' = [gpu EXCEPT !.outs = Kernel(gpu.ins)]
        BY <1>15, <2>2, <3>3 DEF StreamStep
      <4> DEFINE outs == Kernel(gpu.ins)
      <4>2. outs = [o \in Outputs |-> outs[o]]
        BY KernelOutputs
      <4> HIDE DEF outs
      <4>3. gpu' = [ins |-> gpu.ins, outs |-> outs]
        BY <3>1, <4>1 DEF outs
      <4>4. gpu.ins = [i \in Inputs |-> gpu.ins[i]]
        BY <3>1
      <4> QED  BY <4>2, <4>3, <4>4
    <3>4. CASE op.op = "d2h"
      <4>1. gpu' = gpu
        BY <1>15, <2>2, <3>4 DEF StreamStep
      <4> QED  BY <3>1, <4>1, Zenon
    <3> QED  BY <2>2, <3>2, <3>3, <3>4 DEF StreamOps
  <2>9. Inputs' = Inputs /\ Outputs' = Outputs
    BY <2>1, ModelFrame
  <2> QED  BY <1>1, <2>1, <2>4, <2>7, <2>8, <2>9 DEF StreamInv, StreamKept
<1>16. CASE UNCHANGED vars
  BY <1>3, <1>16 DEF vars, sessionVars, Loaded
<1> QED  BY <1>4, <1>5, <1>6, <1>8, <1>9, <1>11, <1>12, <1>13, <1>14, <1>15, <1>16
         DEF Next

(***************************************************************************)
(* The queue of the device, while it grows and while it is worked off.     *)
(***************************************************************************)

\* What is queued reads the batch that runs, so other batches may change.
LEMMA RunFrame ==
    ASSUME UNCHANGED <<model, gpu, stream, batch, cell>>,
           buffer'[batch] = buffer[batch]
    PROVE  /\ \A i, n : Fed(i, n)' = Fed(i, n)
           /\ \A p : Computed(p)' = Computed(p)
           /\ \A o, p : Lands(o, p)' = Lands(o, p)
<1>1. Inputs' = Inputs /\ Outputs' = Outputs
  BY ModelFrame
<1>2. Kernel(buffer[batch])' = Kernel(buffer[batch])
  BY DEF Kernel, Outputs, Inputs, OutWidth, Width
<1>3. \A i, n : Fed(i, n)' = Fed(i, n)
  BY DEF Fed
<1>4. \A p : Computed(p)' = Computed(p)
  BY <1>1, <1>2, <1>3 DEF Computed
<1>5. \A o, p : Lands(o, p)' = Lands(o, p)
  BY <1>2 DEF Lands
<1> QED  BY <1>3, <1>4, <1>5

\* One step of the stream, as what follows looks at it.
Popped ==
    /\ stream \in Seq(StreamOps) /\ stream # <<>> /\ stream' = Tail(stream)
    /\ UNCHANGED <<model, buffer, batch>>
    /\ gpu = [ins |-> [i \in Inputs |-> gpu.ins[i]],
              outs |-> [o \in Outputs |-> gpu.outs[o]]]
    /\ stream[1].op = "h2d" =>
        gpu' = [gpu EXCEPT !.ins[stream[1].tensor] =
                    buffer[stream[1].batch][stream[1].tensor]]
    /\ stream[1].op = "kernel" => gpu' = [gpu EXCEPT !.outs = Kernel(gpu.ins)]
    /\ stream[1].op = "d2h" => gpu' = gpu

\* One step of the stream shortens the queue by its oldest operation.
LEMMA PoppedFacts ==
    ASSUME Popped
    PROVE  /\ Len(stream) \in Nat \ {0} /\ Len(stream') = Len(stream) - 1
           /\ \A k \in 1 .. Len(stream) - 1 : stream'[k] = stream[k + 1]
           /\ stream[1].op \in {"h2d", "kernel", "d2h"}
<1>1. stream \in Seq(StreamOps) /\ stream # <<>> /\ stream' = Tail(stream)
  BY DEF Popped
<1>2. Len(stream) \in Nat \ {0} /\ Len(stream') = Len(stream) - 1
      /\ \A k \in 1 .. Len(stream) - 1 : stream'[k] = stream[k + 1]
  BY <1>1
<1>3. stream[1] \in StreamOps
  BY <1>1
<1> QED  BY <1>2, <1>3 DEF StreamOps

\* An input that a copy leaves on the device stays there until the next one.
LEMMA PoppedInput ==
    ASSUME Popped, NEW i \in Inputs
    PROVE  gpu'.ins[i] = IF stream[1].op = "h2d" /\ stream[1].tensor = i
                         THEN buffer[stream[1].batch][i] ELSE gpu.ins[i]
<1>1. gpu = [ins |-> [j \in Inputs |-> gpu.ins[j]],
             outs |-> [o \in Outputs |-> gpu.outs[o]]]
  BY DEF Popped
<1>2. CASE stream[1].op = "h2d"
  <2> DEFINE t == stream[1].tensor
             v == buffer[stream[1].batch][t]
  <2>1. gpu' = [gpu EXCEPT !.ins[t] = v]
    BY <1>2 DEF Popped
  <2>2. ASSUME NEW ins, gpu' = [gpu EXCEPT !.ins = ins] PROVE gpu'.ins = ins
    BY <1>1, <2>2
  <2>3. gpu'.ins = [gpu.ins EXCEPT ![t] = v]
    BY <2>1, <2>2
  <2>4. [gpu.ins EXCEPT ![t] = v][i] = IF t = i THEN v ELSE gpu.ins[i]
    <3>1. gpu.ins = [j \in Inputs |-> gpu.ins[j]]
      BY <1>1
    <3> HIDE DEF t, v
    <3> QED  BY <3>1
  <2> QED  BY <1>2, <2>3, <2>4
<1>3. CASE stream[1].op = "kernel"
  <2>1. gpu' = [gpu EXCEPT !.outs = Kernel(gpu.ins)]
    BY <1>3 DEF Popped
  <2>2. ASSUME NEW outs, gpu' = [gpu EXCEPT !.outs = outs] PROVE gpu'.ins = gpu.ins
    BY <1>1, <2>2
  <2>3. gpu'.ins = gpu.ins
    BY <2>1, <2>2
  <2> QED  BY <1>3, <2>3
<1>4. CASE stream[1].op = "d2h"
  <2>1. gpu' = gpu
    BY <1>4 DEF Popped
  <2> QED  BY <1>4, <2>1
<1> QED  BY <1>2, <1>3, <1>4, PoppedFacts

\* The kernel leaves the outputs of the inputs that are on the device.
LEMMA PoppedOutputs ==
    ASSUME Popped
    PROVE  gpu'.outs = IF stream[1].op = "kernel" THEN Kernel(gpu.ins) ELSE gpu.outs
<1>1. gpu = [ins |-> [j \in Inputs |-> gpu.ins[j]],
             outs |-> [o \in Outputs |-> gpu.outs[o]]]
  BY DEF Popped
<1>2. CASE stream[1].op = "h2d"
  <2>1. gpu' = [gpu EXCEPT !.ins[stream[1].tensor] =
                    buffer[stream[1].batch][stream[1].tensor]]
    BY <1>2 DEF Popped
  <2>2. ASSUME NEW ins, gpu' = [gpu EXCEPT !.ins = ins] PROVE gpu'.outs = gpu.outs
    BY <1>1, <2>2
  <2> QED  BY <1>2, <2>1, <2>2
<1>3. CASE stream[1].op = "kernel"
  <2>1. gpu' = [gpu EXCEPT !.outs = Kernel(gpu.ins)]
    BY <1>3 DEF Popped
  <2>2. ASSUME NEW outs, gpu' = [gpu EXCEPT !.outs = outs] PROVE gpu'.outs = outs
    BY <1>1, <2>2
  <2> QED  BY <1>3, <2>1, <2>2
<1>4. CASE stream[1].op = "d2h"
  BY <1>4 DEF Popped
<1> QED  BY <1>2, <1>3, <1>4, PoppedFacts

\* An input that the queue brings is brought by what is left of it.
LEMMA FedPopped ==
    ASSUME Popped, NEW i \in Inputs, NEW n \in 1 .. Len(stream), Fed(i, n)
    PROVE  Fed(i, n - 1)'
<1>1. /\ Len(stream) \in Nat \ {0} /\ batch' = batch /\ buffer' = buffer
      /\ \A k \in 1 .. Len(stream) - 1 : stream'[k] = stream[k + 1]
  BY PoppedFacts DEF Popped
<1>2. PICK p \in 0 .. n :
        /\ IF p = 0 THEN gpu.ins[i] = buffer[batch][i]
           ELSE stream[p].op = "h2d" /\ stream[p].tensor = i /\ stream[p].batch = batch
        /\ \A q \in p + 1 .. n :
            stream[q].op = "h2d" /\ stream[q].tensor = i => stream[q].batch = batch
  BY DEF Fed
<1>3. \A r, q \in 1 .. n - 1 : q + 1 \in 2 .. n /\ stream'[q] = stream[q + 1]
  BY <1>1
<1>4. CASE p > 1
  <2> DEFINE r == p - 1
  <2>1. r \in 0 .. n - 1 /\ r # 0 /\ r \in 1 .. n - 1 /\ r + 1 = p
    BY <1>1, <1>4
  <2>2. stream'[r].op = "h2d" /\ stream'[r].tensor = i /\ stream'[r].batch = batch
    BY <1>2, <1>3, <1>4, <2>1, SMTT(30)
  <2>3. ASSUME NEW q \in r + 1 .. n - 1, stream'[q].op = "h2d", stream'[q].tensor = i
        PROVE  stream'[q].batch = batch
    <3>1. q \in 1 .. n - 1 /\ q + 1 \in p + 1 .. n
      BY <1>1, <2>1
    <3> QED  BY <1>2, <1>3, <2>3, <3>1
  <2> HIDE DEF r
  <2> QED  BY <1>1, <2>1, <2>2, <2>3 DEF Fed
<1>5. CASE p \in {0, 1}
  <2>1. gpu'.ins[i] = buffer[batch][i]
    <3>1. CASE p = 1
      <4>1. stream[1].op = "h2d" /\ stream[1].tensor = i /\ stream[1].batch = batch
        BY <1>2, <3>1
      <4> QED  BY <4>1, PoppedInput
    <3>2. CASE p = 0
      <4>1. 1 \in p + 1 .. n /\ gpu.ins[i] = buffer[batch][i]
        BY <1>1, <1>2, <3>2
      <4>2. stream[1].op = "h2d" /\ stream[1].tensor = i => stream[1].batch = batch
        BY <1>2, <4>1
      <4> QED  BY <4>1, <4>2, PoppedInput
    <3> QED  BY <1>5, <3>1, <3>2
  <2>2. ASSUME NEW q \in 1 .. n - 1, stream'[q].op = "h2d", stream'[q].tensor = i
        PROVE  stream'[q].batch = batch
    <3>1. q + 1 \in p + 1 .. n
      BY <1>1, <1>5
    <3> QED  BY <1>2, <1>3, <2>2, <3>1
  <2>3. 0 \in 0 .. n - 1 /\ 0 + 1 = 1
    BY <1>1
  <2> QED  BY <1>1, <2>1, <2>2, <2>3 DEF Fed
<1> QED  BY <1>2, <1>4, <1>5

\* The place of an operation after one step.
Left(p) == IF p = 0 THEN 0 ELSE p - 1

\* The outputs of the running batch stay due, one place further on.
LEMMA ComputedPopped ==
    ASSUME Popped, buffer[batch] = [i \in Inputs |-> buffer[batch][i]],
           NEW p \in 0 .. Len(stream), Computed(p)
    PROVE  Left(p) \in 0 .. Len(stream') /\ Computed(Left(p))'
<1>1. /\ Len(stream) \in Nat \ {0} /\ Len(stream') = Len(stream) - 1
      /\ batch' = batch /\ buffer' = buffer /\ model' = model
      /\ \A k \in 1 .. Len(stream) - 1 : stream'[k] = stream[k + 1]
  BY PoppedFacts DEF Popped
<1>2. Inputs' = Inputs /\ Kernel(buffer[batch])' = Kernel(buffer[batch])
  BY <1>1, KernelFrame, ModelFrame
<1>3. \A q \in p + 1 .. Len(stream) : stream[q].op # "kernel"
  BY DEF Computed
<1>4. Left(p) \in 0 .. Len(stream')
  BY <1>1 DEF Left
<1>5. ASSUME NEW q \in Left(p) + 1 .. Len(stream') PROVE stream'[q].op # "kernel"
  <2>1. q \in 1 .. Len(stream) - 1 /\ q + 1 \in p + 1 .. Len(stream)
    BY <1>1 DEF Left
  <2> QED  BY <1>1, <1>3, <2>1
<1>6. CASE p > 1
  <2>1. stream[p].op = "kernel" /\ \A i \in Inputs : Fed(i, p - 1)
    BY <1>6 DEF Computed
  <2>2. Left(p) = p - 1 /\ p - 1 # 0 /\ p - 1 \in 1 .. Len(stream) - 1 /\ (p - 1) + 1 = p
        /\ p - 1 \in 1 .. Len(stream)
    BY <1>1, <1>6 DEF Left
  <2>3. stream'[p - 1].op = "kernel"
    BY <1>1, <2>1, <2>2
  <2>4. \A i \in Inputs : Fed(i, (p - 1) - 1)'
    BY <2>1, <2>2, FedPopped
  <2> QED  BY <1>2, <1>4, <1>5, <2>2, <2>3, <2>4 DEF Computed
<1>7. CASE p \in {0, 1}
  <2>1. Left(p) = 0
    BY <1>7 DEF Left
  <2>2. gpu'.outs = Kernel(buffer[batch])
    <3>1. CASE p = 0
      <4>1. gpu.outs = Kernel(buffer[batch]) /\ 1 \in p + 1 .. Len(stream)
        BY <1>1, <3>1 DEF Computed
      <4>2. stream[1].op # "kernel"
        BY <1>3, <4>1
      <4> QED  BY <4>1, <4>2, PoppedOutputs
    <3>2. CASE p = 1
      <4>1. stream[1].op = "kernel" /\ \A i \in Inputs : Fed(i, 1 - 1)
        BY <3>2 DEF Computed
      <4>2. \A i \in Inputs : gpu.ins[i] = buffer[batch][i]
        <5>1. 1 - 1 = 0 /\ \A r \in 0 .. 0 : r = 0
          OBVIOUS
        <5> QED  BY <4>1, <5>1 DEF Fed
      <4>3. gpu.ins = [i \in Inputs |-> gpu.ins[i]]
        <5>1. gpu = [ins |-> [i \in Inputs |-> gpu.ins[i]],
                     outs |-> [o \in Outputs |-> gpu.outs[o]]]
          BY DEF Popped
        <5> QED  BY <5>1
      <4>4. gpu.ins = buffer[batch]
        BY <4>2, <4>3
      <4> QED  BY <4>1, <4>4, PoppedOutputs
    <3> QED  BY <1>7, <3>1, <3>2
  <2> QED  BY <1>2, <1>4, <1>5, <2>1, <2>2 DEF Computed
<1> QED  BY <1>4, <1>6, <1>7

\* The outputs of the running batch while the queue is worked off.
Landing(p) ==
    /\ \A q \in 1 .. p : ~(stream[q].op = "d2h" /\ stream[q].batch = batch)
    /\ \A o \in Outputs : Lands(o, p)

\* An output that has landed stays, one that is queued comes closer.
LEMMA LandingPopped ==
    ASSUME Popped, NEW p \in 0 .. Len(stream), Computed(p), Landing(p),
           batch \in BatchIds,
           cell[batch].values = [o \in Outputs |-> cell[batch].values[o]],
           IF stream[1].op = "d2h" /\ stream[1].batch = batch
           THEN /\ stream[1].tensor \in Outputs
                /\ cell'[batch].values =
                    [cell[batch].values EXCEPT ![stream[1].tensor] =
                         gpu.outs[stream[1].tensor]]
           ELSE cell'[batch].values = cell[batch].values
    PROVE  /\ Landing(Left(p))'
           /\ cell'[batch].values = [o \in Outputs |-> cell'[batch].values[o]]
<1>1. /\ Len(stream) \in Nat \ {0} /\ Len(stream') = Len(stream) - 1
      /\ batch' = batch /\ buffer' = buffer /\ model' = model
      /\ \A k \in 1 .. Len(stream) - 1 : stream'[k] = stream[k + 1]
  BY PoppedFacts DEF Popped
<1>2. Outputs' = Outputs /\ Kernel(buffer[batch])' = Kernel(buffer[batch])
  BY <1>1, KernelFrame, ModelFrame
<1> DEFINE own == stream[1].op = "d2h" /\ stream[1].batch = batch
           t == stream[1].tensor
<1>3. cell'[batch].values = [o \in Outputs |-> cell'[batch].values[o]]
  <2>1. CASE own
    <3>1. cell'[batch].values = [cell[batch].values EXCEPT ![t] = gpu.outs[t]]
      BY <2>1
    <3> QED  BY <3>1
  <2>2. CASE ~own
    BY <2>2
  <2> QED  BY <2>1, <2>2
<1>4. own => p = 0 /\ gpu.outs = Kernel(buffer[batch]) /\ t \in Outputs
  <2>1. own => p = 0
    BY <1>1 DEF Landing
  <2>2. p = 0 => gpu.outs = Kernel(buffer[batch])
    BY DEF Computed
  <2> QED  BY <2>1, <2>2
<1>5. ASSUME NEW q \in 1 .. Left(p)
      PROVE  ~(stream'[q].op = "d2h" /\ stream'[q].batch = batch)
  <2>1. q \in 1 .. Len(stream) - 1 /\ q + 1 \in 1 .. p
    BY <1>1 DEF Left
  <2> QED  BY <1>1, <2>1 DEF Landing
<1>6. ASSUME NEW o \in Outputs PROVE Lands(o, Left(p))'
  <2>1. CASE own /\ o = t
    <3>1. cell'[batch].values[o] = gpu.outs[o]
      BY <2>1
    <3> QED  BY <1>1, <1>2, <1>4, <2>1, <3>1 DEF Lands
  <2>2. CASE ~(own /\ o = t)
    <3>1. cell'[batch].values[o] = cell[batch].values[o]
      <4>1. CASE own
        <5>1. cell'[batch].values = [cell[batch].values EXCEPT ![t] = gpu.outs[t]]
          BY <4>1
        <5>2. o # t
          BY <2>2, <4>1
        <5> QED  BY <5>1, <5>2
      <4>2. CASE ~own
        BY <4>2
      <4> QED  BY <4>1, <4>2
    <3>2. Lands(o, p)
      BY DEF Landing
    <3>3. CASE cell[batch].values[o] = Kernel(buffer[batch])[o]
      BY <1>1, <1>2, <3>1, <3>3 DEF Lands
    <3>4. ASSUME NEW q \in p + 1 .. Len(stream),
                 stream[q].op = "d2h", stream[q].tensor = o, stream[q].batch = batch
          PROVE  Lands(o, Left(p))'
      <4>1. q # 1
        BY <2>2, <3>4
      <4> DEFINE r == q - 1
      <4>2. r \in Left(p) + 1 .. Len(stream') /\ r \in 1 .. Len(stream) - 1 /\ r + 1 = q
        BY <1>1, <4>1 DEF Left
      <4>3. stream'[r] = stream[q]
        BY <1>1, <4>2
      <4> HIDE DEF r
      <4>4. stream'[r].op = "d2h" /\ stream'[r].tensor = o /\ stream'[r].batch = batch
        BY <3>4, <4>3
      <4> QED  BY <1>1, <4>2, <4>4 DEF Lands
    <3> QED  BY <3>2, <3>3, <3>4 DEF Lands
  <2> QED  BY <2>1, <2>2
<1> QED  BY <1>1, <1>2, <1>3, <1>5, <1>6 DEF Landing

\* The step of the stream, and what it does to the result of the running batch.
LEMMA StreamFacts ==
    ASSUME Basics, CellInv, StreamInv, StreamStep
    PROVE  /\ Popped /\ pc' = pc /\ model.gpu
           /\ stream[1].op = "d2h" => stream[1].tensor \in Outputs
           /\ batch \in BatchIds =>
                IF stream[1].op = "d2h" /\ stream[1].batch = batch
                THEN /\ stream[1].tensor \in Outputs
                     /\ cell'[batch].values =
                         [cell[batch].values EXCEPT ![stream[1].tensor] =
                              gpu.outs[stream[1].tensor]]
                ELSE cell'[batch].values = cell[batch].values
<1> DEFINE op == stream[1]
<1>1. /\ stream \in Seq(StreamOps) /\ stream # <<>> /\ stream' = Tail(stream)
      /\ UNCHANGED <<model, buffer, batch, pc>> /\ phase = "serving"
  BY DEF StreamStep, Serving, StreamInv
<1>2. Head(stream) = op /\ 1 \in DOMAIN stream /\ op \in StreamOps
  BY <1>1
<1>3. model.gpu
  BY <1>1 DEF StreamInv
<1>4. gpu = [ins |-> [i \in Inputs |-> gpu.ins[i]], outs |-> [o \in Outputs |-> gpu.outs[o]]]
  BY <1>1, <1>3 DEF StreamInv, Loaded
<1>5. op.op = "h2d" => cell' = cell /\ gpu' = [gpu EXCEPT !.ins[op.tensor] =
                                                   buffer[op.batch][op.tensor]]
  BY <1>2 DEF StreamStep
<1>6. op.op = "kernel" => cell' = cell /\ gpu' = [gpu EXCEPT !.outs = Kernel(gpu.ins)]
  BY <1>2 DEF StreamStep
<1>7. op.op = "d2h" => /\ gpu' = gpu
                       /\ cell' = IF cell[op.batch].status = "err" THEN cell
                                  ELSE [cell EXCEPT ![op.batch].values[op.tensor] =
                                            gpu.outs[op.tensor]]
  BY <1>2 DEF StreamStep
<1>8. op.op = "d2h" => /\ op.tensor \in Outputs
                       /\ cell[op.batch].status = "err" \/ op.batch = batch
  BY <1>2 DEF StreamInv
<1>9. Popped
  BY <1>1, <1>4, <1>5, <1>6, <1>7 DEF Popped
<1>10. ASSUME batch \in BatchIds, op.op = "d2h", op.batch = batch
       PROVE  cell'[batch].values = [cell[batch].values EXCEPT ![op.tensor] =
                                         gpu.outs[op.tensor]]
  <2> DEFINE vs == [cell[batch].values EXCEPT ![op.tensor] = gpu.outs[op.tensor]]
  <2>1. batch \in Nat
    BY DEF Basics, OrderInv
  <2>2. cell[batch].status = "none" /\ DOMAIN cell = BatchIds
        /\ cell[batch] = [status |-> cell[batch].status, values |-> cell[batch].values]
    BY <1>10, <2>1 DEF CellInv
  <2>3. cell' = [cell EXCEPT ![batch].values = vs]
    BY <1>7, <1>10, <2>2
  <2> HIDE DEF vs
  <2>4. cell'[batch] = [cell[batch] EXCEPT !.values = vs]
    BY <1>10, <2>2, <2>3
  <2>5. cell'[batch].values = vs
    BY <2>2, <2>4
  <2> QED  BY <2>5 DEF vs
<1>11. ASSUME batch \in BatchIds, ~(op.op = "d2h" /\ op.batch = batch)
       PROVE  cell'[batch].values = cell[batch].values
  <2>1. cell' = cell
    BY <1>2, <1>5, <1>6, <1>7, <1>8, <1>11 DEF StreamOps
  <2> QED  BY <2>1
<1> QED  BY <1>1, <1>3, <1>8, <1>9, <1>10, <1>11

\* What is queued behind does not disturb what was queued.
LEMMA FedQueued ==
    ASSUME UNCHANGED <<gpu, buffer, batch>>, Len(stream) \in Nat,
           \A k \in 1 .. Len(stream) : stream'[k] = stream[k],
           NEW i, NEW n \in 0 .. Len(stream), Fed(i, n)
    PROVE  Fed(i, n)'
<1>1. PICK p \in 0 .. n :
        /\ IF p = 0 THEN gpu.ins[i] = buffer[batch][i]
           ELSE stream[p].op = "h2d" /\ stream[p].tensor = i /\ stream[p].batch = batch
        /\ \A q \in p + 1 .. n :
            stream[q].op = "h2d" /\ stream[q].tensor = i => stream[q].batch = batch
  BY DEF Fed
<1>2. p # 0 => stream'[p] = stream[p]
  OBVIOUS
<1>3. \A q \in p + 1 .. n : stream'[q] = stream[q]
  OBVIOUS
<1>4. IF p = 0 THEN gpu'.ins[i] = buffer'[batch'][i]
      ELSE stream'[p].op = "h2d" /\ stream'[p].tensor = i /\ stream'[p].batch = batch'
  BY <1>1, <1>2
<1>5. \A q \in p + 1 .. n :
        stream'[q].op = "h2d" /\ stream'[q].tensor = i => stream'[q].batch = batch'
  BY <1>1, <1>3
<1> QED  BY <1>4, <1>5 DEF Fed

\* Whatever failed runs left queued, the running batch gets its own outputs.
LEMMA NextRun ==
    ASSUME Basics, CellInv, StreamInv, RunInv, [Next]_vars
    PROVE  RunInv'
<1>1. /\ pc = "run_binding" => \A i \in Inputs : Fed(i, Len(stream))
      /\ pc = "d2h" => \E p \in 0 .. Len(stream) : Computed(p)
      /\ pc = "sync" =>
            /\ cell[batch].values = [o \in Outputs |-> cell[batch].values[o]]
            /\ \E p \in 0 .. Len(stream) : Computed(p) /\ Landing(p)
  BY DEF RunInv, Landing
<1>2. /\ stream \in Seq(StreamOps) /\ Len(stream) \in Nat
      /\ pc # "idle" => batch \in BatchIds
      /\ phase = "serving" => \A b \in BatchIds : buffer[b] = [i \in Inputs |-> buffer[b][i]]
  BY DEF StreamInv, Basics, OrderInv, BufferInv, Loaded
<1>3. ASSUME UNCHANGED <<model, cell, pc, batch, stream, gpu>>,
             pc # "idle" => buffer'[batch] = buffer[batch]
      PROVE  RunInv'
  <2>1. CASE pc = "idle"
    BY <1>3, <2>1 DEF RunInv
  <2>2. CASE pc # "idle"
    <3>1. /\ \A i, n : Fed(i, n)' = Fed(i, n)
          /\ \A p : Computed(p)' = Computed(p)
          /\ \A o, p : Lands(o, p)' = Lands(o, p)
          /\ Inputs' = Inputs /\ Outputs' = Outputs
      BY <1>3, <2>2, RunFrame, ModelFrame
    <3> QED  BY <1>3, <3>1 DEF RunInv
  <2> QED  BY <2>1, <2>2
<1>4. ASSUME pc' \in {"idle", "run_host", "h2d"} PROVE RunInv'
  BY <1>4 DEF RunInv
<1>5. CASE LoadModel
  <2>1. pc' = "idle"
    BY <1>5, LoadFacts DEF Basics, LoadInv, Loaded
  <2> QED  BY <1>4, <2>1
<1>6. ASSUME NEW c \in Calls, ModelInfer(c) PROVE RunInv'
  <2>1. PICK req \in Requests(MetaOf(model)) :
            /\ UNCHANGED <<model, cell, pc, batch, stream, gpu>>
            /\ Refused(c, req) \/ Inserted(c, req)
    BY <1>6, ModelInferFacts
  <2>2. pc # "idle" => buffer'[batch] = buffer[batch]
    BY <2>1, FrozenBuffers DEF Refused
  <2> QED  BY <1>3, <2>1, <2>2
<1>7. ASSUME NEW c \in Calls, GetData(c) PROVE RunInv'
  BY <1>3, <1>7, AnswerFrame
<1>8. CASE StartRun
  BY <1>4, <1>8 DEF StartRun
<1>9. CASE RunHost
  BY <1>4, <1>9 DEF RunHost, RunFails
<1>10. RunFails => RunInv'
  BY <1>4 DEF RunFails
<1>11. CASE QueueH2D
  <2>1. /\ UNCHANGED <<model, gpu, buffer>> /\ pc = "h2d"
        /\ \E n \in 0 .. Cardinality(Inputs) :
            /\ stream' = stream \o [i \in 1 .. n |->
                                   [op |-> "h2d", batch |-> batch, tensor |-> i]]
            /\ \/ n = Cardinality(Inputs) /\ pc' = "run_binding"
                  /\ UNCHANGED <<cell, batch>>
               \/ RunFails
    BY <1>11 DEF QueueH2D
  <2>2. Inputs = 1 .. Cardinality(Inputs) /\ Cardinality(Inputs) \in Nat
    <3>1. Inputs = 1 .. Len(model.inputs) /\ Len(model.inputs) \in Nat
      BY ModelTypes DEF Basics, LoadInv
    <3>2. Cardinality(1 .. Len(model.inputs)) = Len(model.inputs)
      BY <3>1, FS_Interval, SMT
    <3> QED  BY <3>1, <3>2
  <2> DEFINE n == Cardinality(Inputs)
  <2>3. RunFails \/ (/\ stream' = stream \o Copies("h2d", n) /\ pc' = "run_binding"
                     /\ UNCHANGED <<cell, batch>>)
    BY <2>1 DEF Copies
  <2>4. ASSUME stream' = stream \o Copies("h2d", n), pc' = "run_binding",
               UNCHANGED <<cell, batch>>
        PROVE  RunInv'
    <3>1. Behind(stream', "h2d", n)
      BY <1>2, <2>1, <2>2, <2>4, QueuedBehind
    <3>2. Len(stream') = Len(stream) + n
          /\ \A i \in 1 .. n : stream'[Len(stream) + i] =
                    [op |-> "h2d", batch |-> batch, tensor |-> i]
      BY <3>1 DEF Behind
    <3> PICK len \in Nat : len = Len(stream')
      BY <1>2, <2>2, <3>2
    <3>3. ASSUME NEW i \in Inputs PROVE Fed(i, len)'
      <4> PICK p : p = Len(stream) + i
        OBVIOUS
      <4>1. i \in 1 .. n /\ p \in 0 .. Len(stream') /\ p # 0
        BY <1>2, <2>2, <3>2
      <4>a. stream'[p] = [op |-> "h2d", batch |-> batch, tensor |-> i]
        BY <3>2, <4>1
      <4>2. stream'[p].op = "h2d" /\ stream'[p].tensor = i /\ stream'[p].batch = batch
        BY <4>a
      <4>3. ASSUME NEW q \in p + 1 .. Len(stream') PROVE stream'[q].batch = batch
        <5>1. q - Len(stream) \in 1 .. n /\ Len(stream) + (q - Len(stream)) = q
          BY <1>2, <2>2, <3>2, <4>1
        <5>2. stream'[q] = [op |-> "h2d", batch |-> batch, tensor |-> q - Len(stream)]
          BY <3>2, <5>1
        <5> QED  BY <5>2
      <4> QED  BY <2>4, <4>1, <4>2, <4>3 DEF Fed
    <3>4. Inputs' = Inputs
      BY <2>1, ModelFrame
    <3>5. \A i \in Inputs' : Fed(i, Len(stream))'
      BY <3>3, <3>4, Zenon
    <3> QED  BY <2>4, <3>5 DEF RunInv
  <2> QED  BY <1>10, <2>3, <2>4
<1>12. CASE RunBinding
  <2> DEFINE op == [op |-> "kernel", batch |-> batch, tensor |-> 0]
  <2>1. /\ UNCHANGED <<model, gpu, buffer>> /\ pc = "run_binding"
        /\ \/ stream' = Append(stream, op) /\ pc' = "d2h" /\ UNCHANGED <<cell, batch>>
           \/ RunFails
    BY <1>12 DEF RunBinding
  <2>2. ASSUME stream' = Append(stream, op), pc' = "d2h", UNCHANGED <<cell, batch>>
        PROVE  RunInv'
    <3> PICK p \in Nat : p = Len(stream) + 1
      BY <1>2
    <3>1. op.op = "kernel"
      OBVIOUS
    <3> HIDE DEF op
    <3>2. /\ Len(stream') = p /\ stream'[p] = op
          /\ \A k \in 1 .. Len(stream) : stream'[k] = stream[k]
      BY <1>2, <2>2
    <3>3. ASSUME NEW i \in Inputs PROVE Fed(i, p - 1)'
      <4>1. p - 1 = Len(stream) /\ Fed(i, p - 1) /\ p - 1 \in 0 .. Len(stream)
        BY <1>1, <1>2, <2>1
      <4> QED  BY <1>2, <2>1, <2>2, <3>2, <4>1, FedQueued
    <3>4. p \in 0 .. Len(stream') /\ p # 0 /\ p + 1 .. Len(stream') = {}
      BY <1>2, <3>2
    <3>5. Inputs' = Inputs
      BY <2>1, ModelFrame
    <3>6. Computed(p)'
      BY <3>1, <3>2, <3>3, <3>4, <3>5 DEF Computed
    <3> QED  BY <2>2, <3>4, <3>6 DEF RunInv
  <2> QED  BY <1>10, <2>1, <2>2
<1>13. CASE QueueD2H
  <2>1. /\ UNCHANGED <<model, gpu, buffer>> /\ pc = "d2h"
        /\ \E n \in 0 .. Cardinality(Outputs) :
            /\ stream' = stream \o [o \in 1 .. n |->
                                   [op |-> "d2h", batch |-> batch, tensor |-> o]]
            /\ \/ n = Cardinality(Outputs) /\ pc' = "sync" /\ UNCHANGED batch
                  /\ OutputOf(batch, "none", Unset)
               \/ RunFails
    BY <1>13 DEF QueueD2H
  <2>2. Outputs = 1 .. Cardinality(Outputs) /\ Cardinality(Outputs) \in Nat
    <3>1. Outputs = 1 .. Len(model.outputs) /\ Len(model.outputs) \in Nat
      BY ModelTypes DEF Basics, LoadInv
    <3>2. Cardinality(1 .. Len(model.outputs)) = Len(model.outputs)
      BY <3>1, FS_Interval, SMT
    <3> QED  BY <3>1, <3>2
  <2> DEFINE n == Cardinality(Outputs)
  <2>3. RunFails \/ (/\ stream' = stream \o Copies("d2h", n) /\ pc' = "sync"
                     /\ UNCHANGED batch /\ OutputOf(batch, "none", Unset))
    BY <2>1 DEF Copies
  <2>4. ASSUME stream' = stream \o Copies("d2h", n), pc' = "sync",
               UNCHANGED batch, OutputOf(batch, "none", Unset)
        PROVE  RunInv'
    <3>1. Behind(stream', "d2h", n)
      BY <1>2, <2>1, <2>2, <2>4, QueuedBehind
    <3>2. /\ Len(stream') = Len(stream) + n
          /\ \A k \in 1 .. Len(stream) : stream'[k] = stream[k]
          /\ \A i \in 1 .. n : stream'[Len(stream) + i] =
                    [op |-> "d2h", batch |-> batch, tensor |-> i]
          /\ \A k \in 1 .. Len(stream') : \/ k \in 1 .. Len(stream)
                                          \/ \E i \in 1 .. n : k = Len(stream) + i
      BY <3>1 DEF Behind
    <3>3. PICK p \in 0 .. Len(stream) : Computed(p)
      BY <1>1, <2>1
    <3>4. Inputs' = Inputs /\ Outputs' = Outputs
          /\ Kernel(buffer[batch])' = Kernel(buffer[batch])
      BY <2>1, <2>4, ModelFrame, KernelFrame
    <3>5. Computed(p)'
      <4>1. ASSUME NEW i \in Inputs, p # 0, Fed(i, p - 1) PROVE Fed(i, p - 1)'
        <5>1. p - 1 \in 0 .. Len(stream)
          BY <1>2, <4>1
        <5> QED  BY <1>2, <2>1, <2>4, <3>2, <4>1, <5>1, FedQueued
      <4>2. IF p = 0 THEN gpu'.outs = Kernel(buffer[batch])'
            ELSE stream'[p].op = "kernel" /\ \A i \in Inputs : Fed(i, p - 1)'
        <5>1. p # 0 => stream'[p] = stream[p]
          BY <1>2, <3>2
        <5> QED  BY <2>1, <3>3, <3>4, <4>1, <5>1 DEF Computed
      <4>3. ASSUME NEW q \in p + 1 .. Len(stream') PROVE stream'[q].op # "kernel"
        <5>1. q \in 1 .. Len(stream')
          BY <1>2, <2>2, <3>2
        <5>2. CASE q \in 1 .. Len(stream)
          <6>1. stream[q].op # "kernel"
            BY <3>3, <5>2 DEF Computed
          <6> QED  BY <3>2, <5>2, <6>1
        <5>3. ASSUME NEW i \in 1 .. n, q = Len(stream) + i PROVE stream'[q].op # "kernel"
          <6>1. stream'[q] = [op |-> "d2h", batch |-> batch, tensor |-> i]
            BY <3>2, <5>3
          <6> QED  BY <6>1
        <5> QED  BY <3>2, <5>1, <5>2, <5>3
      <4> QED  BY <3>4, <4>2, <4>3 DEF Computed
    <3>6. ASSUME NEW q \in 1 .. p
          PROVE  ~(stream'[q].op = "d2h" /\ stream'[q].batch = batch)
      <4>1. q \in DOMAIN stream /\ stream'[q] = stream[q]
        <5>1. q \in 1 .. Len(stream)
          BY <1>2
        <5>2. DOMAIN stream = 1 .. Len(stream)
          BY <1>2
        <5> QED  BY <3>2, <5>1, <5>2
      <4>2. stream[q].op = "d2h" => cell[stream[q].batch].status = "err"
        BY <2>1, <4>1 DEF StreamInv
      <4>3. cell[batch].status = "none"
        BY <1>2, <2>1 DEF CellInv, Basics, OrderInv
      <4> QED  BY <4>1, <4>2, <4>3
    <3>7. ASSUME NEW o \in Outputs PROVE Lands(o, p)'
      <4> PICK q : q = Len(stream) + o
        OBVIOUS
      <4>1. o \in 1 .. n /\ q \in p + 1 .. Len(stream')
        BY <1>2, <2>2, <3>2
      <4>a. stream'[q] = [op |-> "d2h", batch |-> batch, tensor |-> o]
        BY <3>2, <4>1
      <4>2. stream'[q].op = "d2h" /\ stream'[q].tensor = o /\ stream'[q].batch = batch
        BY <4>a
      <4> QED  BY <2>4, <4>1, <4>2 DEF Lands
    <3>8. cell'[batch].values = [o \in Outputs |-> cell'[batch].values[o]]
      <4>1. cell'[batch].values = Unset
        BY <1>2, <2>1, <2>4 DEF OutputOf, CellInv
      <4> QED  BY <4>1 DEF Unset
    <3>9. p \in 0 .. Len(stream')
      BY <1>2, <2>2, <3>2
    <3> QED  BY <2>4, <3>4, <3>5, <3>6, <3>7, <3>8, <3>9 DEF RunInv
  <2> QED  BY <1>10, <2>3, <2>4
<1>14. CASE FinishGpuRun
  BY <1>4, <1>14 DEF FinishGpuRun
<1>15. CASE StreamStep
  <2>1. Popped /\ pc' = pc /\ phase = "serving"
    BY <1>15, StreamFacts DEF StreamStep, Serving
  <2>2. /\ Len(stream) \in Nat \ {0} /\ Len(stream') = Len(stream) - 1
        /\ batch' = batch /\ model' = model /\ Inputs' = Inputs /\ Outputs' = Outputs
    BY <2>1, PoppedFacts, ModelFrame DEF Popped
  <2>3. pc = "run_binding" => \A i \in Inputs : Fed(i, Len(stream))'
    <3>1. PICK n \in Nat : n = Len(stream) /\ n \in 1 .. Len(stream) /\ Len(stream') = n - 1
      BY <2>2
    <3>2. ASSUME NEW i \in Inputs, Fed(i, n) PROVE Fed(i, n - 1)'
      BY <2>1, <3>1, <3>2, FedPopped
    <3>3. PICK m : m = n - 1
      OBVIOUS
    <3>4. ASSUME NEW i \in Inputs, Fed(i, n) PROVE Fed(i, m)'
      BY <3>2, <3>3, <3>4
    <3>5. ASSUME NEW i \in Inputs, Fed(i, n) PROVE Fed(i, Len(stream))'
      BY <3>1, <3>3, <3>4, <3>5, Zenon
    <3> QED  BY <1>1, <3>1, <3>5
  <2>4. ASSUME pc # "idle", NEW p \in 0 .. Len(stream), Computed(p)
        PROVE  Left(p) \in 0 .. Len(stream') /\ Computed(Left(p))'
    <3>1. buffer[batch] = [i \in Inputs |-> buffer[batch][i]]
      BY <1>2, <2>1, <2>4
    <3> QED  BY <2>1, <2>4, <3>1, ComputedPopped
  <2>5. pc = "sync" =>
            /\ cell'[batch].values = [o \in Outputs |-> cell'[batch].values[o]]
            /\ \E p \in 0 .. Len(stream') : Computed(p)' /\ Landing(p)'
    <3> SUFFICES ASSUME pc = "sync"
                 PROVE /\ cell'[batch].values = [o \in Outputs |-> cell'[batch].values[o]]
                       /\ \E p \in 0 .. Len(stream') : Computed(p)' /\ Landing(p)'
      OBVIOUS
    <3>1. PICK p \in 0 .. Len(stream) : Computed(p) /\ Landing(p)
      BY <1>1
    <3>2. cell[batch].values = [o \in Outputs |-> cell[batch].values[o]]
          /\ batch \in BatchIds
      BY <1>1, <1>2
    <3>3. IF stream[1].op = "d2h" /\ stream[1].batch = batch
          THEN /\ stream[1].tensor \in Outputs
               /\ cell'[batch].values =
                   [cell[batch].values EXCEPT ![stream[1].tensor] =
                        gpu.outs[stream[1].tensor]]
          ELSE cell'[batch].values = cell[batch].values
      BY <1>15, <3>2, StreamFacts
    <3>4. /\ Landing(Left(p))'
          /\ cell'[batch].values = [o \in Outputs |-> cell'[batch].values[o]]
      BY <2>1, <3>1, <3>2, <3>3, LandingPopped
    <3>5. Left(p) \in 0 .. Len(stream') /\ Computed(Left(p))'
      BY <2>4, <3>1
    <3> QED  BY <3>4, <3>5
  <2>6. pc = "d2h" => \E p \in 0 .. Len(stream') : Computed(p)'
    BY <1>1, <2>4
  <2> QED  BY <2>1, <2>2, <2>3, <2>5, <2>6 DEF RunInv, Landing
<1>16. CASE UNCHANGED vars
  BY <1>3, <1>16 DEF vars, sessionVars
<1> QED  BY <1>5, <1>6, <1>7, <1>8, <1>9, <1>11, <1>12, <1>13, <1>14, <1>15, <1>16
         DEF Next

\* What is said of a request depends on the model and the request only.
LEMMA RequestFrame ==
    ASSUME model' = model, NEW c, NEW r, request'[c] = r
    PROVE  /\ IsValid(request[c])' <=> IsValid(r)
           /\ RowsOf(c)' = r.inputs[1].shape[1]
           /\ MetaOf(model)' = MetaOf(model)
BY DEF IsValid, Inputs, ConfigDims, RowsOf

\* head never goes back.
LEMMA HeadGrows ==
    ASSUME Basics, [Next]_vars
    PROVE  head \in Nat /\ head' \in Nat /\ head <= head'
<1>1. head \in Nat /\ batch \in Nat
  BY DEF Basics, OrderInv
<1>2. CASE StartRun
  <2>1. PICK w \in Int : w = (batch + 1) * BatchSize
    BY <1>1, BatchStarts
  <2>2. head' = IF head < w THEN w ELSE head
    BY <1>2, <2>1 DEF StartRun, SealedHead
  <2> QED  BY <1>1, <2>1, <2>2
<1>3. ASSUME NEW c \in Calls, ModelInfer(c) PROVE head' \in Nat /\ head <= head'
  <2>1. \E req : Refused(c, req) \/ Inserted(c, req)
    BY <1>3, ModelInferFacts
  <2>2. PICK req : Refused(c, req) \/ Inserted(c, req)
    BY <2>1
  <2>3. CASE Refused(c, req)
    BY <1>1, <2>3 DEF Refused
  <2>4. CASE Inserted(c, req)
    <3>1. PICK n \in Nat : n = req.inputs[1].shape[1] /\ head' = head + n
      BY <2>4 DEF Inserted
    <3> QED  BY <1>1, <3>1
  <2> QED  BY <2>2, <2>3, <2>4
<1>4. ASSUME ~StartRun, ~\E c \in Calls : ModelInfer(c) PROVE head' = head
  BY <1>4 DEF Next, LoadModel, GetData, RunHost, QueueH2D, RunBinding, QueueD2H,
          FinishGpuRun, StreamStep, vars
<1> QED  BY <1>1, <1>2, <1>3, <1>4

\* Every step keeps what is known of requests and of their reservations.
LEMMA NextRequests ==
    ASSUME Basics, RequestInv, AnswerInv, [Next]_vars
    PROVE  RequestInv' /\ AnswerInv'
<1>1. call = [c \in Calls |-> call[c]] /\ request = [c \in Calls |-> request[c]]
      /\ resv = [c \in Calls |-> resv[c]] /\ call \in [Calls -> CallStatuses]
  BY DEF Basics, CallInv
<1>2. head \in Nat /\ head' \in Nat /\ head <= head'
  BY HeadGrows
\* The invariants of one call, after the step.
<1> DEFINE Fine(c) ==
        /\ call'[c] # "new" =>
            /\ request'[c] \in Requests(MetaOf(model)')
            /\ call'[c] = "invalid" => ~IsValid(request[c])'
        /\ call'[c] \in {"waiting", "ok"} =>
            /\ IsValid(request[c])'
            /\ RowsOf(c)' \in Nat \ {0}
            /\ \E at \in 0 .. head' : resv'[c] = Chunks(at, RowsOf(c)')
<1>3. ASSUME model' = model, NEW c \in Calls, request'[c] = request[c],
             resv'[c] = resv[c],
             call'[c] = call[c] \/ (call[c] = "waiting" /\ call'[c] \in {"ok", "error"})
      PROVE  Fine(c)
  <2> PICK r : r = request[c]
    OBVIOUS
  <2>1. /\ IsValid(request[c])' <=> IsValid(r)
        /\ RowsOf(c)' = RowsOf(c)
        /\ MetaOf(model)' = MetaOf(model)
    <3>1. RowsOf(c) = r.inputs[1].shape[1]
      BY DEF RowsOf
    <3> QED  BY <1>3, <3>1, RequestFrame
  <2>2. /\ call'[c] # "new" => call[c] # "new"
        /\ call'[c] = "invalid" => call[c] = "invalid"
        /\ call'[c] \in {"waiting", "ok"} => call[c] \in {"waiting", "ok"}
    BY <1>3
  <2>3. call[c] # "new" => /\ r \in Requests(MetaOf(model))
                           /\ call[c] = "invalid" => ~IsValid(r)
    BY DEF RequestInv
  <2>4. call[c] \in {"waiting", "ok"} =>
            /\ IsValid(r)
            /\ RowsOf(c) \in Nat \ {0}
            /\ \E at \in 0 .. head : resv[c] = Chunks(at, RowsOf(c))
    BY DEF AnswerInv
  <2>5. \A at \in 0 .. head : at \in 0 .. head'
    BY <1>2
  <2> QED  BY <1>3, <2>1, <2>2, <2>3, <2>4, <2>5
<1>4. ASSUME model' = model, \A c \in Calls : Fine(c) PROVE RequestInv' /\ AnswerInv'
  BY <1>4 DEF RequestInv, AnswerInv
<1>5. ASSUME NEW c \in Calls, ModelInfer(c) PROVE RequestInv' /\ AnswerInv'
  <2>1. PICK req \in Requests(MetaOf(model)) :
            /\ request' = [request EXCEPT ![c] = req]
            /\ Refused(c, req) \/ (IsValid(req) /\ Inserted(c, req))
    BY <1>5, ModelInferFacts
  <2>2. model' = model /\ call[c] = "new"
    BY <1>5, ModelInferFacts
  <2>3. request'[c] = req /\ \A d \in Calls \ {c} : request'[d] = request[d]
    BY <1>1, <2>1
  <2>4. /\ IsValid(request[c])' <=> IsValid(req)
        /\ RowsOf(c)' = req.inputs[1].shape[1]
        /\ MetaOf(model)' = MetaOf(model)
    BY <2>2, <2>3, RequestFrame
  <2>5. \A d \in Calls \ {c} : call'[d] = call[d] /\ resv'[d] = resv[d]
    BY <1>1, <2>1 DEF Refused, Inserted, Received, Overran, Uncopied
  <2>6. Fine(c)
    <3>1. CASE Refused(c, req)
      <4>1. \/ ~IsValid(req) /\ call'[c] = "invalid"
            \/ IsValid(req) /\ call'[c] = "ring_full"
        BY <1>1, <3>1 DEF Refused
      <4> QED  BY <2>3, <2>4, <4>1
    <3>2. CASE IsValid(req) /\ Inserted(c, req)
      <4>1. CASE Received(c, req)
        <5>1. call'[c] = "waiting" /\ resv'[c] = Chunks(head, req.inputs[1].shape[1])
          BY <1>1, <4>1 DEF Received
        <5>2. req.inputs[1].shape[1] \in Nat \ {0} /\ head \in 0 .. head'
          BY <1>2, <3>2 DEF Inserted
        <5> QED  BY <2>3, <2>4, <3>2, <5>1, <5>2
      <4>2. CASE Overran(c, req)
        <5>1. call'[c] = "new"
          BY <2>2, <4>2 DEF Overran
        <5> QED  BY <5>1
      <4>3. CASE Uncopied(c)
        <5>1. call'[c] = "error"
          BY <1>1, <4>3 DEF Uncopied
        <5> QED  BY <2>3, <2>4, <5>1
      <4> QED  BY <3>2, <4>1, <4>2, <4>3 DEF Inserted
    <3> QED  BY <2>1, <3>1, <3>2
  <2>7. ASSUME NEW d \in Calls \ {c} PROVE Fine(d)
    BY <1>3, <2>2, <2>3, <2>5
  <2> QED  BY <1>4, <2>2, <2>6, <2>7
<1>6. ASSUME NEW c \in Calls, GetData(c) PROVE RequestInv' /\ AnswerInv'
  <2>1. UNCHANGED <<model, request, resv>> /\ call[c] = "waiting"
        /\ \E status \in {"ok", "error"} : call' = [call EXCEPT ![c] = status]
    BY <1>6, AnswerFrame
  <2>2. \A d \in Calls : \/ call'[d] = call[d]
                         \/ call[d] = "waiting" /\ call'[d] \in {"ok", "error"}
    BY <1>1, <2>1
  <2>3. ASSUME NEW d \in Calls PROVE Fine(d)
    BY <1>3, <2>1, <2>2
  <2> QED  BY <1>4, <2>1, <2>3
<1>7. CASE UNCHANGED <<model, call, request, resv>>
  <2>1. ASSUME NEW d \in Calls PROVE Fine(d)
    BY <1>3, <1>7
  <2> QED  BY <1>4, <1>7, <2>1
<1>8. LoadModel => UNCHANGED <<model, call, request, resv>>
  BY LoadFacts DEF Basics
<1>9. UNCHANGED vars => UNCHANGED <<model, call, request, resv>>
  BY DEF vars, requestVars
<1> QED  BY <1>5, <1>6, <1>7, <1>8, <1>9, SessionFrame DEF Next

\* The inductive invariant.
InferInv == Basics /\ CellInv /\ StreamInv /\ RunInv /\ RequestInv /\ AnswerInv

\* The invariant is inductive: it holds in every reachable state.
LEMMA InferInvariant == Spec => []InferInv
<1>1. Init => InferInv
  BY InitInvariants DEF InferInv
<1>2. InferInv /\ [Next]_vars => InferInv'
  BY NextBasics, NextCells, NextStream, NextRun, NextRequests DEF InferInv
<1> QED  BY <1>1, <1>2, PTL DEF Spec

(***************************************************************************)
(* Every variable of the inference path has its type, and the tensors of   *)
(* every batch keep the length that load_model gave them.                  *)
(***************************************************************************)
THEOREM InferTypeCorrect == Spec => []TypeOK
<1>1. ASSUME InferInv PROVE TypeOK
  <2>1. phase \in Phases /\ call \in [Calls -> CallStatuses]
    BY <1>1 DEF InferInv, Basics, LoadInv, CallInv
  <2>2. /\ head \in 0 .. Capacity /\ batch \in 0 .. MaxBatches
        /\ written \in [BatchIds -> 0 .. BatchSize] /\ pc \in SessionSteps
    BY <1>1 DEF InferInv, Basics, OrderInv
  <2>3. ASSUME NEW c \in Calls, NEW k \in DOMAIN resv[c] PROVE resv[c][k] \in Reservation
    <3>1. PICK r \in Seq(Reservation) : r = resv[c]
      BY <1>1 DEF InferInv, Basics, CallInv
    <3> QED  BY <2>3, <3>1
  <2>4. \A k \in DOMAIN stream : stream[k] \in StreamOps
    BY <1>1 DEF InferInv, StreamInv
  <2>5. \A b \in BatchIds : cell[b].status \in {"none", "ok", "err"}
    BY <1>1, <2>2, BatchNumbers DEF InferInv, CellInv
  <2>6. ASSUME Serving, NEW b \in BatchIds, NEW i \in Inputs
        PROVE  Len(buffer[b][i]) = BatchSize * Width(i)
    <3>1. OfLength(buffer[b][i], BatchSize * Width(i)) /\ Loaded
      BY <1>1, <2>6 DEF InferInv, Basics, BufferInv, Serving, Loaded
    <3>2. BatchSize * Width(i) \in Nat
      BY <1>1, <3>1, Widths DEF InferInv, Basics
    <3> QED  BY <3>1, <3>2, TensorLength
  <2> QED  BY <2>1, <2>2, <2>3, <2>4, <2>5, <2>6 DEF TypeOK
<1> QED  BY <1>1, InferInvariant, PTL

(***************************************************************************)
(* An output that waiting calls can read is what the graph computes from   *)
(* the slots of its batch, on the host and on the device, whatever failed  *)
(* runs left queued on the stream, and it does not change any more.        *)
(***************************************************************************)
THEOREM PublishedAreFinal == Spec => []PublishedOutputsAreFinal
<1>1. InferInv => PublishedOutputsAreFinal
  BY DEF InferInv, CellInv
<1> QED  BY <1>1, InferInvariant, PTL

-------------------------------------------------------------------------------
(***************************************************************************)
(* Overrides that complete the graph.                                      *)
(***************************************************************************)
LEMMA CompletedShapes ==
    ASSUME NEW name, NEW shape \in Seq(Int), NEW overrides,
           \A n \in DOMAIN overrides : overrides[n] \in Seq(Int),
           Completes(name, shape, overrides)
    PROVE  LET full == ReplacedShape(name, shape, overrides) IN
           /\ EffectiveShape(name, shape, overrides) = full
           /\ MergedShape(name, shape, overrides) = full
           /\ IsBatchable(full)
           /\ IsStatic(Batched(full, BatchSize))
           /\ Batched(full, BatchSize) = <<BatchSize>> \o Tail(full)
           /\ \A d \in DOMAIN shape : shape[d] # -1 =>
                Batched(full, BatchSize)[d] = shape[d]
<1> DEFINE full == ReplacedShape(name, shape, overrides)
<1>1. full = IF name \in DOMAIN overrides THEN overrides[name] ELSE shape
  BY DEF ReplacedShape
<1>2. /\ Len(full) = Len(shape) /\ full # <<>> /\ full[1] = -1 /\ IsStatic(Tail(full))
      /\ \A d \in DOMAIN shape : shape[d] \in {-1, full[d]}
  BY DEF Completes, ReplacedShape
<1>3. full \in Seq(Int)
  BY <1>1
<1>4. PICK n \in Nat \ {0} : /\ n = Len(full) /\ n = Len(shape)
                             /\ DOMAIN full = 1 .. n /\ DOMAIN shape = 1 .. n
  BY <1>2, <1>3
<1>5. /\ EffectiveShape(name, shape, overrides) =
            [i \in 1 .. n |->
                IF i > 1 /\ name \in DOMAIN overrides /\ i <= Len(overrides[name])
                THEN overrides[name][i] ELSE shape[i]]
      /\ MergedShape(name, shape, overrides) =
            [i \in 1 .. n |->
                IF name \in DOMAIN overrides /\ i <= Len(overrides[name])
                THEN overrides[name][i] ELSE shape[i]]
  BY <1>4, Zenon DEF EffectiveShape, MergedShape
<1> HIDE DEF full
<1>6. full = [i \in 1 .. n |-> full[i]]
  BY <1>3, <1>4
<1>7. shape[1] = -1
  BY <1>2, <1>4
<1>8. EffectiveShape(name, shape, overrides) = full
  <2>1. ASSUME NEW i \in 1 .. n
        PROVE  (IF i > 1 /\ name \in DOMAIN overrides /\ i <= Len(overrides[name])
                THEN overrides[name][i] ELSE shape[i]) = full[i]
    BY <1>1, <1>2, <1>4, <1>7
  <2> QED  BY <1>5, <1>6, <2>1
<1>9. MergedShape(name, shape, overrides) = full
  <2>1. ASSUME NEW i \in 1 .. n
        PROVE  (IF name \in DOMAIN overrides /\ i <= Len(overrides[name])
                THEN overrides[name][i] ELSE shape[i]) = full[i]
    BY <1>1, <1>4
  <2> QED  BY <1>5, <1>6, <2>1
<1>10. IsBatchable(full)
  BY <1>2 DEF IsBatchable
<1>11. BatchSize \in Nat \ {0}
  BY InferBounds
<1>12. /\ Tail(full) \in Seq(Int) /\ Len(Tail(full)) = n - 1
       /\ DOMAIN Tail(full) = 1 .. n - 1
       /\ \A i \in 1 .. n - 1 : Tail(full)[i] = full[i + 1] /\ full[i + 1] >= 0
  <2>1. /\ Tail(full) \in Seq(Int) /\ Len(Tail(full)) = n - 1
        /\ \A i \in 1 .. n - 1 : Tail(full)[i] = full[i + 1]
    BY <1>2, <1>3, <1>4, HeadTailProperties
  <2>2. DOMAIN Tail(full) = 1 .. n - 1
    BY <2>1
  <2> QED  BY <1>2, <2>1, <2>2 DEF IsStatic
<1> DEFINE host == Batched(full, BatchSize)
<1>13. /\ host \in Seq(Int) /\ DOMAIN host = 1 .. n /\ Len(host) = n /\ host[1] = BatchSize
       /\ \A d \in 2 .. n : host[d] = full[d]
  <2>1. host = [full EXCEPT ![1] = BatchSize]
    BY DEF Batched
  <2>2. /\ DOMAIN host = 1 .. n /\ host[1] = BatchSize
        /\ \A d \in 2 .. n : host[d] = full[d]
    BY <1>3, <1>4, <2>1
  <2>3. host \in [1 .. n -> Int]
    <3>1. full \in [1 .. n -> Int]
      BY <1>3, <1>4
    <3> QED  BY <1>11, <2>1, <3>1
  <2>4. host \in Seq(Int) /\ Len(host) = n
    <3> HIDE DEF host
    <3> QED  BY <1>4, <2>3
  <2> QED  BY <2>2, <2>4
<1> HIDE DEF host
<1>14. IsStatic(host)
  <2>1. ASSUME NEW d \in 2 .. n PROVE full[d] >= 0
    <3>1. d - 1 \in 1 .. n - 1 /\ (d - 1) + 1 = d
      OBVIOUS
    <3> QED  BY <1>12, <3>1
  <2>2. ASSUME NEW d \in 1 .. n PROVE host[d] >= 0
    BY <1>11, <1>13, <2>1
  <2> QED  BY <1>13, <2>2 DEF IsStatic
<1>15. host = <<BatchSize>> \o Tail(full)
  <2>1. PICK tail \in Seq(Int) : tail = Tail(full)
    BY <1>12
  <2> DEFINE batched == <<BatchSize>> \o tail
  <2>2. batched \in Seq(Int) /\ Len(batched) = n /\ batched[1] = BatchSize
        /\ \A d \in 2 .. n : batched[d] = tail[d - 1]
    BY <1>11, <1>12, <2>1
  <2> HIDE DEF batched
  <2>3. ASSUME NEW d \in 1 .. n PROVE host[d] = batched[d]
    <3>1. CASE d = 1
      BY <1>13, <2>2, <3>1
    <3>2. CASE d # 1
      <4>1. d \in 2 .. n /\ d - 1 \in 1 .. n - 1 /\ (d - 1) + 1 = d
        BY <3>2
      <4> QED  BY <1>12, <1>13, <2>1, <2>2, <4>1
    <3> QED  BY <3>1, <3>2
  <2>4. host = batched
    BY <1>13, <2>2, <2>3, SeqEqual
  <2> QED  BY <2>1, <2>4 DEF batched
<1>16. ASSUME NEW d \in DOMAIN shape, shape[d] # -1 PROVE host[d] = shape[d]
  <2>1. d \in 2 .. n
    BY <1>4, <1>7, <1>16
  <2> QED  BY <1>2, <1>13, <1>16, <2>1
<1> QED  BY <1>8, <1>9, <1>10, <1>14, <1>15, <1>16 DEF full, host

\* The overrides are as the documentation of the config wants them.
Documented ==
    /\ \A i \in Inputs : Completes(model.inputs[i].name, model.inputs[i].shape,
                                   model.inShapes)
    /\ \A o \in Outputs :
        LET t == model.outputs[o] IN
        /\ Completes(t.name, t.shape, model.outShapes)
        /\ Tail(MergedShape(t.name, t.shape, model.outShapes)) = t.row

\* A model with documented overrides passes every check of load_model.
LEMMA DocumentedModelsLoad ==
    ASSUME model \in Models, Documented
    PROVE  ShapesAccepted /\ GpuTensorsAllocated /\ WarmupSucceeds
<1>1. /\ \A name \in DOMAIN model.inShapes : model.inShapes[name] \in Seq(Int)
      /\ \A name \in DOMAIN model.outShapes : model.outShapes[name] \in Seq(Int)
  BY ModelsAssumption
<1>2. ASSUME NEW i \in Inputs
      PROVE  LET t == model.inputs[i]
                 full == ConfigDims(i)
             IN  /\ EffectiveShape(t.name, t.shape, model.inShapes) = full
                 /\ IsBatchable(full) /\ full # <<>>
                 /\ IsStatic(Batched(full, BatchSize))
                 /\ \A d \in DOMAIN t.shape : t.shape[d] # -1 =>
                        Batched(full, BatchSize)[d] = t.shape[d]
  <2>1. model.inputs[i].shape \in Seq(Int)
        /\ Completes(model.inputs[i].name, model.inputs[i].shape, model.inShapes)
    BY ModelTypes DEF Documented
  <2>2. IsBatchable(ConfigDims(i)) => ConfigDims(i) # <<>>
    BY DEF IsBatchable
  <2> DEFINE t == model.inputs[i]
             full == ReplacedShape(t.name, t.shape, model.inShapes)
  <2>3. /\ EffectiveShape(t.name, t.shape, model.inShapes) = full
        /\ IsBatchable(full)
        /\ IsStatic(Batched(full, BatchSize))
        /\ \A d \in DOMAIN t.shape : t.shape[d] # -1 =>
                Batched(full, BatchSize)[d] = t.shape[d]
    <3>1. PICK shape, name, overrides :
            /\ shape \in Seq(Int)
            /\ shape = t.shape /\ name = t.name /\ overrides = model.inShapes
      BY <2>1
    <3>2. Completes(name, shape, overrides)
          /\ \A n \in DOMAIN overrides : overrides[n] \in Seq(Int)
      BY <1>1, <2>1, <3>1
    <3>3. LET f == ReplacedShape(name, shape, overrides) IN
          /\ EffectiveShape(name, shape, overrides) = f
          /\ IsBatchable(f)
          /\ IsStatic(Batched(f, BatchSize))
          /\ \A d \in DOMAIN shape : shape[d] # -1 =>
                Batched(f, BatchSize)[d] = shape[d]
      <4>1. shape \in Seq(Int)
        BY <3>1
      <4> QED  BY <3>2, <4>1, CompletedShapes, Zenon
    <3> QED  BY <3>1, <3>3, Zenon
  <2>4. ConfigDims(i) = full
    BY DEF ConfigDims
  <2> HIDE DEF full
  <2> QED  BY <2>2, <2>3, <2>4
<1>3. ASSUME NEW o \in Outputs
      PROVE  /\ IsStatic(GpuOutputShape(o))
             /\ GpuOutputShape(o) = <<BatchSize>> \o model.outputs[o].row
  <2> DEFINE t == model.outputs[o]
             full == ReplacedShape(t.name, t.shape, model.outShapes)
  <2>1. /\ t.shape \in Seq(Int)
        /\ Completes(t.name, t.shape, model.outShapes)
        /\ Tail(MergedShape(t.name, t.shape, model.outShapes)) = t.row
    BY ModelTypes DEF Documented
  <2>2. /\ MergedShape(t.name, t.shape, model.outShapes) = full
        /\ IsStatic(Batched(full, BatchSize))
        /\ Batched(full, BatchSize) = <<BatchSize>> \o Tail(full)
    BY <1>1, <2>1, CompletedShapes, ZenonT(60)
  <2>3. OutputMeta[o].shape = MergedShape(t.name, t.shape, model.outShapes)
    BY DEF OutputMeta, Published
  <2> HIDE DEF full, t
  <2>4. GpuOutputShape(o) = Batched(full, BatchSize)
    BY <2>2, <2>3 DEF GpuOutputShape
  <2> QED  BY <2>1, <2>2, <2>4 DEF t
<1>4. ShapesAccepted
  BY <1>2 DEF ShapesAccepted
<1>5. ASSUME NEW i \in Inputs
      PROVE  /\ IsStatic(GpuInputShape(i))
             /\ LET t == model.inputs[i]
                    host == Batched(EffectiveShape(t.name, t.shape, model.inShapes),
                                    BatchSize)
                IN  /\ GpuInputShape(i) = host
                    /\ \A d \in {e \in DOMAIN t.shape : t.shape[e] # -1} :
                            host[d] = t.shape[d]
  BY <1>2 DEF GpuInputShape
<1>6. GpuTensorsAllocated
  BY <1>3, <1>5 DEF GpuTensorsAllocated
<1>7. WarmupSucceeds
  BY <1>3, <1>5 DEF WarmupSucceeds
<1> QED  BY <1>4, <1>6, <1>7

(***************************************************************************)
(* "Per-input shape override, using -1 for the batch dimension": a model   *)
(* whose overrides complete its graph is loaded, whatever its shapes.      *)
(***************************************************************************)
THEOREM DocumentedLoad == Spec => []DocumentedOverridesLoad
<1>1. DocumentedOverridesLoad = (Documented => phase # "load_panic")
  BY Zenon DEF DocumentedOverridesLoad, Documented
<1>2. Init => DocumentedOverridesLoad
  BY <1>1 DEF Init
<1>3. ASSUME InferInv, DocumentedOverridesLoad, [Next]_vars
      PROVE  DocumentedOverridesLoad'
  <2>1. model' = model /\ model \in Models
    BY <1>3 DEF InferInv, Basics, LoadInv, Next, LoadModel, ModelInfer, GetData,
            StartRun, RunHost, QueueH2D, RunBinding, QueueD2H, FinishGpuRun,
            StreamStep, vars
  <2>2. Documented' = Documented
    BY <2>1 DEF Documented, Inputs, Outputs
  <2>3. ASSUME Documented PROVE phase' # "load_panic"
    <3>1. phase # "load_panic"
      BY <1>1, <1>3, <2>3
    <3>2. CASE LoadModel
      <4>1. ShapesAccepted /\ GpuTensorsAllocated /\ WarmupSucceeds
        BY <2>1, <2>3, DocumentedModelsLoad
      <4> QED  BY <3>2, <4>1 DEF LoadModel
    <3>3. ASSUME NEW c \in Calls, ModelInfer(c) PROVE phase' # "load_panic"
      <4>1. PICK req : Refused(c, req) \/ Inserted(c, req)
        BY <1>3, <3>3, ModelInferFacts DEF InferInv
      <4>2. phase' = phase \/ phase' = "copy_panic"
        BY <4>1, Zenon DEF Refused, Inserted, Received, Overran, Uncopied
      <4> QED  BY <3>1, <4>2
    <3>4. ASSUME phase' = phase PROVE phase' # "load_panic"
      BY <3>1, <3>4
    <3>5. LoadModel \/ (\E c \in Calls : ModelInfer(c)) \/ phase' = phase
      BY <1>3, SessionFrame DEF Next, GetData, vars
    <3> QED  BY <3>2, <3>3, <3>4, <3>5
  <2>4. DocumentedOverridesLoad' = (Documented' => phase' # "load_panic")
    BY Zenon DEF DocumentedOverridesLoad, Documented
  <2> QED  BY <2>2, <2>3, <2>4
<1> QED  BY <1>2, <1>3, InferInvariant, PTL DEF Spec

-------------------------------------------------------------------------------
(***************************************************************************)
(* Calls built from the metadata.                                          *)
(***************************************************************************)

\* Type names are different, so each is read back as the type it stands for.
LEMMA NamesReadBack ==
    ASSUME NEW type \in TensorElementType
    PROVE  FromStr(MetadataString[DataTypeOf(type)]) = DataTypeOf(type)
<1>1. DataType = {"TypeInvalid", "TypeBool", "TypeUint8", "TypeUint16", "TypeUint32",
                  "TypeUint64", "TypeInt8", "TypeInt16", "TypeInt32", "TypeInt64",
                  "TypeFp16", "TypeFp32", "TypeFp64", "TypeString", "TypeBf16"}
  BY DEF DataType, MetadataString
<1>2. \A d, e \in DataType : MetadataString[d] = MetadataString[e] => d = e
  BY <1>1 DEF MetadataString
<1>3. DataTypeOf(type) \in DataType
  BY <1>1 DEF DataTypeOf, Named
<1> QED  BY <1>2, <1>3 DEF FromStr

\* Does the client's tensor t follow the metadata of input i?
Follows(t, i) ==
    /\ t.name = InputMeta[i].name /\ t.datatype = InputMeta[i].datatype
    /\ Len(t.shape) = Len(InputMeta[i].shape) /\ t.shape[1] > 0
    /\ Tail(t.shape) = Tail(InputMeta[i].shape)

\* A request built from the metadata is valid and its types are the model's.
LEMMA FollowedMetadata ==
    ASSUME LoadInv, Loaded, NEW c, NEW req \in Requests(MetaOf(model)),
           Len(req.inputs) = Len(InputMeta),
           \A i \in Inputs : \E k \in DOMAIN req.inputs : Follows(req.inputs[k], i)
    PROVE  /\ IsValid(req)
           /\ \A i \in Inputs : TensorBytes(c, req)[i].datatype
                                    = DataTypeOf(model.inputs[i].type)
<1>1. /\ \A i \in Inputs :
            /\ InputMeta[i].name = model.inputs[i].name
            /\ InputMeta[i].datatype = MetadataString[DataTypeOf(model.inputs[i].type)]
            /\ InputMeta[i].shape = ConfigDims(i)
      /\ Len(InputMeta) = Len(model.inputs)
  <2>1. PICK n \in Nat : n = Len(model.inputs) /\ Inputs = 1 .. n
    BY ModelTypes DEF LoadInv
  <2>2. /\ OfLength(InputMeta, n)
        /\ \A i \in Inputs :
            /\ InputMeta[i].name = model.inputs[i].name
            /\ InputMeta[i].datatype = MetadataString[DataTypeOf(model.inputs[i].type)]
            /\ InputMeta[i].shape = ConfigDims(i)
    BY <2>1 DEF InputMeta, MetaOf, Published, ConfigDims, Inputs, OfLength
  <2>3. Len(InputMeta) = n
    BY <2>1, <2>2, TensorLength
  <2> QED  BY <2>1, <2>2, <2>3
<1>2. model \in Models
  BY DEF LoadInv
<1>3. \A i \in Inputs : \E k \in DOMAIN req.inputs :
            req.inputs[k].name = model.inputs[i].name
  BY <1>1 DEF Follows
<1>4. \A k \in DOMAIN req.inputs : \E i \in Inputs : SentFor(c, req, i, k)
  BY <1>1, <1>2, <1>3, EachInputSent
\* Only one tensor is sent for an input, so it is the one that follows it.
<1>5. ASSUME NEW i \in Inputs, NEW k \in DOMAIN req.inputs, SentFor(c, req, i, k)
      PROVE  \E j \in DOMAIN req.inputs :
                /\ Follows(req.inputs[j], i)
                /\ req.inputs[j].shape = req.inputs[k].shape
                /\ TensorBytes(c, req)[i].datatype = FromStr(req.inputs[j].datatype)
  <2>1. PICK j \in DOMAIN req.inputs : Follows(req.inputs[j], i)
    OBVIOUS
  <2>2. PICK l \in Inputs : SentFor(c, req, l, j)
    BY <1>4
  <2>3. l = i
    <3>1. req.inputs[j].name = model.inputs[i].name
      BY <1>1, <2>1 DEF Follows
    <3>2. req.inputs[j].name = model.inputs[l].name
      BY <2>2 DEF SentFor
    <3> QED  BY <1>2, <3>1, <3>2, ModelTypes
  <2>4. /\ TensorBytes(c, req)[i].shape = req.inputs[k].shape
        /\ TensorBytes(c, req)[i].shape = req.inputs[j].shape
        /\ TensorBytes(c, req)[i].datatype = FromStr(req.inputs[j].datatype)
    BY <1>5, <2>2, <2>3 DEF SentFor
  <2> QED  BY <2>1, <2>4
<1>6. ASSUME NEW i \in Inputs, NEW k \in DOMAIN req.inputs, SentFor(c, req, i, k)
      PROVE  Matches(req.inputs[k], model.inputs[i].name, ConfigDims(i))
  <2>1. PICK j \in DOMAIN req.inputs : /\ Follows(req.inputs[j], i)
                                       /\ req.inputs[j].shape = req.inputs[k].shape
    BY <1>5, <1>6
  <2>2. PICK shape \in Seq(Int), dims \in Seq(Int) :
            shape = req.inputs[k].shape /\ dims = ConfigDims(i)
    BY <1>2, <1>6, ModelTypes DEF SentFor
  <2>3. Len(shape) = Len(dims) /\ shape[1] > 0 /\ Tail(shape) = Tail(dims)
    BY <1>1, <2>1, <2>2 DEF Follows
  <2>4. dims # <<>>
    BY <2>2 DEF LoadInv, ShapesAccepted
  <2>5. ASSUME NEW d \in 2 .. Len(dims) PROVE shape[d] = dims[d]
    <3>1. PICK n \in Nat \ {0} : n = Len(dims) /\ n = Len(shape)
      BY <2>3, <2>4
    <3>2. /\ \A m \in 1 .. n - 1 : Tail(dims)[m] = dims[m + 1]
          /\ \A m \in 1 .. n - 1 : Tail(shape)[m] = shape[m + 1]
      <4>1. dims # <<>> /\ shape # <<>>
        BY <3>1
      <4>2. /\ Len(Tail(dims)) = n - 1
            /\ \A m \in 1 .. Len(Tail(dims)) : Tail(dims)[m] = dims[m + 1]
            /\ Len(Tail(shape)) = n - 1
            /\ \A m \in 1 .. Len(Tail(shape)) : Tail(shape)[m] = shape[m + 1]
        BY <3>1, <4>1, HeadTailProperties
      <4> QED  BY <4>2
    <3>3. d - 1 \in 1 .. n - 1 /\ (d - 1) + 1 = d
      BY <3>1
    <3> QED  BY <2>3, <3>2, <3>3
  <2>6. req.inputs[k].name = model.inputs[i].name
    BY <1>6 DEF SentFor
  <2> QED  BY <2>2, <2>3, <2>5, <2>6 DEF Matches
<1>7. IsValid(req)
  BY <1>4, <1>6 DEF IsValid
<1>8. ASSUME NEW i \in Inputs
      PROVE  TensorBytes(c, req)[i].datatype = DataTypeOf(model.inputs[i].type)
  <2>1. PICK k \in DOMAIN req.inputs : SentFor(c, req, i, k)
    BY <1>1, <1>2, <1>3, EachInputSent
  <2>2. PICK j \in DOMAIN req.inputs :
            /\ Follows(req.inputs[j], i)
            /\ TensorBytes(c, req)[i].datatype = FromStr(req.inputs[j].datatype)
    BY <1>5, <2>1
  <2>3. req.inputs[j].datatype = MetadataString[DataTypeOf(model.inputs[i].type)]
    BY <1>1, <2>2 DEF Follows
  <2>4. model.inputs[i].type \in TensorElementType
    BY <1>2, ModelTypes
  <2> QED  BY <2>2, <2>3, <2>4, NamesReadBack
<1> QED  BY <1>7, <1>8

(***************************************************************************)
(* A call built from the answer of model_metadata is valid, and its types  *)
(* are the model's: no override makes the two disagree.                    *)
(***************************************************************************)
THEOREM MetadataAccepted == Spec => []MetadataIsAccepted
<1>1. ASSUME InferInv, NEW c \in Calls, call[c] # "new", FollowsMetadata(request[c])
      PROVE  /\ call[c] # "invalid"
             /\ \A i \in Inputs : TensorBytes(c, request[c])[i].datatype
                                     = DataTypeOf(model.inputs[i].type)
  <2>1. PICK req : req = request[c]
    OBVIOUS
  <2>2. req \in Requests(MetaOf(model)) /\ (call[c] = "invalid" => ~IsValid(req))
    BY <1>1, <2>1 DEF InferInv, RequestInv
  <2>3. LoadInv /\ Loaded
    BY <1>1 DEF InferInv, Basics, LoadInv
  <2>4. /\ Len(req.inputs) = Len(InputMeta)
        /\ \A i \in Inputs : \E k \in DOMAIN req.inputs : Follows(req.inputs[k], i)
    BY <1>1, <2>1, Zenon DEF FollowsMetadata, Follows
  <2>5. /\ IsValid(req)
        /\ \A i \in Inputs : TensorBytes(c, req)[i].datatype
                                = DataTypeOf(model.inputs[i].type)
    BY <2>2, <2>3, <2>4, FollowedMetadata
  <2> QED  BY <2>1, <2>2, <2>5
<1>2. InferInv => MetadataIsAccepted
  BY <1>1 DEF MetadataIsAccepted
<1> QED  BY <1>2, InferInvariant, PTL

(***************************************************************************)
(* Rows of tensors.                                                        *)
(***************************************************************************)
LEMMA RowStarts ==
    ASSUME NEW w \in Nat, NEW a \in Nat, NEW b \in Nat
    PROVE  /\ a * w \in Nat /\ b * w \in Nat
           /\ (a + 1) * w = a * w + w
           /\ (a + b) * w = a * w + b * w
           /\ a <= b => a * w <= b * w
           /\ a < b => a * w + w <= b * w
<1>1. a * w \in Nat /\ b * w \in Nat
  BY SMT
<1>2. (a + 1) * w = a * w + w /\ (a + b) * w = a * w + b * w
  BY SMT
<1>3. ASSUME a < b PROVE a * w + w <= b * w
  <2>1. PICK d \in Nat : b = (a + 1) + d
    <3>1. b - (a + 1) \in Nat /\ b = (a + 1) + (b - (a + 1))
      BY <1>3
    <3> QED  BY <3>1
  <2>2. b * w = (a + 1) * w + d * w /\ d * w \in Nat
    BY <2>1, SMT
  <2> QED  BY <1>1, <1>2, <2>2
<1>4. a <= b => a * w <= b * w
  BY <1>1, <1>3
<1> QED  BY <1>1, <1>2, <1>3, <1>4

\* Quotient and remainder are the only ones.
LEMMA QuotientUnique ==
    ASSUME NEW n \in Nat \ {0}, NEW q \in Nat, NEW r \in Nat, r < n
    PROVE  (q * n + r) \div n = q /\ (q * n + r) % n = r
<1>1. PICK i \in Nat : i = q * n + r
  BY SMT
<1>2. i % n = r
  BY <1>1, RemainderUnique
<1>3. PICK p \in Int : i = n * p + r /\ p = i \div n
  BY <1>1, <1>2, SMT
<1>4. n * p = n * q
  BY <1>1, <1>3, SMT
<1>5. p = q
  BY <1>4, SMT
<1> QED  BY <1>1, <1>2, <1>3, <1>5

\* A subsequence, element by element.
LEMMA Window ==
    ASSUME NEW s, NEW a \in Int, NEW l \in Nat
    PROVE  SubSeq(s, a + 1, a + l) = [j \in 1 .. l |-> s[a + j]]
<1> DEFINE w == SubSeq(s, a + 1, a + l)
<1>1. \A j \in a + 1 .. a + l : s[j] \in {s[e] : e \in a + 1 .. a + l}
  OBVIOUS
<1>2. PICK m \in Int, n \in Int : m = a + 1 /\ n = a + l
  OBVIOUS
<1>3. /\ SubSeq(s, m, n) \in Seq({s[e] : e \in m .. n})
      /\ Len(SubSeq(s, m, n)) = IF m <= n THEN n - m + 1 ELSE 0
      /\ \A j \in 1 .. n - m + 1 : SubSeq(s, m, n)[j] = s[m + j - 1]
  BY SubSeqProperties
<1>4. w = SubSeq(s, m, n)
  BY <1>2
<1> HIDE DEF w
<1>5. Len(w) = l /\ w \in Seq({s[e] : e \in m .. n})
  BY <1>2, <1>3, <1>4
<1>6. \A j \in 1 .. l : w[j] = s[a + j]
  <2> TAKE j \in 1 .. l
  <2>1. j \in 1 .. n - m + 1 /\ m + j - 1 = a + j
    BY <1>2
  <2> QED  BY <1>3, <1>4, <2>1
<1>7. w = [j \in 1 .. l |-> w[j]]
  BY <1>5
<1>8. w = [j \in 1 .. l |-> s[a + j]]
  BY <1>6, <1>7
<1> QED  BY <1>8 DEF w

\* Row s of a tensor of rows of w elements, opaque to the provers.
RowIs(t, w, s) ==
    SliceOf(t, s * w, (s + 1) * w) = [j \in 1 .. w |-> t[s * w + j]]

\* Every row of a tensor, element by element.
LEMMA RowOf ==
    ASSUME NEW t, NEW w \in Nat, NEW s \in Nat
    PROVE  RowIs(t, w, s)
<1>1. PICK a \in Nat : a = s * w /\ (s + 1) * w = a + w
  BY RowStarts
<1>2. SubSeq(t, a + 1, a + w) = [j \in 1 .. w |-> t[a + j]]
  BY Window
<1>3. SliceOf(t, s * w, (s + 1) * w) = SubSeq(t, a + 1, a + w)
  BY <1>1, Zenon DEF SliceOf
<1> QED  BY <1>1, <1>2, <1>3, Zenon DEF RowIs

\* Does a copy of a slice into the rows start .. end - 1 of a tensor stay in it
\* and leave the slice there?  Opaque to the provers.
CopyLands(t, slice, w, start, end) ==
    LET after == CopiedAt(t, w, start, slice) IN
    /\ FitsAt(t, w, start, slice)
    /\ \A s \in start .. end - 1 :
        SliceOf(after, s * w, (s + 1) * w)
            = [j \in 1 .. w |-> slice[(s - start) * w + j]]

\* What a copy of the rows `start .. end - 1` leaves in a tensor.
LEMMA CopiedRows ==
    ASSUME NEW t, NEW slice, NEW w \in Nat, NEW n \in Nat,
           NEW start \in Nat, NEW end \in Nat, start <= end, end <= n,
           OfLength(t, n * w), OfLength(slice, (end - start) * w)
    PROVE  CopyLands(t, slice, w, start, end)
<1> DEFINE after == CopiedAt(t, w, start, slice)
<1>1. PICK size \in Nat : size = n * w
  BY RowStarts
<1>2. PICK d \in Nat : d = end - start /\ end = start + d
  OBVIOUS
<1>3. PICK l \in Nat, base \in Nat : l = d * w /\ base = start * w /\ end * w = base + l
  BY <1>2, RowStarts
<1>4. base + l <= size
  <2>1. end * w <= n * w
    BY RowStarts
  <2> QED  BY <1>1, <1>3, <2>1
<1>5. DOMAIN t = 1 .. size /\ Len(t) = size /\ DOMAIN slice = 1 .. l /\ Len(slice) = l
  BY <1>1, <1>2, <1>3, TensorLength
<1>6. FitsAt(t, w, start, slice)
  BY <1>3, <1>4, <1>5 DEF FitsAt
<1>7. after = [e \in 1 .. size |-> IF e - base \in 1 .. l THEN slice[e - base] ELSE t[e]]
  BY <1>3, <1>5, Zenon DEF CopiedAt
<1> HIDE DEF after
<1>8. ASSUME NEW s \in start .. end - 1
      PROVE  SliceOf(after, s * w, (s + 1) * w)
                = [j \in 1 .. w |-> slice[(s - start) * w + j]]
  <2>1. s \in Nat
    OBVIOUS
  <2>2. PICK q \in Nat : q = s - start /\ s = start + q /\ q < d
    BY <1>2
  <2>3. PICK x \in Nat : x = q * w /\ s * w = base + x /\ x + w <= l
    BY <1>3, <2>2, RowStarts
  <2>4. ASSUME NEW j \in 1 .. w PROVE after[s * w + j] = slice[q * w + j]
    <3>1. PICK e \in Nat : e = s * w + j /\ e = base + x + j
      BY <2>3
    <3>2. e \in 1 .. size /\ e - base \in 1 .. l /\ e - base = x + j
      BY <1>4, <2>3, <3>1
    <3>3. after[e] = slice[x + j]
      BY <1>7, <3>2
    <3> QED  BY <2>3, <3>1, <3>3
  <2>5. SliceOf(after, s * w, (s + 1) * w) = [j \in 1 .. w |-> after[s * w + j]]
    <3>1. RowIs(after, w, s)
      BY <2>1, RowOf
    <3> QED  BY <3>1, Zenon DEF RowIs
  <2>6. [j \in 1 .. w |-> after[s * w + j]] = [j \in 1 .. w |-> slice[q * w + j]]
    BY <2>4
  <2> QED  BY <2>2, <2>5, <2>6, Zenon
<1> QED  BY <1>6, <1>8, Zenon DEF after, CopyLands

\* A copy does not touch the rows before the ones it is for.
LEMMA RowsBefore ==
    ASSUME NEW t, NEW slice, NEW w \in Nat, NEW n \in Nat, NEW start \in Nat,
           DOMAIN slice \subseteq Nat \ {0},
           OfLength(t, n * w), start <= n, NEW s \in 0 .. start - 1
    PROVE  SliceOf(CopiedAt(t, w, start, slice), s * w, (s + 1) * w)
                = SliceOf(t, s * w, (s + 1) * w)
<1> DEFINE after == CopiedAt(t, w, start, slice)
<1>1. PICK size \in Nat, base \in Nat, x \in Nat :
            size = n * w /\ base = start * w /\ x = s * w /\ x + w <= base /\ base <= size
  BY RowStarts
<1>2. DOMAIN t = 1 .. size
  BY <1>1, TensorLength
<1>3. after = [e \in 1 .. size |-> IF e - base \in DOMAIN slice THEN slice[e - base]
                                   ELSE t[e]]
  BY <1>1, <1>2, Zenon DEF CopiedAt
<1> HIDE DEF after
<1>4. ASSUME NEW j \in 1 .. w PROVE after[x + j] = t[x + j]
  <2>1. x + j \in 1 .. size /\ ~(x + j - base \in Nat \ {0})
    BY <1>1
  <2> QED  BY <1>3, <2>1
<1>5. /\ SliceOf(after, s * w, (s + 1) * w) = [j \in 1 .. w |-> after[s * w + j]]
      /\ SliceOf(t, s * w, (s + 1) * w) = [j \in 1 .. w |-> t[s * w + j]]
  <2>1. s \in Nat
    OBVIOUS
  <2>2. RowIs(after, w, s) /\ RowIs(t, w, s)
    BY <2>1, RowOf
  <2> QED  BY <2>2, Zenon DEF RowIs
<1>6. [j \in 1 .. w |-> after[x + j]] = [j \in 1 .. w |-> t[x + j]]
  BY <1>4
<1>7. /\ [j \in 1 .. w |-> after[x + j]] = [j \in 1 .. w |-> after[s * w + j]]
      /\ [j \in 1 .. w |-> t[x + j]] = [j \in 1 .. w |-> t[s * w + j]]
  BY <1>1, Zenon
<1> QED  BY <1>5, <1>6, <1>7, Zenon DEF after

(***************************************************************************)
(* What a request carries.                                                 *)
(***************************************************************************)

\* d is a tensor of n rows, row q of it row q of input i of the call c.
RowsOfCall(d, c, i, n) ==
    /\ OfLength(d, n * Width(i))
    /\ \A q \in 0 .. n - 1 : \A j \in 1 .. Width(i) :
        d[q * Width(i) + j] = <<c, model.inputs[i].name, q, j - 1>>

\* The shape that was validated has as many elements per row as the buffers.
LEMMA SameWidth ==
    ASSUME LoadInv, Loaded, SameRank, NEW i \in Inputs, NEW shape \in Seq(Int),
           Len(shape) = Len(ConfigDims(i)),
           \A d \in 2 .. Len(ConfigDims(i)) : shape[d] = ConfigDims(i)[d]
    PROVE  shape # <<>> /\ RowElements(shape) = Width(i)
<1> DEFINE t == model.inputs[i]
           eff == EffectiveShape(t.name, t.shape, model.inShapes)
<1>1. PICK dims \in Seq(Int), full \in Seq(Int), graph \in Seq(Int) :
            dims = ConfigDims(i) /\ full = eff /\ graph = t.shape
  BY ModelTypes DEF LoadInv
<1>2. PICK n \in Nat \ {0} : n = Len(dims) /\ n = Len(shape) /\ n = Len(graph)
  <2>1. dims # <<>>
    BY <1>1 DEF LoadInv, ShapesAccepted
  <2>2. Len(dims) \in Nat \ {0}
    BY <2>1
  <2>3. Len(graph) = Len(dims)
    BY <1>1 DEF SameRank
  <2> QED  BY <1>1, <2>2, <2>3
<1>3. dims = IF t.name \in DOMAIN model.inShapes THEN model.inShapes[t.name] ELSE graph
  BY <1>1, Zenon DEF ConfigDims, ReplacedShape
<1>4. full = [d \in 1 .. n |->
                IF d > 1 /\ t.name \in DOMAIN model.inShapes
                   /\ d <= Len(model.inShapes[t.name])
                THEN model.inShapes[t.name][d] ELSE graph[d]]
  <2>1. DOMAIN graph = 1 .. n
    BY <1>2
  <2> QED  BY <1>1, <2>1, Zenon DEF EffectiveShape
<1> HIDE DEF t, eff
<1>5. Len(full) = n
  BY <1>4
<1>6. ASSUME NEW d \in 2 .. n PROVE full[d] = shape[d]
  <2>1. dims[d] = shape[d]
    BY <1>1, <1>2, <1>6
  <2>2. full[d] = IF t.name \in DOMAIN model.inShapes /\ d <= Len(model.inShapes[t.name])
                  THEN model.inShapes[t.name][d] ELSE graph[d]
    BY <1>4, <1>6
  <2>3. full[d] = dims[d]
    <3>1. CASE t.name \in DOMAIN model.inShapes
      <4>1. dims = model.inShapes[t.name]
        BY <1>3, <3>1, Zenon
      <4>2. full[d] = IF d <= Len(dims) THEN dims[d] ELSE graph[d]
        BY <2>2, <3>1, <4>1, Zenon
      <4>3. n = Len(dims) /\ d <= n
        BY <1>2, <1>6
      <4> QED  BY <4>2, <4>3, Zenon
    <3>2. CASE t.name \notin DOMAIN model.inShapes
      <4>1. dims = graph
        BY <1>3, <3>2, Zenon
      <4> QED  BY <2>2, <3>2, <4>1, Zenon
    <3> QED  BY <3>1, <3>2
  <2> QED  BY <2>1, <2>3
<1>7. shape # <<>>
  BY <1>2
<1>8. RowElements(shape) = RowElements(full)
  <2>1. Len(shape) = Len(full) /\ \A d \in 2 .. Len(shape) : shape[d] = full[d]
    BY <1>2, <1>5, <1>6
  <2> QED  BY <1>7, <2>1, SameRows
<1> QED  BY <1>1, <1>7, <1>8 DEF Width, eff, t

\* A valid request sends the rows of its call for every input.
LEMMA SentRows ==
    ASSUME LoadInv, Loaded, SameRank, NEW c, NEW req \in Requests(MetaOf(model)),
           IsValid(req), NEW i \in Inputs, NEW n \in Nat \ {0},
           n = req.inputs[1].shape[1]
    PROVE  LET t == TensorBytes(c, req)[i] IN
           t.shape[1] = n /\ RowsOfCall(t.data, c, i, n)
<1>1. PICK k \in DOMAIN req.inputs :
            /\ SentFor(c, req, i, k)
            /\ Matches(req.inputs[k], model.inputs[i].name, ConfigDims(i))
  BY ValidRequests DEF LoadInv
<1>2. /\ 1 \in DOMAIN req.inputs
      /\ \A j, l \in DOMAIN req.inputs :
            req.inputs[j].shape[1] = req.inputs[l].shape[1]
  BY ValidRequests DEF LoadInv
<1>3. PICK shape \in Seq(Int) : shape = req.inputs[k].shape
  BY <1>1 DEF SentFor
<1>4. shape[1] = n
  BY <1>2, <1>3
<1>5. /\ Len(shape) = Len(ConfigDims(i))
      /\ \A d \in 2 .. Len(ConfigDims(i)) : shape[d] = ConfigDims(i)[d]
      /\ req.inputs[k].name = model.inputs[i].name
  BY <1>1, <1>3 DEF Matches
<1>6. shape # <<>> /\ RowElements(shape) = Width(i)
  BY <1>3, <1>5, SameWidth
<1>7. PICK w \in Nat : w = Width(i)
  BY Widths
<1>8. PICK size \in Nat : size = n * w
  BY RowStarts
<1>9. NumElements(shape) = size
  BY <1>4, <1>6, <1>7, <1>8, ElementsByRow
<1>10. TensorBytes(c, req)[i].shape = shape
       /\ TensorBytes(c, req)[i].data = RawContents(c, req, k)
  BY <1>1, <1>3 DEF SentFor
<1>11. PICK raw : raw = RawContents(c, req, k)
  OBVIOUS
<1>12. raw = [e \in 1 .. size |->
                <<c, model.inputs[i].name, (e - 1) \div w, (e - 1) % w>>]
  <2>1. raw = [e \in 1 .. NumElements(shape) |->
                <<c, model.inputs[i].name, (e - 1) \div RowElements(shape),
                  (e - 1) % RowElements(shape)>>]
    BY <1>3, <1>5, <1>11, Zenon DEF RawContents
  <2> QED  BY <1>6, <1>7, <1>9, <2>1, Zenon
<1>13. ASSUME NEW q \in 0 .. n - 1, NEW j \in 1 .. w
       PROVE  raw[q * w + j] = <<c, model.inputs[i].name, q, j - 1>>
  <2>1. w \in Nat \ {0} /\ q \in Nat /\ j - 1 \in Nat /\ j - 1 < w
    OBVIOUS
  <2>2. (q * w + (j - 1)) \div w = q /\ (q * w + (j - 1)) % w = j - 1
    BY <2>1, QuotientUnique
  <2>3. PICK x \in Nat : x = q * w /\ x + w <= size
    <3>1. q \in Nat /\ n \in Nat /\ q < n
      OBVIOUS
    <3> QED  BY <1>8, <3>1, RowStarts
  <2>4. PICK e \in 1 .. size : e = q * w + j /\ e - 1 = q * w + (j - 1)
    BY <2>3
  <2>5. raw[e] = <<c, model.inputs[i].name, (e - 1) \div w, (e - 1) % w>>
    BY <1>12
  <2> QED  BY <2>2, <2>4, <2>5, Zenon
<1>14. OfLength(raw, n * w)
  BY <1>8, <1>12 DEF OfLength
<1> QED  BY <1>4, <1>7, <1>10, <1>11, <1>13, <1>14 DEF RowsOfCall

\* The slice is the rows of chunk ch of input i, opaque to the provers.
RowsOfChunk(slice, c, i, ch) ==
    /\ OfLength(slice, (ch.end - ch.start) * Width(i))
    /\ \A s \in ch.start .. ch.end - 1 : \A j \in 1 .. Width(i) :
        slice[(s - ch.start) * Width(i) + j]
            = <<c, model.inputs[i].name, ch.row + s - ch.start, j - 1>>

\* The part of a tensor that goes into a chunk.
LEMMA ChunkRows ==
    ASSUME NEW data, NEW c, NEW i \in Inputs, NEW n \in Nat \ {0}, NEW at, NEW ch,
           Width(i) \in Nat, LiesIn(ch, at, n),
           data[i].shape[1] = n, RowsOfCall(data[i].data, c, i, n)
    PROVE  RowsOfChunk(ChunkSlice(data, i, ch), c, i, ch)
<1>1. PICK w, d, name :
            w \in Nat /\ w = Width(i) /\ d = data[i].data /\ name = model.inputs[i].name
  OBVIOUS
<1>2. PICK start \in Nat, end \in Nat, row \in Nat :
            /\ start = ch.start /\ end = ch.end /\ row = ch.row
            /\ start < end /\ row + (end - start) <= n
  BY InferBounds DEF LiesIn, ChunkType
<1>3. PICK m \in Nat : m = end - start /\ end = start + m /\ row + end - start = row + m
  BY <1>2
<1>4. PICK size \in Nat : size = n * w
  BY <1>1, RowStarts
<1>5. Len(d) = size
  <2>1. OfLength(d, size)
    BY <1>1, <1>4 DEF RowsOfCall
  <2> QED  BY <2>1, TensorLength
<1>6. Len(d) \div n = w
  <2>1. (w * n + 0) \div n = w
    BY <1>1, QuotientUnique
  <2>2. w * n + 0 = size
    BY <1>1, <1>4
  <2> QED  BY <1>5, <2>1, <2>2, Zenon
<1>7. PICK a \in Nat, l \in Nat : a = row * w /\ l = m * w /\ (row + m) * w = a + l
  BY <1>1, RowStarts
<1> DEFINE slice == ChunkSlice(data, i, ch)
<1>8. slice = SubSeq(d, a + 1, a + l)
  <2>1. slice = SubSeq(d, row * (Len(d) \div n) + 1, (row + end - start) * (Len(d) \div n))
    BY <1>1, <1>2, Zenon DEF ChunkSlice, SliceDim0
  <2> QED  BY <1>3, <1>6, <1>7, <2>1, Zenon
<1>9. slice = [e \in 1 .. l |-> d[a + e]]
  BY <1>8, Window
<1> HIDE DEF slice
<1>10. OfLength(slice, m * w)
  BY <1>7, <1>9 DEF OfLength
<1>11. ASSUME NEW s \in start .. end - 1, NEW j \in 1 .. w
       PROVE  slice[(s - start) * w + j] = <<c, name, row + s - start, j - 1>>
  <2>1. PICK q \in Nat : q = s - start /\ q < m /\ row + s - start = row + q
                         /\ row + q \in 0 .. n - 1
    BY <1>2, <1>3
  <2>2. PICK x \in Nat : x = q * w /\ x + w <= l /\ (row + q) * w = a + x
    BY <1>1, <1>7, <2>1, RowStarts
  <2>3. slice[x + j] = d[a + (x + j)]
    <3>1. x + j \in 1 .. l
      BY <1>1, <2>2
    <3> QED  BY <1>9, <3>1
  <2>4. a + (x + j) = (a + x) + j
    BY <1>1, <2>2
  <2>5. d[(row + q) * w + j] = <<c, name, row + q, j - 1>>
    BY <1>1, <2>1 DEF RowsOfCall
  <2>6. d[(a + x) + j] = <<c, name, row + q, j - 1>>
    BY <2>2, <2>5, Zenon
  <2>7. slice[q * w + j] = <<c, name, row + q, j - 1>>
    BY <2>2, <2>3, <2>4, <2>6, Zenon
  <2> QED  BY <2>1, <2>7, Zenon
<1> QED  BY <1>1, <1>2, <1>3, <1>10, <1>11, Zenon DEF slice, RowsOfChunk

\* The slots of chunk ch hold the caller's own rows, whole.
Filled(c, ch) ==
    \A i \in Inputs : \A s \in ch.start .. ch.end - 1 :
        SliceOf(buffer[ch.batch][i], s * Width(i), (s + 1) * Width(i))
            = OwnRow(c, i, ch.row + s - ch.start)

\* The same of a slice that is copied into tensor t for chunk ch.
FillsWith(t, slice, c, i, ch) ==
    \A s \in ch.start .. ch.end - 1 :
        SliceOf(CopiedAt(t, Width(i), ch.start, slice),
                s * Width(i), (s + 1) * Width(i))
            = OwnRow(c, i, ch.row + s - ch.start)

\* What `infer` copies into the slots of a chunk lies in its tensors, and is
\* what the caller sent.
LEMMA OwnChunk ==
    ASSUME LoadInv, BufferInv, Loaded, SameRank, NEW c,
           NEW req \in Requests(MetaOf(model)), IsValid(req),
           NEW n \in Nat \ {0}, n = req.inputs[1].shape[1],
           NEW at, NEW ch, LiesIn(ch, at, n), NEW b \in BatchIds, NEW i \in Inputs
    PROVE  LET t     == buffer[b][i]
               slice == ChunkSlice(TensorBytes(c, req), i, ch)
           IN  /\ DOMAIN slice \subseteq Nat \ {0}
               /\ OfLength(t, BatchSize * Width(i))
               /\ FitsAt(t, Width(i), ch.start, slice)
               /\ FillsWith(t, slice, c, i, ch)
<1> DEFINE t == buffer[b][i]
           slice == ChunkSlice(TensorBytes(c, req), i, ch)
<1>1. OfLength(t, BatchSize * Width(i))
  BY DEF BufferInv
<1>2. Width(i) \in Nat
  BY Widths
<1>3. RowsOfChunk(slice, c, i, ch)
  <2>1. TensorBytes(c, req)[i].shape[1] = n
        /\ RowsOfCall(TensorBytes(c, req)[i].data, c, i, n)
    BY SentRows
  <2>2. PICK data : data = TensorBytes(c, req)
    OBVIOUS
  <2>3. RowsOfChunk(ChunkSlice(data, i, ch), c, i, ch)
    BY <1>2, <2>1, <2>2, ChunkRows
  <2> QED  BY <2>2, <2>3, Zenon
<1> HIDE DEF t, slice
<1>4. /\ ch.start \in Nat /\ ch.end \in Nat /\ ch.start <= ch.end
      /\ ch.end <= BatchSize /\ BatchSize \in Nat
  BY InferBounds DEF LiesIn, ChunkType
<1>5. CopyLands(t, slice, Width(i), ch.start, ch.end)
  <2>1. OfLength(slice, (ch.end - ch.start) * Width(i))
    BY <1>3, Zenon DEF RowsOfChunk
  <2> QED  BY <1>1, <1>2, <1>4, <2>1, CopiedRows
<1>6. ASSUME NEW s \in ch.start .. ch.end - 1
      PROVE  [j \in 1 .. Width(i) |-> slice[(s - ch.start) * Width(i) + j]]
                = OwnRow(c, i, ch.row + s - ch.start)
  BY <1>3 DEF OwnRow, RowsOfChunk
<1>7. DOMAIN slice \subseteq Nat \ {0}
  <2>1. PICK m \in Nat : m = (ch.end - ch.start) * Width(i)
    <3>1. ch.end - ch.start \in Nat
      BY <1>4
    <3> QED  BY <1>2, <3>1, RowStarts
  <2>2. DOMAIN slice = 1 .. m
    BY <1>3, <2>1, TensorLength DEF RowsOfChunk
  <2> QED  BY <2>2
<1>8. FitsAt(t, Width(i), ch.start, slice) /\ FillsWith(t, slice, c, i, ch)
  BY <1>5, <1>6, Zenon DEF CopyLands, FillsWith
<1> QED  BY <1>1, <1>7, <1>8, Zenon DEF t, slice

\* The rows of a chunk, after the insertion that made it.
LEMMA InsertFills ==
    ASSUME Basics, phase = "serving", SameRank, NEW c \in Calls, model' = model,
           NEW req \in Requests(MetaOf(model)), IsValid(req), Inserted(c, req),
           Received(c, req),
           NEW k \in 1 .. Len(Chunks(head, req.inputs[1].shape[1])),
           NEW ch, ch = Chunks(head, req.inputs[1].shape[1])[k]
    PROVE  Filled(c, ch)'
<1>1. PICK n \in Nat \ {0} : n = req.inputs[1].shape[1] /\ head + n <= Capacity
  BY DEF Inserted
<1>2. LoadInv /\ BufferInv /\ OrderInv /\ Loaded /\ head \in Nat
  BY DEF Basics, Loaded, OrderInv
<1>3. LiesIn(ch, head, n)
  <2>1. \A j \in 1 .. Len(Chunks(head, n)) : LiesIn(Chunks(head, n)[j], head, n)
    BY <1>2, ChunkPlaces
  <2> QED  BY <1>1, <2>1, Zenon
<1>4. ch.batch \in BatchIds
  BY <1>1, <1>2, <1>3, ChunkInRange
<1>5. Copied = Inputs
      /\ buffer'[ch.batch] = AfterChunk(TensorBytes(c, req), ch, buffer[ch.batch])
  BY Zenon DEF Received
<1>6. ASSUME NEW i \in Inputs, NEW s \in ch.start .. ch.end - 1
      PROVE  SliceOf(buffer'[ch.batch][i], s * Width(i), (s + 1) * Width(i))
                = OwnRow(c, i, ch.row + s - ch.start)
  <2>1. buffer'[ch.batch][i]
            = CopiedAt(buffer[ch.batch][i], Width(i), ch.start,
                       ChunkSlice(TensorBytes(c, req), i, ch))
    BY <1>5, Zenon DEF AfterChunk
  <2>2. SliceOf(CopiedAt(buffer[ch.batch][i], Width(i), ch.start,
                         ChunkSlice(TensorBytes(c, req), i, ch)),
                s * Width(i), (s + 1) * Width(i))
            = OwnRow(c, i, ch.row + s - ch.start)
    <3>1. FillsWith(buffer[ch.batch][i], ChunkSlice(TensorBytes(c, req), i, ch),
                    c, i, ch)
      BY <1>1, <1>2, <1>3, <1>4, OwnChunk
    <3> QED  BY <3>1, Zenon DEF FillsWith
  <2> QED  BY <2>1, <2>2, Zenon
<1>7. Inputs' = Inputs /\ \A i : Width(i)' = Width(i)
  BY ModelFrame
<1>8. \A i, n1 : OwnRow(c, i, n1)' = OwnRow(c, i, n1)
  BY <1>7, Zenon DEF OwnRow
<1> SUFFICES ASSUME NEW i \in Inputs, NEW s \in ch.start .. ch.end - 1
             PROVE  SliceOf(buffer'[ch.batch][i], s * Width(i)', (s + 1) * Width(i)')
                        = OwnRow(c, i, ch.row + s - ch.start)'
  BY <1>7, Zenon DEF Filled, SliceOf
<1>9. /\ Width(i)' = Width(i)
      /\ OwnRow(c, i, ch.row + s - ch.start)' = OwnRow(c, i, ch.row + s - ch.start)
  BY <1>7, <1>8, Zenon
<1> QED  BY <1>6, <1>9, Zenon

\* The rows of an earlier chunk, when others are written.
LEMMA InsertKeeps ==
    ASSUME Basics, phase = "serving", SameRank, NEW d \in Calls, model' = model,
           NEW req \in Requests(MetaOf(model)), IsValid(req), Inserted(d, req),
           NEW c, NEW ch \in Reservation, ch.batch * BatchSize + ch.end <= head,
           Filled(c, ch)
    PROVE  Filled(c, ch)'
<1>1. PICK n \in Nat \ {0} : n = req.inputs[1].shape[1]
  BY DEF Inserted
<1>2. LoadInv /\ BufferInv /\ OrderInv /\ Loaded /\ head \in Nat
  BY DEF Basics, Loaded, OrderInv
<1>3. PICK b \in BatchIds : b = ch.batch
  BY DEF Reservation
<1>4. PICK first \in Int : first = b * BatchSize
  BY <1>3, BatchNumbers
<1>5. ch.start \in Nat /\ ch.end \in Nat /\ first + ch.end <= head
  BY <1>3, <1>4 DEF Reservation
<1>6. ASSUME NEW i \in Inputs, NEW s \in ch.start .. ch.end - 1
      PROVE  SliceOf(buffer'[b][i], s * Width(i), (s + 1) * Width(i))
                = SliceOf(buffer[b][i], s * Width(i), (s + 1) * Width(i))
  <2>1. CASE buffer'[b] = buffer[b]
    BY <2>1, Zenon
  <2>2. CASE \E k \in 1 .. Len(Chunks(head, n)) :
                /\ LiesIn(Chunks(head, n)[k], head, n) /\ Chunks(head, n)[k].batch = b
                /\ buffer'[b] = AfterChunk(TensorBytes(d, req), Chunks(head, n)[k],
                                           buffer[b])
    <3>1. PICK new : /\ LiesIn(new, head, n) /\ new.batch = b
                     /\ buffer'[b] = AfterChunk(TensorBytes(d, req), new, buffer[b])
      BY <2>2, Zenon
    <3>2. new.start \in Nat /\ new.start <= BatchSize /\ head <= first + new.start
      <4>1. new \in ChunkType /\ new.batch * BatchSize + new.start = head + new.row
        BY <3>1 DEF LiesIn
      <4>2. new.start \in 0 .. BatchSize - 1 /\ new.row \in Nat
        BY <4>1 DEF ChunkType
      <4>3. first + new.start = head + new.row
        BY <1>4, <3>1, <4>1, Zenon
      <4> QED  BY <1>2, <1>4, <4>2, <4>3, InferBounds
    <3>3. s \in 0 .. new.start - 1
      BY <1>2, <1>4, <1>5, <3>2
    <3> DEFINE t == buffer[b][i]
               slice == ChunkSlice(TensorBytes(d, req), i, new)
    <3>4. /\ DOMAIN slice \subseteq Nat \ {0}
          /\ OfLength(t, BatchSize * Width(i))
      BY <1>1, <1>2, <3>1, OwnChunk
    <3>5. buffer'[b][i] = IF i \in Copied THEN CopiedAt(t, Width(i), new.start, slice)
                                          ELSE t
      BY <3>1, Zenon DEF AfterChunk
    <3> HIDE DEF t, slice
    <3>6. SliceOf(CopiedAt(t, Width(i), new.start, slice), s * Width(i), (s + 1) * Width(i))
            = SliceOf(t, s * Width(i), (s + 1) * Width(i))
      <4>1. Width(i) \in Nat /\ BatchSize \in Nat
        BY <1>2, Widths, InferBounds
      <4> QED  BY <3>2, <3>3, <3>4, <4>1, RowsBefore
    <3>7. CASE i \in Copied
      BY <3>5, <3>6, <3>7, Zenon DEF t
    <3>8. CASE i \notin Copied
      BY <3>5, <3>8, Zenon DEF t
    <3> QED  BY <3>7, <3>8
  <2> QED  BY <1>1, <2>1, <2>2, Zenon DEF Inserted, Touched
<1>7. Inputs' = Inputs /\ \A i : Width(i)' = Width(i)
  BY ModelFrame
<1>8. \A i, m : OwnRow(c, i, m)' = OwnRow(c, i, m)
  BY <1>7, Zenon DEF OwnRow
<1>9. ASSUME NEW i \in Inputs, NEW s \in ch.start .. ch.end - 1
      PROVE  SliceOf(buffer'[ch.batch][i], s * Width(i), (s + 1) * Width(i))
                = OwnRow(c, i, ch.row + s - ch.start)
  <2>1. SliceOf(buffer[ch.batch][i], s * Width(i), (s + 1) * Width(i))
            = OwnRow(c, i, ch.row + s - ch.start)
    BY DEF Filled
  <2>2. SliceOf(buffer'[ch.batch][i], s * Width(i), (s + 1) * Width(i))
            = SliceOf(buffer[ch.batch][i], s * Width(i), (s + 1) * Width(i))
    BY <1>3, <1>6, Zenon
  <2> QED  BY <2>1, <2>2, Zenon
<1> SUFFICES ASSUME NEW i \in Inputs, NEW s \in ch.start .. ch.end - 1
             PROVE  SliceOf(buffer'[ch.batch][i], s * Width(i)', (s + 1) * Width(i)')
                        = OwnRow(c, i, ch.row + s - ch.start)'
  BY <1>7, Zenon DEF Filled, SliceOf
<1> QED  BY <1>9, <1>7, <1>8, Zenon

\* No copy leaves its tensor.
LEMMA NothingOverran ==
    ASSUME Basics, phase = "serving", SameRank, NEW c \in Calls,
           NEW req \in Requests(MetaOf(model)), IsValid(req), Inserted(c, req)
    PROVE  ~Overran(c, req)
<1>1. PICK n \in Nat \ {0} : n = req.inputs[1].shape[1] /\ head + n <= Capacity
  BY DEF Inserted
<1>2. LoadInv /\ BufferInv /\ OrderInv /\ Loaded /\ head \in Nat
  BY DEF Basics, Loaded, OrderInv
<1>3. ASSUME NEW ch, LiesIn(ch, head, n) PROVE ~OutOfRange(TensorBytes(c, req), ch)
  <2>1. ch.batch \in BatchIds
    BY <1>1, <1>2, <1>3, ChunkInRange
  <2>2. \A i \in Inputs : FitsAt(buffer[ch.batch][i], Width(i), ch.start,
                                 ChunkSlice(TensorBytes(c, req), i, ch))
    BY <1>1, <1>2, <1>3, <2>1, OwnChunk
  <2>3. Copied \subseteq Inputs
    BY DEF Copied
  <2> QED  BY <2>2, <2>3, Zenon DEF OutOfRange
<1>4. \A k \in 1 .. Len(Chunks(head, n)) : LiesIn(Chunks(head, n)[k], head, n)
  BY <1>2, ChunkPlaces
<1>5. \A k \in 1 .. Len(Chunks(head, n)) : ~OutOfRange(TensorBytes(c, req), Chunks(head, n)[k])
  BY <1>3, <1>4
<1> QED  BY <1>1, <1>5, Zenon DEF Overran

\* Rows stay in their slots while the buffers do not change.
LEMMA FilledFrame ==
    ASSUME model' = model, buffer' = buffer, NEW c, NEW ch
    PROVE  Filled(c, ch)' <=> Filled(c, ch)
BY DEF Filled, OwnRow, Inputs, Width, SliceOf

\* RowsFillTheirSlots, by reservations.
LEMMA SlotsFilled ==
    RowsFillTheirSlots <=>
        (SameRank => /\ phase # "copy_panic"
                     /\ \A c \in Calls : \A k \in DOMAIN resv[c] : Filled(c, resv[c][k]))
BY Zenon DEF RowsFillTheirSlots, Filled

\* No step takes a row out of its slot, and none leaves a tensor.
LEMMA NextRows ==
    ASSUME Basics, RowsFillTheirSlots, [Next]_vars
    PROVE  RowsFillTheirSlots'
<1>1. SameRank => /\ phase # "copy_panic"
                  /\ \A c \in Calls : \A k \in DOMAIN resv[c] : Filled(c, resv[c][k])
  BY SlotsFilled
<1>2. ASSUME SameRank' => phase' # "copy_panic",
             \A c \in Calls : \A k \in DOMAIN resv'[c] : \A ch :
                SameRank' /\ ch = resv'[c][k] => Filled(c, ch)'
      PROVE  RowsFillTheirSlots'
  <2>1. ASSUME NEW c \in Calls, NEW k \in DOMAIN resv'[c], SameRank',
               NEW i \in Inputs', NEW s \in resv'[c][k].start .. resv'[c][k].end - 1
        PROVE  (SliceOf(buffer[resv[c][k].batch][i], s * Width(i), (s + 1) * Width(i))
                = OwnRow(c, i, resv[c][k].row + s - resv[c][k].start))'
    <3>1. PICK ch : ch = resv'[c][k]
      OBVIOUS
    <3>2. Filled(c, ch)'
      BY <1>2, <2>1, <3>1
    <3>3. \A j \in Inputs' : \A q \in ch.start .. ch.end - 1 :
            (SliceOf(buffer[ch.batch][j], q * Width(j), (q + 1) * Width(j))
                = OwnRow(c, j, ch.row + q - ch.start))'
      BY <3>2, Zenon DEF Filled
    <3>4. (SliceOf(buffer[ch.batch][i], s * Width(i), (s + 1) * Width(i))
                = OwnRow(c, i, ch.row + s - ch.start))'
      BY <2>1, <3>1, <3>3, Zenon
    <3> QED  BY <3>1, <3>4, Zenon DEF SliceOf, OwnRow
  <2> QED  BY <1>2, <2>1, Zenon DEF RowsFillTheirSlots
<1>3. /\ \A c \in Calls : \A k \in DOMAIN resv[c] :
            /\ resv[c][k] \in Reservation
            /\ resv[c][k].batch * BatchSize + resv[c][k].end <= head
      /\ resv = [c \in Calls |-> resv[c]]
  BY DEF Basics, CallInv
<1>4. ASSUME model' = model PROVE SameRank' = SameRank
  BY <1>4 DEF SameRank, Inputs, ConfigDims
<1>5. ASSUME UNCHANGED <<model, buffer, resv, phase>> PROVE RowsFillTheirSlots'
  <2>1. \A c, ch : Filled(c, ch)' <=> Filled(c, ch)
    BY <1>5, FilledFrame
  <2> QED  BY <1>1, <1>2, <1>4, <1>5, <2>1
<1>6. CASE LoadModel
  <2>1. /\ phase' \in {"serving", "load_panic"} /\ resv' = resv
        /\ resv = [c \in Calls |-> <<>>]
    BY <1>6, LoadFacts DEF Basics, LoadInv, Loaded
  <2>2. \A c \in Calls : DOMAIN resv'[c] = {}
    BY <2>1
  <2> QED  BY <1>2, <2>1, <2>2
<1>7. ASSUME NEW c \in Calls, ModelInfer(c) PROVE RowsFillTheirSlots'
  <2>1. PICK req \in Requests(MetaOf(model)) :
            Refused(c, req) \/ (IsValid(req) /\ Inserted(c, req))
    BY <1>7, ModelInferFacts
  <2>2. model' = model /\ phase = "serving"
    BY <1>7, ModelInferFacts
  <2>3. CASE Refused(c, req)
    BY <1>5, <2>2, <2>3 DEF Refused
  <2>4. CASE IsValid(req) /\ Inserted(c, req)
    <3>1. SUFFICES ASSUME SameRank
                   PROVE  /\ phase' # "copy_panic"
                          /\ \A d \in Calls : \A k \in DOMAIN resv'[d] : \A ch :
                                ch = resv'[d][k] => Filled(d, ch)'
      BY <1>2, <1>4, <2>2
    <3>2. phase' = phase /\ (Received(c, req) \/ Uncopied(c))
      <4>1. ~Overran(c, req)
        BY <2>2, <2>4, <3>1, NothingOverran
      <4> QED  BY <2>4, <4>1 DEF Inserted, Received, Uncopied
    <3>3. ASSUME NEW d \in Calls, NEW k \in DOMAIN resv[d], NEW ch, ch = resv[d][k]
          PROVE  Filled(d, ch)'
      <4>1. /\ ch \in Reservation /\ ch.batch * BatchSize + ch.end <= head
            /\ Filled(d, ch)
        BY <1>1, <1>3, <3>1, <3>3
      <4> QED  BY <2>2, <2>4, <3>1, <4>1, InsertKeeps
    <3>4. \A d \in Calls \ {c} : resv'[d] = resv[d]
      BY <1>3, <3>2 DEF Received, Uncopied
    <3>5. ASSUME NEW k \in DOMAIN resv'[c], NEW ch, ch = resv'[c][k]
          PROVE  Filled(c, ch)'
      <4>1. CASE Received(c, req)
        <5>1. PICK cs : cs = Chunks(head, req.inputs[1].shape[1])
          OBVIOUS
        <5>2. resv'[c] = cs
          <6>1. resv' = [resv EXCEPT ![c] = cs]
            BY <4>1, <5>1, Zenon DEF Received
          <6> QED  BY <1>3, <6>1
        <5>3. DOMAIN cs = 1 .. Len(cs)
          <6>1. head \in Nat /\ req.inputs[1].shape[1] \in Nat \ {0}
            BY <2>4 DEF Inserted, Basics, OrderInv
          <6> QED  BY <5>1, <6>1, ChunkPlaces
        <5>4. k \in 1 .. Len(Chunks(head, req.inputs[1].shape[1]))
              /\ ch = Chunks(head, req.inputs[1].shape[1])[k]
          BY <3>5, <5>1, <5>2, <5>3, Zenon
        <5> QED  BY <2>2, <2>4, <3>1, <4>1, <5>4, InsertFills
      <4>2. CASE Uncopied(c)
        <5>1. resv' = resv
          BY <4>2 DEF Uncopied
        <5> QED  BY <3>3, <3>5, <5>1
      <4> QED  BY <3>2, <4>1, <4>2
    <3> QED  BY <2>2, <3>2, <3>3, <3>4, <3>5
  <2> QED  BY <2>1, <2>3, <2>4
<1>8. ASSUME NEW c \in Calls, GetData(c) PROVE RowsFillTheirSlots'
  BY <1>5, <1>8, AnswerFrame
<1>9. UNCHANGED vars => UNCHANGED <<model, buffer, resv, phase>>
  BY DEF vars, requestVars
<1>10. CASE StartRun \/ RunHost \/ QueueH2D \/ RunBinding \/ QueueD2H \/ FinishGpuRun
            \/ StreamStep
  BY <1>5, <1>10, SessionFrame
<1> QED  BY <1>5, <1>6, <1>7, <1>8, <1>9, <1>10 DEF Next

(***************************************************************************)
(* Each row of each input of a call lies in its own slot of its own input, *)
(* whole, and no copy left its tensor: for every model whose overrides     *)
(* keep the rank, whatever the order of the inputs in the request and      *)
(* however many batches its rows go into.                                  *)
(***************************************************************************)
THEOREM RowsAreInTheirSlots == Spec => []RowsFillTheirSlots
<1>1. Init => RowsFillTheirSlots
  <2> SUFFICES ASSUME Init PROVE RowsFillTheirSlots
    OBVIOUS
  <2>1. phase = "loading" /\ resv = [c \in Calls |-> <<>>]
    BY DEF Init
  <2>2. \A c \in Calls : DOMAIN resv[c] = {}
    BY <2>1
  <2> QED  BY <2>1, <2>2 DEF RowsFillTheirSlots
<1>2. InferInv /\ RowsFillTheirSlots /\ [Next]_vars => RowsFillTheirSlots'
  BY NextRows DEF InferInv
<1> QED  BY <1>1, <1>2, InferInvariant, PTL DEF Spec

(***************************************************************************)
(* What an answer is put together from.                                    *)
(***************************************************************************)

\* Parts that follow each other in own, of n elements, part k behind at[k] of
\* them; opaque to the provers.
Consecutive(parts, own, n, at) ==
    /\ at \in [1 .. Len(parts) -> Nat]
    /\ at[1] = 0
    /\ \A k \in 1 .. Len(parts) :
        at[k] + Len(parts[k]) = IF k = Len(parts) THEN n ELSE at[k + 1]
    /\ \A k \in 1 .. Len(parts) : \A j \in 1 .. Len(parts[k]) :
        parts[k][j] = own[at[k] + j]

LEMMA JoinedRows ==
    ASSUME NEW T, NEW parts \in Seq(Seq(T)), NEW n \in Nat,
           NEW own, OfLength(own, n), NEW at, Len(parts) # 0,
           Consecutive(parts, own, n, at)
    PROVE  Joined(parts) = own
<1> USE DEF Consecutive
<1>1. PICK m, starts, joined :
            m \in Nat \ {0} /\ m = Len(parts) /\ starts = Starts(parts) /\ joined = Joined(parts)
  <2>1. Len(parts) \in Nat \ {0}
    OBVIOUS
  <2> QED  BY <2>1, Zenon
<1>2. /\ joined \in Seq(T)
      /\ starts[1] = 0
      /\ Len(joined) = starts[m + 1]
      /\ \A k \in 1 .. m : starts[k + 1] = starts[k] + Len(parts[k])
      /\ \A k \in 1 .. m : \A j \in 1 .. Len(parts[k]) :
            joined[starts[k] + j] = parts[k][j]
      /\ \A e \in 1 .. Len(joined) : \E k \in 1 .. m : \E j \in 1 .. Len(parts[k]) :
            e = starts[k] + j
  <2>1. /\ Joined(parts) \in Seq(T)
        /\ Starts(parts)[1] = 0
        /\ Len(Joined(parts)) = Starts(parts)[Len(parts) + 1]
        /\ \A i \in 1 .. Len(parts) :
            /\ Starts(parts)[i + 1] = Starts(parts)[i] + Len(parts[i])
            /\ \A j \in 1 .. Len(parts[i]) :
                    Joined(parts)[Starts(parts)[i] + j] = parts[i][j]
        /\ \A e \in 1 .. Len(Joined(parts)) :
            \E i \in 1 .. Len(parts) : \E j \in 1 .. Len(parts[i]) :
                e = Starts(parts)[i] + j
    BY JoinedElements, Zenon
  <2> QED  BY <1>1, <2>1, SMTT(30)
<1>4. \A k \in 1 .. m : starts[k] = at[k]
  <2> DEFINE Bad == {k \in 1 .. m : starts[k] # at[k]}
  <2> SUFFICES ASSUME Bad # {} PROVE FALSE
    OBVIOUS
  <2>1. Bad \subseteq Nat
    BY <1>1
  <2>2. PICK k \in Bad : \A l \in Bad : k <= l
    <3> HIDE DEF Bad
    <3> QED  BY <2>1, LeastNumber
  <2>3. k \in 1 .. m /\ starts[k] # at[k]
    OBVIOUS
  <2>4. k # 1
    BY <1>1, <1>2, <2>3
  <2>5. k - 1 \in 1 .. m /\ k - 1 \notin Bad /\ k = (k - 1) + 1 /\ k - 1 # m
    BY <1>1, <2>2, <2>3, <2>4
  <2>6. starts[k - 1] = at[k - 1]
    BY <2>5
  <2>7. starts[k] = starts[k - 1] + Len(parts[k - 1])
    BY <1>2, <2>5
  <2>8. at[k] = at[k - 1] + Len(parts[k - 1])
    BY <1>1, <2>5
  <2> QED  BY <2>3, <2>6, <2>7, <2>8
<1>5. Len(joined) = n
  <2>1. m \in 1 .. m
    BY <1>1
  <2>2. starts[m + 1] = starts[m] + Len(parts[m]) /\ at[m] + Len(parts[m]) = n
    BY <1>1, <1>2, <2>1
  <2> QED  BY <1>2, <1>4, <2>1, <2>2
<1>6. ASSUME NEW e \in 1 .. n PROVE joined[e] = own[e]
  <2>5. e \in 1 .. Len(joined)
    BY <1>5
  <2>1. PICK k \in 1 .. m : \E j \in 1 .. Len(parts[k]) : e = starts[k] + j
    BY <1>2, <2>5, Zenon
  <2>4. PICK j \in 1 .. Len(parts[k]) : e = starts[k] + j
    BY <2>1
  <2>2. joined[e] = parts[k][j] /\ e = at[k] + j
    BY <1>2, <1>4, <2>4
  <2>3. parts[k][j] = own[at[k] + j]
    BY <1>1
  <2> QED  BY <2>2, <2>3, Zenon
<1>7. joined = [e \in 1 .. n |-> joined[e]]
  BY <1>2, <1>5
<1>8. own = [e \in 1 .. n |-> own[e]]
  BY DEF OfLength
<1> QED  BY <1>1, <1>6, <1>7, <1>8

\* The element that a graph with one element per row computes from row q of c.
OwnElement(c, o, q) == <<o, [i \in Inputs |-> OwnRow(c, i, q)], 0>>

\* Outputs of one element per row: the row is the element.
LEMMA DivisionByOne ==
    ASSUME NEW x \in Nat
    PROVE  x \div 1 = x /\ x % 1 = 0 /\ x * 1 = x
BY SMT

\* What the graph computes for a slot that holds a row of c.
LEMMA KernelRow ==
    ASSUME NEW c, NEW ch \in Reservation, Filled(c, ch), NEW o \in Outputs,
           OutWidth(o) = 1, NEW s \in ch.start .. ch.end - 1
    PROVE  Kernel(buffer[ch.batch])[o][s + 1]
                = OwnElement(c, o, ch.row + s - ch.start)
<1>1. PICK tensors : tensors = buffer[ch.batch]
  OBVIOUS
<1>2. s \in Nat /\ s + 1 \in 1 .. BatchSize /\ BatchSize \in Nat /\ (s + 1) - 1 = s
  BY InferBounds DEF Reservation
<1>3. Kernel(tensors)[o] =
        [e \in 1 .. BatchSize * OutWidth(o) |->
            <<o, [i \in Inputs |-> SliceOf(tensors[i],
                                           ((e - 1) \div OutWidth(o)) * Width(i),
                                           ((e - 1) \div OutWidth(o) + 1) * Width(i))],
              (e - 1) % OutWidth(o)>>]
  BY Zenon DEF Kernel
<1>4. s + 1 \in 1 .. BatchSize * OutWidth(o)
  BY <1>2, DivisionByOne
<1>5. Kernel(tensors)[o][s + 1] =
            <<o, [i \in Inputs |-> SliceOf(tensors[i],
                                           (((s + 1) - 1) \div OutWidth(o)) * Width(i),
                                           (((s + 1) - 1) \div OutWidth(o) + 1) * Width(i))],
              ((s + 1) - 1) % OutWidth(o)>>
  BY <1>3, <1>4, Zenon
<1>6. ((s + 1) - 1) \div OutWidth(o) = s /\ ((s + 1) - 1) % OutWidth(o) = 0
  BY <1>2, DivisionByOne
<1>7. Kernel(tensors)[o][s + 1] =
            <<o, [i \in Inputs |-> SliceOf(tensors[i], s * Width(i), (s + 1) * Width(i))], 0>>
  BY <1>5, <1>6, Zenon
<1>8. ASSUME NEW i \in Inputs
      PROVE  SliceOf(tensors[i], s * Width(i), (s + 1) * Width(i))
                = OwnRow(c, i, ch.row + s - ch.start)
  BY <1>1, Zenon DEF Filled
<1>9. [i \in Inputs |-> SliceOf(tensors[i], s * Width(i), (s + 1) * Width(i))]
        = [i \in Inputs |-> OwnRow(c, i, ch.row + s - ch.start)]
  BY <1>8, Zenon
<1> QED  BY <1>1, <1>7, <1>9, Zenon DEF OwnElement

\* The part is what the graph computes from the rows of chunk ch of c, opaque
\* to the provers.
PartIs(part, c, o, ch) ==
    part = [j \in 1 .. ch.end - ch.start |-> OwnElement(c, o, ch.row + j - 1)]

\* The slice of an answer that one reservation contributes.
LEMMA PartOfAnswer ==
    ASSUME NEW c, NEW ch \in Reservation, Filled(c, ch), NEW o \in Outputs,
           OutWidth(o) = 1, NEW values, values = Kernel(buffer[ch.batch]),
           NEW l \in Nat, l = ch.end - ch.start
    PROVE  PartIs(SliceOf(values[o], ch.start, ch.end), c, o, ch)
<1>1. PICK start \in Nat, end \in Nat, row \in Nat :
            start = ch.start /\ end = ch.end /\ row = ch.row
  BY DEF Reservation
<1>2. end = start + l
  BY <1>1
<1>3. SliceOf(values[o], start, end) = [j \in 1 .. l |-> values[o][start + j]]
  <2>1. SubSeq(values[o], start + 1, start + l) = [j \in 1 .. l |-> values[o][start + j]]
    BY Window
  <2> QED  BY <1>2, <2>1, Zenon DEF SliceOf
<1>4. ASSUME NEW j \in 1 .. l
      PROVE  values[o][start + j] = OwnElement(c, o, row + j - 1)
  <2>1. PICK s \in start .. end - 1 : s = start + j - 1
    BY <1>2
  <2>2. s + 1 = start + j /\ row + s - start = row + j - 1
    BY <2>1
  <2>3. values[o][s + 1] = OwnElement(c, o, row + s - start)
    BY <1>1, KernelRow
  <2> QED  BY <2>2, <2>3, Zenon
<1>5. [j \in 1 .. l |-> values[o][start + j]] = [j \in 1 .. l |-> OwnElement(c, o, row + j - 1)]
  BY <1>4, Zenon
<1> QED  BY <1>1, <1>3, <1>5, Zenon DEF PartIs

\* The append of get_data, as the joined parts of DataLemmas.
LEMMA FlattenJoined ==
    ASSUME NEW ss
    PROVE  FlattenSeq(ss) = Joined(ss)
BY DEF FlattenSeq, Joined, EndToEnd

\* The data of an output in an answer that is ready.
LEMMA AnswerData ==
    ASSUME Basics, CellInv, AnswerInv, RowsFillTheirSlots, SameRank,
           NEW c \in Calls, call[c] = "waiting",
           \A k \in DOMAIN resv[c] : cell[resv[c][k].batch].status = "ok",
           NEW o \in Outputs, OutWidth(o) = 1
    PROVE  ResponseTensor(c, o).data = OwnElements(c, o)
<1>1. PICK n \in Nat \ {0}, at \in Nat : n = RowsOf(c) /\ resv[c] = Chunks(at, n)
  <2>1. RowsOf(c) \in Nat \ {0} /\ \E at \in 0 .. head : resv[c] = Chunks(at, RowsOf(c))
    BY DEF AnswerInv
  <2>2. \A at \in 0 .. head : at \in Nat
    BY DEF Basics, OrderInv
  <2> QED  BY <2>1, <2>2
<1>2. PICK cs \in Seq(ChunkType), m \in Nat \ {0} :
            cs = Chunks(at, n) /\ m = Len(Chunks(at, n)) /\ DOMAIN cs = 1 .. m
            /\ cs = resv[c]
  <2>1. /\ Chunks(at, n) \in Seq(ChunkType) /\ Len(Chunks(at, n)) \in Nat \ {0}
        /\ DOMAIN Chunks(at, n) = 1 .. Len(Chunks(at, n))
    BY ChunkPlaces, Zenon
  <2> QED  BY <1>1, <2>1, Zenon
<1>3. /\ \A k \in 1 .. m : LiesIn(cs[k], at, n)
      /\ cs[1].row = 0
      /\ \A k \in 1 .. m : cs[k].row + (cs[k].end - cs[k].start)
                                = IF k = m THEN n ELSE cs[k + 1].row
  <2>1. LET all == Chunks(at, n) IN
        /\ \A k \in 1 .. Len(all) : LiesIn(all[k], at, n)
        /\ all[1].row = 0
        /\ \A k \in 1 .. Len(all) : all[k].row + (all[k].end - all[k].start)
                                        = IF k = Len(all) THEN n ELSE all[k + 1].row
    BY ChunkPlaces
  <2> QED  BY <1>2, <2>1, Zenon
<1>4. \A k \in 1 .. m : cs[k] \in Reservation /\ Filled(c, cs[k])
                        /\ cell[cs[k].batch].status = "ok"
  <2>1. \A k \in DOMAIN resv[c] : resv[c][k] \in Reservation /\ Filled(c, resv[c][k])
    BY SlotsFilled DEF Basics, CallInv
  <2> QED  BY <1>2, <2>1
<1>5. \A k \in 1 .. m : cell[cs[k].batch].values = Kernel(buffer[cs[k].batch])
  BY <1>4 DEF CellInv, PublishedOutputsAreFinal, Reservation
<1> DEFINE own == [e \in 1 .. n |-> OwnElement(c, o, e - 1)]
           T == {own[e] : e \in 1 .. n}
           first == [k \in 1 .. m |-> cs[k].row]
           parts == [k \in 1 .. m |-> SliceOf(cell[cs[k].batch].values[o],
                                              cs[k].start, cs[k].end)]
<1>6. ASSUME NEW k \in 1 .. m
      PROVE  /\ parts[k] \in Seq(T)
             /\ first[k] \in Nat /\ Len(parts[k]) \in Nat
             /\ first[k] + Len(parts[k]) = IF k = m THEN n ELSE first[k + 1]
             /\ \A j \in 1 .. Len(parts[k]) : parts[k][j] = own[first[k] + j]
  <2>1. PICK ch \in Reservation, l \in Nat, row \in Nat :
            /\ ch = cs[k] /\ row = ch.row /\ l = ch.end - ch.start /\ row + l <= n
    <3>1. cs[k] \in ChunkType /\ cs[k].start < cs[k].end
          /\ cs[k].row + (cs[k].end - cs[k].start) <= n
      BY <1>3 DEF LiesIn
    <3>2. /\ cs[k].end \in 1 .. BatchSize /\ cs[k].start \in 0 .. BatchSize - 1
          /\ cs[k].row \in Nat
      BY <3>1 DEF ChunkType
    <3>3. cs[k].end - cs[k].start \in Nat
      BY <3>1, <3>2, InferBounds
    <3> QED  BY <1>4, <3>1, <3>2, <3>3
  <2>2. PICK part : part = [j \in 1 .. l |-> OwnElement(c, o, row + j - 1)]
    OBVIOUS
  <2>3. SliceOf(cell[ch.batch].values[o], ch.start, ch.end) = part
    <3>1. Filled(c, ch) /\ cell[ch.batch].values = Kernel(buffer[ch.batch])
      BY <1>4, <1>5, <2>1
    <3>2. PICK values : values = cell[ch.batch].values
      OBVIOUS
    <3>3. PartIs(SliceOf(values[o], ch.start, ch.end), c, o, ch)
      BY <2>1, <3>1, <3>2, PartOfAnswer
    <3> QED  BY <2>1, <2>2, <3>2, <3>3, Zenon DEF PartIs
  <2>4. parts[k] = part
    BY <2>1, <2>3, Zenon
  <2>5. \A j \in 1 .. l : row + j \in 1 .. n /\ (row + j) - 1 = row + j - 1
    BY <2>1
  <2>6. \A j \in 1 .. l : part[j] = own[row + j]
    BY <2>2, <2>5
  <2>7. \A j \in 1 .. l : part[j] \in T
    <3>1. ASSUME NEW j \in 1 .. l PROVE \E e \in 1 .. n : part[j] = own[e]
      BY <2>5, <2>6
    <3> QED  BY <3>1
  <2>8. Len(part) = l /\ part \in Seq(T)
    <3> HIDE DEF T
    <3>1. OfLength(part, l)
      BY <2>2 DEF OfLength
    <3>2. Len(part) = l /\ part \in Seq({part[e] : e \in 1 .. l})
      BY <3>1, TensorLength
    <3>3. part = [e \in 1 .. l |-> part[e]]
      BY <3>1 DEF OfLength
    <3>4. part \in [1 .. l -> T]
      BY <2>7, <3>3
    <3> QED  BY <3>2, <3>4
  <2>9. first[k] = row
    BY <2>1
  <2>10. row + l = IF k = m THEN n ELSE first[k + 1]
    <3>1. row + l = IF k = m THEN n ELSE cs[k + 1].row
      BY <1>3, <2>1
    <3>2. k # m => k + 1 \in 1 .. m
      OBVIOUS
    <3> QED  BY <3>1, <3>2
  <2> HIDE DEF parts, own, first, T
  <2> QED  BY <2>4, <2>6, <2>8, <2>9, <2>10
<1>7. OfLength(own, n) /\ first[1] = 0 /\ first = [k \in 1 .. m |-> first[k]]
      /\ parts = [k \in 1 .. m |-> parts[k]]
  BY <1>3 DEF OfLength
<1>8. FlattenSeq(parts) = own
  <2> HIDE DEF parts, own, first, T
  <2>1. parts \in Seq(Seq(T)) /\ Len(parts) = m
    <3>1. parts \in [1 .. m -> Seq(T)]
      BY <1>6, <1>7
    <3> QED  BY <3>1
  <2>2. first \in [1 .. Len(parts) -> Nat]
    BY <1>6, <1>7, <2>1
  <2>3. /\ \A k \in 1 .. Len(parts) :
            first[k] + Len(parts[k]) = IF k = Len(parts) THEN n ELSE first[k + 1]
        /\ \A k \in 1 .. Len(parts) : \A j \in 1 .. Len(parts[k]) :
            parts[k][j] = own[first[k] + j]
    BY <1>6, <2>1
  <2>4. Consecutive(parts, own, n, first)
    BY <1>7, <2>2, <2>3 DEF Consecutive
  <2>5. Joined(parts) = own
    <3>1. Len(parts) # 0 /\ OfLength(own, n) /\ n \in Nat
      BY <1>7, <2>1
    <3> QED  BY <2>1, <2>4, <3>1, JoinedRows
  <2> QED  BY <2>5, FlattenJoined
<1>9. ResponseTensor(c, o).data = FlattenSeq(parts)
  <2>1. ResponseTensor(c, o).data
            = FlattenSeq([k \in DOMAIN resv[c] |->
                            SliceOf(cell[resv[c][k].batch].values[o],
                                    resv[c][k].start, resv[c][k].end)])
    BY DEF ResponseTensor
  <2> QED  BY <1>2, <2>1, Zenon
<1>10. OwnElements(c, o) = own
  <2>1. OwnElements(c, o) =
        [e \in 1 .. n * 1 |->
            <<o, [i \in Inputs |-> OwnRow(c, i, (e - 1) \div 1)], (e - 1) % 1>>]
    BY <1>1, Zenon DEF OwnElements
  <2>2. n * 1 = n
    BY DivisionByOne
  <2>3. ASSUME NEW e \in 1 .. n
        PROVE  <<o, [i \in Inputs |-> OwnRow(c, i, (e - 1) \div 1)], (e - 1) % 1>>
                    = OwnElement(c, o, e - 1)
    <3>1. (e - 1) \div 1 = e - 1 /\ (e - 1) % 1 = 0
      <4>1. e - 1 \in Nat
        OBVIOUS
      <4> QED  BY <4>1, DivisionByOne
    <3> QED  BY <3>1, Zenon DEF OwnElement
  <2> QED  BY <2>1, <2>2, <2>3, Zenon
<1> QED  BY <1>8, <1>9, <1>10, Zenon

\* The answer of one call, and what it depends on.
OwnAnswer(c) ==
    \A o \in Outputs : /\ reply[c][o].name = model.outputs[o].name
                       /\ reply[c][o].data = OwnElements(c, o)

\* An answer stays right while the reply and the request stay.
LEMMA OwnAnswerFrame ==
    ASSUME model' = model, NEW c, reply'[c] = reply[c], request'[c] = request[c]
    PROVE  OwnAnswer(c)' <=> OwnAnswer(c)
BY DEF OwnAnswer, OwnElements, RowsOf, OutWidth, Outputs, Inputs, OwnRow, Width

\* Every answer that is given is the caller's own, and stays.
LEMMA NextAnswers ==
    ASSUME Basics, CellInv, AnswerInv, RowsFillTheirSlots, OwnOutputs, [Next]_vars
    PROVE  OwnOutputs'
<1> DEFINE Narrow == \A o \in Outputs : OutWidth(o) = 1
<1>1. SameRank /\ Narrow => \A c \in Calls : call[c] = "ok" => OwnAnswer(c)
  BY Zenon DEF OwnOutputs, OwnAnswer
<1>2. /\ call = [c \in Calls |-> call[c]] /\ request = [c \in Calls |-> request[c]]
      /\ reply = [c \in Calls |-> reply[c]]
  BY DEF Basics, CallInv
<1>3. ASSUME model' = model,
             \A c \in Calls : SameRank /\ Narrow /\ call'[c] = "ok" => OwnAnswer(c)'
      PROVE  OwnOutputs'
  <2>1. SameRank' = SameRank /\ Narrow' = Narrow
    BY <1>3 DEF SameRank, Inputs, ConfigDims, Outputs, OutWidth
  <2> HIDE DEF Narrow
  <2>2. SameRank' /\ Narrow' => \A c \in Calls : call'[c] = "ok" => OwnAnswer(c)'
    BY <1>3, <2>1, Zenon
  <2> USE DEF Narrow
  <2> QED  BY <2>2, Zenon DEF OwnOutputs, OwnAnswer
<1>4. ASSUME model' = model, NEW c \in Calls, call'[c] = "ok" => call[c] = "ok",
             call[c] = "ok" => reply'[c] = reply[c] /\ request'[c] = request[c]
      PROVE  SameRank /\ Narrow /\ call'[c] = "ok" => OwnAnswer(c)'
  BY <1>1, <1>4, OwnAnswerFrame
<1>5. CASE UNCHANGED <<model, call, request, reply>>
  BY <1>3, <1>4, <1>5
<1>6. ASSUME NEW c \in Calls, ModelInfer(c) PROVE OwnOutputs'
  <2>1. PICK req \in Requests(MetaOf(model)) :
            /\ request' = [request EXCEPT ![c] = req]
            /\ Refused(c, req) \/ (IsValid(req) /\ Inserted(c, req))
    BY <1>6, ModelInferFacts
  <2>2. model' = model /\ call[c] = "new" /\ reply' = reply
    BY <1>6, ModelInferFacts
  <2>3. call'[c] # "ok"
    BY <1>2, <2>1, <2>2 DEF Refused, Inserted, Received, Overran, Uncopied
  <2>4. \A d \in Calls \ {c} : call'[d] = call[d] /\ request'[d] = request[d]
    BY <1>2, <2>1 DEF Refused, Inserted, Received, Overran, Uncopied
  <2> QED  BY <1>3, <1>4, <2>2, <2>3, <2>4
<1>7. ASSUME NEW c \in Calls, GetData(c) PROVE OwnOutputs'
  <2>1. UNCHANGED <<model, request>> /\ call[c] = "waiting"
    BY <1>7, AnswerFrame
  <2>2. CASE /\ call' = [call EXCEPT ![c] = "ok"]
             /\ reply' = [reply EXCEPT ![c] = [o \in Outputs |-> ResponseTensor(c, o)]]
             /\ \A k \in DOMAIN resv[c] : cell[resv[c][k].batch].status = "ok"
    <3>1. ASSUME SameRank, Narrow PROVE OwnAnswer(c)'
      <4>1. reply'[c] = [o \in Outputs |-> ResponseTensor(c, o)]
        BY <1>2, <2>2, Zenon
      <4>2. ASSUME NEW o \in Outputs
            PROVE  /\ reply'[c][o].name = model.outputs[o].name
                   /\ reply'[c][o].data = OwnElements(c, o)
        <5>1. reply'[c][o] = ResponseTensor(c, o)
          BY <4>1, Zenon
        <5>2. ResponseTensor(c, o).data = OwnElements(c, o)
          BY <2>1, <2>2, <3>1, AnswerData
        <5>3. ResponseTensor(c, o).name = model.outputs[o].name
          <6>1. ResponseTensor(c, o).name = OutputMeta[o].name
            BY DEF ResponseTensor
          <6>2. OutputMeta[o].name = model.outputs[o].name
            BY DEF OutputMeta, Published
          <6> QED  BY <6>1, <6>2
        <5> QED  BY <5>1, <5>2, <5>3, Zenon
      <4>3. \A o : OwnElements(c, o)' = OwnElements(c, o)
        BY <2>1 DEF OwnElements, RowsOf, OutWidth, Inputs, OwnRow, Width
      <4>4. model' = model /\ Outputs' = Outputs
        BY <2>1, ModelFrame
      <4> QED  BY <4>2, <4>3, <4>4, Zenon DEF OwnAnswer
    <3>2. \A d \in Calls \ {c} : call'[d] = call[d] /\ reply'[d] = reply[d]
      BY <1>2, <2>2
    <3> QED  BY <1>3, <1>4, <2>1, <3>1, <3>2
  <2>3. CASE call' = [call EXCEPT ![c] = "error"] /\ reply' = reply
    <3>1. \A d \in Calls : call'[d] = "ok" => call[d] = "ok"
      BY <1>2, <2>3
    <3> QED  BY <1>3, <1>4, <2>1, <2>3, <3>1
  <2> QED  BY <1>7, <2>2, <2>3, AnswerFrame
<1>8. LoadModel => UNCHANGED <<model, call, request, reply>>
  BY LoadFacts DEF Basics
<1>9. UNCHANGED vars => UNCHANGED <<model, call, request, reply>>
  BY DEF vars, requestVars
<1> QED  BY <1>5, <1>6, <1>7, <1>8, <1>9, SessionFrame DEF Next

(***************************************************************************)
(* The data of an answer is what the graph computes from the caller's own  *)
(* rows: what went into the slots (RowsFillTheirSlots) is what the batch   *)
(* was run on (PublishedOutputsAreFinal), and get_data joins the slices in *)
(* the order of the rows.                                                  *)
(***************************************************************************)
THEOREM AnswersAreOwn == Spec => []OwnOutputs
<1>1. Init => OwnOutputs
  <2> SUFFICES ASSUME Init PROVE OwnOutputs
    OBVIOUS
  <2>1. call = [c \in Calls |-> "new"]
    BY DEF Init
  <2> QED  BY <2>1 DEF OwnOutputs
<1>2. InferInv /\ RowsFillTheirSlots /\ OwnOutputs /\ [Next]_vars => OwnOutputs'
  BY NextAnswers DEF InferInv
<1> QED  BY <1>1, <1>2, InferInvariant, RowsAreInTheirSlots, PTL DEF Spec
=============================================================================
