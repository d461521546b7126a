------------------------------ MODULE TraceHeap ------------------------------
(***************************************************************************)
(* LocalHeap (pkg/util/collection/pool/local_heap.go) through the life of  *)
(* a trace file: columns are filled by Put, the file is written with       *)
(* MarshalBinaryV3, read back with UnmarshalBinaryV3, and trace            *)
(* propagation clones the heap before it stores more words                 *)
(* (pkg/asm/propagate.go), keeping columns whose indices point into the    *)
(* heap that was cloned.  The bytes of a heap that was read are a slice of *)
(* the file's buffer, and so is the 8-bit column that follows it there.    *)
(***************************************************************************)
EXTENDS HeapPool, FiniteSetTheorems, SequenceTheorems

CONSTANTS
    ByteBase,   \* values of a byte: 256
    Narrow,     \* the 8-bit column of the trace
    MaxCells    \* bound: cells of the wide column

ByteBaseAssumption == ByteBase \in Nat \ {0, 1}

NarrowAssumption == Narrow \in Seq(Nat)

(* alloc panics for a word of more than math.MaxUint16 bytes.              *)
WidthAssumption == \A w \in Words : Len(w) < ByteBase * ByteBase

VARIABLES
    h,       \* the heap of the trace in memory
    cells,   \* the wide column (PoolArray): an index per row
    narrow,  \* the 8-bit column (SmallArray)
    room,    \* bytes of the file's buffer behind the heap's slice, or -1
             \* when the heap has an array of its own
    file,    \* the trace file, or NoFile
    want     \* history: the words the wide column was given

vars == <<h, cells, narrow, room, file, want>>

NoFile == [heap |-> <<>>]
Owned == -1

-----------------------------------------------------------------------------
(* LocalHeap                                                               *)

(* The index Put(word) returns.                                            *)
PutIndex(x, w) ==
    IF Matches(x, w) = {} THEN Len(x.heap) ELSE CHOOSE a \in Matches(x, w) : TRUE

(* The heap after Put(word).                                               *)
PutHeap(x, w) ==
    IF Matches(x, w) # {} THEN x
    ELSE RehashIfOverloaded(AppendBucket(Alloc(x, w), BucketOf(w, x.n), Len(x.heap)))

(* The sizes of the table that numOfBuckets tries.                         *)
TableSize[k \in Nat] == IF k = 0 THEN InitBuckets ELSE 3 * TableSize[k - 1]

(* numOfBuckets(count): the limit it compares with is the initial number   *)
(* of buckets.                                                             *)
NumOfBuckets(count) ==
    LET Enough(k) == Load(count, TableSize[k]) <= InitBuckets
        k == CHOOSE k \in 0 .. count * Percent :
               Enough(k) /\ \A j \in 0 .. k - 1 : ~Enough(j)
    IN  TableSize[k]

(* reconstruct(): count and buckets from the bytes and the lengths.        *)
Reconstruct(bytes, lengths) ==
    LET chunks == {a \in 0 .. Len(lengths) - 1 : a = 0 \/ lengths[a + 1] # 0}
        n == NumOfBuckets(Cardinality(chunks))
        x == [heap |-> bytes, lengths |-> lengths, n |-> n,
              count |-> Cardinality(chunks), buckets |-> [b \in 0 .. n - 1 |-> {}]]
    IN  [x EXCEPT !.buckets = Distribute(x, chunks, n)]

(* A length as two bytes, most significant first.                          *)
EncodeLength(l) == <<l \div ByteBase, l % ByteBase>>
DecodeLength(msb, lsb) == msb * ByteBase + lsb

(* MarshalBinaryV3: the number of bytes, the lengths, the bytes.           *)
Marshal(x) ==
    <<Len(x.heap)>>
      \o [i \in 1 .. 2 * Len(x.lengths) |->
            EncodeLength(x.lengths[(i + 1) \div 2])[IF i % 2 = 1 THEN 1 ELSE 2]]
      \o x.heap

(* UnmarshalBinaryV3 of what follows the number of bytes.                  *)
Unmarshal(data) ==
    LET n == data[1] IN
    Reconstruct(SubSeq(data, 2 * n + 2, 3 * n + 1),
                [i \in 1 .. n |-> DecodeLength(data[2 * i], data[2 * i + 1])])

-----------------------------------------------------------------------------
(* PoolArray.Set: alloc appends to the slice.  While the slice is part of  *)
(* the file's buffer and the buffer has room, append writes in place, over *)
(* the bytes of the 8-bit column; when the room runs out within the word,  *)
(* the zeros appended before the slice moves stay behind.                  *)
Overwrite(w) ==
    LET first == Len(Narrow) - room IN
    [i \in 1 .. Len(Narrow) |->
        IF i \in first + 1 .. first + Len(w)
          THEN IF Len(w) <= room THEN w[i - first] ELSE 0
          ELSE narrow[i]]

Set(w) ==
    /\ Len(cells) < MaxCells
    /\ h' = PutHeap(h, w)
    /\ cells' = Append(cells, PutIndex(h, w))
    /\ want' = Append(want, w)
    /\ IF Matches(h, w) = {} /\ room # Owned
         THEN /\ narrow' = Overwrite(w)
              /\ room' = IF Len(w) <= room THEN room - Len(w) ELSE Owned
         ELSE UNCHANGED <<narrow, room>>
    /\ UNCHANGED file

(* Filling a trace that was built in memory (FromRawTrace) or whose heap   *)
(* Propagate has cloned.                                                   *)
Fill == room = Owned /\ \E w \in Words : Set(w)

(* ToBytes                                                                 *)
ToBytes ==
    /\ file' = [heap |-> Marshal(h), cells |-> cells, narrow |-> narrow]
    /\ UNCHANGED <<h, cells, narrow, room, want>>

(* FromBytes: the program starts again from the file.                      *)
FromBytes ==
    /\ file # NoFile
    /\ h' = Unmarshal(file.heap)
    /\ cells' = file.cells
    /\ narrow' = file.narrow
    /\ room' = Len(file.narrow)
    /\ want' = SubSeq(want, 1, Len(file.cells))
    /\ UNCHANGED file

(* Faulty Propagate: the clone shares the bytes of the heap it copies.     *)
PropagateShallow ==
    /\ \E w \in Words : Set(w)

(* Propagate: Clone() copies the bytes into an array of their own.         *)
Propagate ==
    /\ room' = Owned
    /\ UNCHANGED <<h, cells, narrow, file, want>>

Next == Fill \/ ToBytes \/ FromBytes \/ Propagate

Init ==
    /\ h = NewHeap
    /\ cells = <<>> /\ want = <<>>
    /\ narrow = Narrow
    /\ room = Owned
    /\ file = NoFile

Spec == Init /\ [][Next]_vars

-----------------------------------------------------------------------------
(* The heap and the columns are well formed and every index of a column    *)
(* lies in the heap.                                                       *)
TypeOK ==
    /\ Len(h.heap) = Len(h.lengths)
    /\ DOMAIN h.buckets = 0 .. h.n - 1
    /\ cells \in Seq(0 .. Len(h.heap) - 1)
    /\ room \in Owned .. Len(Narrow)
    /\ Len(narrow) = Len(Narrow)
    /\ Len(want) = Len(cells)

(* Whatever mixture of writing, reading and propagating a trace has gone   *)
(* through, each cell of a column still reads as the word it was given.    *)
CellsPreserved == \A i \in 1 .. Len(cells) : InnerGet(h, cells[i]) = want[i]

(* The heap stays canonical across files: equal words share one index, so  *)
(* a heap that was read back finds every word it already holds.            *)
OneIndexPerWord ==
    /\ \A i, j \in 1 .. Len(cells) : want[i] = want[j] => cells[i] = cells[j]
    /\ \A a \in Stored(h) : Matches(h, InnerGet(h, a)) = {a}
    /\ h.count = Cardinality(Stored(h))

(* Storing words never disturbs the 8-bit column, though the heap that is  *)
(* read from a file shares the file's buffer with it.                      *)
NarrowIntact == narrow = Narrow

HeapKept == CellsPreserved /\ OneIndexPerWord /\ NarrowIntact

(* "HEAP_POOL_LOADING determines the loading point, overwhich rehashing    *)
(* will occur": no heap is ever loaded beyond it.                          *)
WithinLoading == ~Overloaded(h.count, h.n)
-----------------------------------------------------------------------------
(* The proof.  First the size of a table that is reconstructed: induction  *)
(* takes the form of a least counterexample.                               *)

(* A set of natural numbers has a least element.                           *)
LEMMA Least ==
  ASSUME NEW T \in SUBSET Nat, T # {}
  PROVE  \E x \in T : \A y \in T : x <= y
  <1>1. IsWellFoundedOn({p \in Nat \X Nat : p[1] < p[2]}, Nat)
    BY NatLessThanWellFounded DEF OpToRel
  <1>2. PICK x \in T : \A y \in T : ~(<<y, x>> \in {p \in Nat \X Nat : p[1] < p[2]})
    BY <1>1, WFMin, Zenon
  <1>3. \A y \in T : ~(y < x)
    BY <1>2
  <1> QED
    BY <1>3

(* The first sizes of the table, up to number n.                           *)
Sizes(n) ==
    {g \in [0 .. n -> Nat] :
        \A k \in 0 .. n : g[k] = IF k = 0 THEN InitBuckets ELSE 3 * g[k - 1]}

(* The loop of numOfBuckets computes the next size from the one before.    *)
LEMMA SizesExist == \A n \in Nat : Sizes(n) # {}
  <1> DEFINE T == {n \in Nat : Sizes(n) = {}}
  <1> SUFFICES ASSUME T # {} PROVE FALSE
    OBVIOUS
  <1>1. PICK n \in T : \A m \in T : n <= m
    BY Least
  <1>2. CASE n = 0
    <2>1. [k \in 0 .. 0 |-> InitBuckets] \in Sizes(0)
      BY BucketsAssumption DEF Sizes
    <2> QED
      BY <1>1, <1>2, <2>1
  <1>3. CASE n # 0
    <2>1. n - 1 \in Nat /\ n \in Nat
      BY <1>1, <1>3
    <2>2. n - 1 \notin T
      BY <1>1, <2>1
    <2>3. PICK g : g \in Sizes(n - 1)
      BY <2>1, <2>2
    <2> DEFINE f == [k \in 0 .. n |-> IF k = n THEN 3 * g[n - 1] ELSE g[k]]
    <2>4. g \in [0 .. n - 1 -> Nat] /\ g[n - 1] \in Nat
      BY <2>1, <2>3 DEF Sizes
    <2>5. f \in [0 .. n -> Nat]
      BY <2>1, <2>4
    <2>6. ASSUME NEW k \in 0 .. n
          PROVE  f[k] = IF k = 0 THEN InitBuckets ELSE 3 * f[k - 1]
      <3>1. CASE k = n
        BY <2>1, <3>1, <1>3
      <3>2. CASE k # n
        <4>1. k \in 0 .. n - 1 /\ f[k] = g[k]
          BY <2>1, <3>2
        <4>2. k # 0 => k - 1 \in 0 .. n /\ f[k - 1] = g[k - 1]
          BY <4>1, <2>1
        <4>3. g[k] = IF k = 0 THEN InitBuckets ELSE 3 * g[k - 1]
          BY <4>1, <2>3 DEF Sizes
        <4> HIDE DEF f
        <4> QED
          BY <4>1, <4>2, <4>3
      <3> QED
        BY <3>1, <3>2
    <2> HIDE DEF f
    <2>7. f \in Sizes(n)
      BY <2>5, <2>6 DEF Sizes
    <2> QED
      BY <1>1, <2>7
  <1> QED
    BY <1>2, <1>3

(* There is only one such sequence of sizes.                               *)
LEMMA SizesAgree ==
  ASSUME NEW n \in Nat, NEW m \in Nat, NEW f \in Sizes(n), NEW g \in Sizes(m), NEW k \in Nat,
         k <= n, k <= m
  PROVE  f[k] = g[k]
  <1> DEFINE T == {j \in Nat : j <= n /\ j <= m /\ f[j] # g[j]}
  <1> SUFFICES ASSUME T # {} PROVE FALSE
    OBVIOUS
  <1>1. PICK j \in T : \A i \in T : j <= i
    BY Least
  <1>2. j \in 0 .. n /\ j \in 0 .. m
    BY <1>1
  <1>3. /\ f[j] = IF j = 0 THEN InitBuckets ELSE 3 * f[j - 1]
        /\ g[j] = IF j = 0 THEN InitBuckets ELSE 3 * g[j - 1]
    BY <1>2 DEF Sizes
  <1>4. j # 0
    BY <1>1, <1>3
  <1>5. j - 1 \in Nat /\ j - 1 <= n /\ j - 1 <= m /\ j - 1 \notin T
    BY <1>1, <1>2, <1>4
  <1>6. f[j - 1] = g[j - 1]
    BY <1>5
  <1> QED
    BY <1>1, <1>3, <1>6

(* The sizes that numOfBuckets tries are a function.                       *)
LEMMA TableSizeDef ==
  /\ TableSize \in [Nat -> Nat]
  /\ \A k \in Nat : TableSize[k] = IF k = 0 THEN InitBuckets ELSE 3 * TableSize[k - 1]
  <1> DEFINE F == [k \in Nat |-> (CHOOSE g \in Sizes(k) : TRUE)[k]]
             R(f) == [k \in Nat |-> IF k = 0 THEN InitBuckets ELSE 3 * f[k - 1]]
  <1>1. ASSUME NEW k \in Nat
        PROVE  F[k] \in Nat /\ F[k] = IF k = 0 THEN InitBuckets ELSE 3 * F[k - 1]
    <2>1. PICK g : g \in Sizes(k) /\ g = CHOOSE x \in Sizes(k) : TRUE
      BY SizesExist
    <2>2. F[k] = g[k] /\ k \in 0 .. k
      BY <2>1
    <2>3. g[k] \in Nat /\ g[k] = IF k = 0 THEN InitBuckets ELSE 3 * g[k - 1]
      BY <2>1, <2>2 DEF Sizes
    <2>4. ASSUME k # 0 PROVE F[k - 1] = g[k - 1]
      <3>1. k - 1 \in Nat /\ k - 1 <= k /\ k - 1 <= k - 1
        BY <2>4
      <3>2. PICK e : e \in Sizes(k - 1) /\ e = CHOOSE x \in Sizes(k - 1) : TRUE
        BY <3>1, SizesExist
      <3>3. F[k - 1] = e[k - 1]
        BY <3>1, <3>2
      <3>4. e[k - 1] = g[k - 1]
        BY <2>1, <3>1, <3>2, SizesAgree
      <3> QED
        BY <3>3, <3>4
    <2> HIDE DEF F
    <2> QED
      BY <2>2, <2>3, <2>4
  <1> HIDE DEF F
  <1>2. F = R(F)
    <2>1. F = [k \in Nat |-> F[k]]
      BY DEF F
    <2> QED
      BY <1>1, <2>1
  <1>3. TableSize = CHOOSE f : f = R(f)
    BY DEF TableSize
  <1> HIDE DEF R
  <1>4. TableSize = R(TableSize)
    BY <1>2, <1>3
  <1>5. \A k \in Nat : TableSize[k] = IF k = 0 THEN InitBuckets ELSE 3 * TableSize[k - 1]
    BY <1>4 DEF R
  <1> DEFINE T == {k \in Nat : TableSize[k] \notin Nat}
  <1>6. T = {}
    <2> SUFFICES ASSUME T # {} PROVE FALSE
      OBVIOUS
    <2>1. PICK k \in T : \A j \in T : k <= j
      BY Least
    <2>2. k # 0
      BY <1>5, <2>1, BucketsAssumption
    <2>3. k - 1 \in Nat /\ k - 1 \notin T
      BY <2>1, <2>2
    <2> QED
      BY <1>5, <2>1, <2>2, <2>3
  <1>7. DOMAIN TableSize = Nat /\ TableSize = [k \in Nat |-> TableSize[k]]
    BY <1>4 DEF R
  <1>8. TableSize \in [Nat -> Nat]
    BY <1>6, <1>7
  <1> QED
    BY <1>5, <1>8

(* The table grows without bound.                                          *)
LEMMA TableSizeGrows == \A k \in Nat : TableSize[k] > k
  <1> DEFINE T == {k \in Nat : TableSize[k] <= k}
  <1> SUFFICES ASSUME T # {} PROVE FALSE
    BY TableSizeDef
  <1>1. PICK k \in T : \A j \in T : k <= j
    BY Least
  <1>2. TableSize[0] = InitBuckets /\ k # 0
    BY <1>1, TableSizeDef, BucketsAssumption
  <1>3. k - 1 \in Nat /\ k - 1 \notin T
    BY <1>1, <1>2
  <1>4. TableSize[k] = 3 * TableSize[k - 1] /\ TableSize[k - 1] \in Nat
    BY <1>1, <1>2, <1>3, TableSizeDef
  <1> QED
    BY <1>1, <1>3, <1>4

(* numOfBuckets ends, with at least one bucket.                            *)
LEMMA SomeBuckets ==
  ASSUME NEW count \in Nat
  PROVE  NumOfBuckets(count) \in Nat \ {0}
  <1> DEFINE c == count * Percent
             Enough(k) == Load(count, TableSize[k]) <= InitBuckets
             T == {k \in 0 .. c : Enough(k)}
  <1>1. c \in Nat /\ Percent * count = c
    BY BucketsAssumption
  <1>2. TableSize[c] \in Nat /\ TableSize[c] > c
    BY <1>1, TableSizeDef, TableSizeGrows
  <1>3. \A x, y \in Nat : y > x => x \div y = 0
    OBVIOUS
  <1>4. Load(count, TableSize[c]) = 0
    BY <1>1, <1>2, <1>3 DEF Load
  <1>5. Enough(c)
    BY <1>4, BucketsAssumption
  <1> HIDE DEF Enough
  <1>a. c \in T
    <2>1. c \in 0 .. c
      BY <1>1
    <2> HIDE DEF c
    <2> QED
      BY <1>5, <2>1
  <1>b. T \in SUBSET Nat
    BY <1>1
  <1>6. PICK k \in T : \A j \in T : k <= j
    <2> HIDE DEF T
    <2> QED
      BY <1>a, <1>b, Least
  <1>7. k \in 0 .. c /\ Enough(k) /\ \A j \in 0 .. k - 1 : ~Enough(j)
    BY <1>1, <1>6
  <1> DEFINE s == CHOOSE k2 \in 0 .. c : Enough(k2) /\ \A j \in 0 .. k2 - 1 : ~Enough(j)
  <1>8. s \in 0 .. c
    BY <1>7
  <1>9. NumOfBuckets(count) = TableSize[s]
    BY DEF NumOfBuckets, Enough
  <1> QED
    BY <1>1, <1>8, <1>9, TableSizeDef, TableSizeGrows
-----------------------------------------------------------------------------
(* A heap as a trace has it: what the lengths mark are the chunks, and     *)
(* they are the addresses in the table.                                    *)

Chunks(lengths) == {a \in 0 .. Len(lengths) - 1 : a = 0 \/ lengths[a + 1] # 0}

Marked(x) ==
    /\ Len(x.lengths) > 0 /\ x.lengths[1] = 0
    /\ \A i \in 1 .. Len(x.lengths) : x.lengths[i] < ByteBase * ByteBase
    /\ Stored(x) = Chunks(x.lengths)
    /\ x.count = Cardinality(Stored(x))

Whole(x) == HeapType(x) /\ HeapInv(x) /\ Marked(x)

(* There are finitely many chunks, and the zero word is one.               *)
LEMMA ChunksFinite ==
  ASSUME NEW l \in Seq(Nat), Len(l) > 0
  PROVE  IsFiniteSet(Chunks(l)) /\ 0 \in Chunks(l) /\ Chunks(l) \subseteq 0 .. Len(l) - 1
  <1>1. Chunks(l) \subseteq 0 .. Len(l) - 1 /\ 0 \in Chunks(l)
    BY DEF Chunks
  <1>2. IsFiniteSet(0 .. Len(l) - 1)
    BY FS_Interval
  <1> QED
    BY <1>1, <1>2, FS_Subset

(* A lookup finds the one chunk of a stored word.                          *)
LEMMA MatchesStored ==
  ASSUME NEW x, HeapType(x), HeapInv(x), NEW a \in Stored(x)
  PROVE  Matches(x, InnerGet(x, a)) = {a}
  <1>1. PICK b \in 0 .. x.n - 1 : a \in x.buckets[b]
    BY StoredDef
  <1>2. ValidChunk(x, a) /\ BucketOf(InnerGet(x, a), x.n) = b
    BY <1>1 DEF HeapInv
  <1>3. \A c \in x.buckets[b] : c \in Stored(x)
    BY StoredDef
  <1>4. \A c \in x.buckets[b] : InnerGet(x, c) = InnerGet(x, a) => c = a
    BY <1>3 DEF HeapInv
  <1> QED
    BY <1>1, <1>2, <1>4 DEF Matches

(* What a lookup finds is stored.                                          *)
LEMMA MatchesFound ==
  ASSUME NEW x, HeapType(x), NEW w \in Words, NEW a \in Matches(x, w)
  PROVE  a \in Stored(x) /\ InnerGet(x, a) = w
  <1>1. BucketOf(w, x.n) \in 0 .. x.n - 1
    BY BucketRange DEF HeapType
  <1> QED
    BY <1>1, StoredDef DEF Matches

(* A chunk without bytes is the zero word.                                 *)
LEMMA ZeroWord ==
  ASSUME NEW x, Whole(x)
  PROVE  0 \in Stored(x) /\ InnerGet(x, 0) = <<>>
  <1>1. x.lengths \in Seq(Nat) /\ x.lengths[0 + 1] = 0
    BY DEF Whole, HeapType, Marked
  <1>2. 0 \in Stored(x)
    BY <1>1, ChunksFinite DEF Whole, Marked
  <1>3. InnerGet(x, 0) = [i \in 1 .. 0 |-> x.heap[0 + i]]
    BY <1>1 DEF InnerGet
  <1> QED
    BY <1>2, <1>3

(* The lengths of a heap after alloc mark one chunk more.                  *)
LEMMA AllocMarks ==
  ASSUME NEW l \in Seq(Nat), Len(l) > 0, NEW n \in Nat \ {0},
         NEW ls \in Seq(Nat), Len(ls) = n, \A i \in 1 .. n : ls[i] = IF i = 1 THEN n ELSE 0
  PROVE  /\ l \o ls \in Seq(Nat) /\ Len(l \o ls) = Len(l) + n
         /\ \A i \in 1 .. Len(l) : (l \o ls)[i] = l[i]
         /\ \A i \in Len(l) + 1 .. Len(l) + n :
              (l \o ls)[i] = IF i = Len(l) + 1 THEN n ELSE 0
         /\ Chunks(l \o ls) = Chunks(l) \cup {Len(l)}
  <1> DEFINE m == l \o ls
  <1>2. /\ m \in Seq(Nat) /\ Len(m) = Len(l) + n /\ Len(l) \in Nat
        /\ \A i \in 1 .. Len(l) : m[i] = l[i]
        /\ \A i \in 1 .. n : m[Len(l) + i] = ls[i]
    BY Concat
  <1> HIDE DEF m
  <1>3. ASSUME NEW i \in Len(l) + 1 .. Len(l) + n
        PROVE  m[i] = IF i = Len(l) + 1 THEN n ELSE 0
    <2>1. i - Len(l) \in 1 .. n /\ i = Len(l) + (i - Len(l))
      BY <1>2
    <2>2. m[i] = ls[i - Len(l)]
      BY <1>2, <2>1
    <2> QED
      BY <1>2, <2>1, <2>2
  <1>4. ASSUME NEW a \in Nat
        PROVE  a \in Chunks(m) <=> a \in Chunks(l) \/ a = Len(l)
    <2>1. CASE a < Len(l)
      <3>1. a + 1 \in 1 .. Len(l) /\ a \in 0 .. Len(l) - 1 /\ a \in 0 .. Len(m) - 1
        BY <1>2, <2>1
      <3>2. /\ a \in Chunks(m) <=> a = 0 \/ m[a + 1] # 0
            /\ a \in Chunks(l) <=> a = 0 \/ l[a + 1] # 0
        BY <3>1 DEF Chunks
      <3>3. m[a + 1] = l[a + 1] /\ a # Len(l)
        BY <1>2, <2>1, <3>1
      <3> QED
        BY <3>2, <3>3
    <2>2. CASE a >= Len(l) /\ a < Len(l) + n
      <3>1. a + 1 \in Len(l) + 1 .. Len(l) + n /\ a \notin 0 .. Len(l) - 1
            /\ a \in 0 .. Len(m) - 1 /\ a # 0
        BY <1>2, <2>2
      <3>2. m[a + 1] = IF a + 1 = Len(l) + 1 THEN n ELSE 0
        BY <1>3, <3>1
      <3> QED
        BY <1>2, <3>1, <3>2 DEF Chunks
    <2>3. CASE a >= Len(l) + n
      BY <1>2, <2>3 DEF Chunks
    <2> QED
      BY <1>2, <2>1, <2>2, <2>3
  <1>5. Chunks(m) = Chunks(l) \cup {Len(l)}
    <2>1. Chunks(m) \subseteq Nat /\ Chunks(l) \cup {Len(l)} \subseteq Nat
      BY <1>2 DEF Chunks
    <2> QED
      BY <1>4, <2>1
  <1> QED
    BY <1>2, <1>3, <1>5 DEF m

(* Put of a word that is not there.                                        *)
LEMMA PutStores ==
  ASSUME WidthAssumption, NEW x, Whole(x), NEW w \in Words, Matches(x, w) = {}
  PROVE  LET y == PutHeap(x, w) IN
         /\ Whole(y)
         /\ \A a \in Stored(x) : a \in Stored(y) /\ InnerGet(y, a) = InnerGet(x, a)
         /\ Len(x.heap) \in Stored(y) /\ InnerGet(y, Len(x.heap)) = w
  <1> DEFINE e == Len(x.heap)
             y1 == Alloc(x, w)
             y2 == AppendBucket(y1, BucketOf(w, x.n), e)
             y == PutHeap(x, w)
  <1>1. HeapType(x) /\ HeapInv(x) /\ Marked(x)
    BY DEF Whole
  <1>2. \A a \in Stored(x) : InnerGet(x, a) # w
    BY <1>1, MatchesStored
  <1>3. w # <<>>
    BY <1>2, ZeroWord
  <1>4. w \in Seq(Nat) /\ Len(w) \in Nat \ {0} /\ Len(w) < ByteBase * ByteBase
    BY <1>3, WordsAssumption DEF WidthAssumption
  <1>5. HeapType(y1) /\ y1.n = x.n /\ y1.buckets = x.buckets
    BY <1>1, AllocType
  <1>6. ValidChunk(y1, e) /\ InnerGet(y1, e) = w
    BY <1>1, <1>3, AllocStores
  <1>7. Stored(y1) = Stored(x)
    BY <1>5 DEF Stored
  <1>8. \A a \in Stored(x) : ValidChunk(x, a)
    BY <1>1, StoredDef DEF HeapInv
  <1>9. \A a \in Stored(x) : InnerGet(y1, a) = InnerGet(x, a) /\ ValidChunk(y1, a)
    BY <1>1, <1>8, AllocKeeps
  <1>10. /\ y1.lengths = x.lengths \o [i \in 1 .. Len(w) |-> IF i = 1 THEN Len(w) ELSE 0]
         /\ y1.count = x.count + 1
    BY <1>1 DEF Alloc, HeapType
  <1>11. x.lengths \in Seq(Nat) /\ Len(x.lengths) > 0 /\ e = Len(x.lengths) /\ e \in Nat
    BY <1>1 DEF HeapType, Marked
  <1>12. /\ Len(y1.lengths) = e + Len(w)
         /\ \A i \in 1 .. e : y1.lengths[i] = x.lengths[i]
         /\ \A i \in e + 1 .. e + Len(w) : y1.lengths[i] = IF i = e + 1 THEN Len(w) ELSE 0
         /\ Chunks(y1.lengths) = Chunks(x.lengths) \cup {e}
    <2> DEFINE l == x.lengths
               n == Len(w)
               ls == [i \in 1 .. n |-> IF i = 1 THEN n ELSE 0]
               m == l \o ls
    <2>1. l \in Seq(Nat) /\ Len(l) > 0 /\ n \in Nat \ {0}
      BY <1>4, <1>11
    <2>2. y1.lengths = m /\ e = Len(l)
      BY <1>10, <1>11
    <2>3. ls \in Seq(Nat) /\ Len(ls) = n /\ \A i \in 1 .. n : ls[i] = IF i = 1 THEN n ELSE 0
      BY <2>1
    <2> HIDE DEF l, n, ls, y1, e
    <2>4. /\ Len(l \o ls) = Len(l) + n
          /\ \A i \in 1 .. Len(l) : (l \o ls)[i] = l[i]
          /\ \A i \in Len(l) + 1 .. Len(l) + n :
               (l \o ls)[i] = IF i = Len(l) + 1 THEN n ELSE 0
          /\ Chunks(l \o ls) = Chunks(l) \cup {Len(l)}
      BY ONLY <2>1, <2>3, AllocMarks
    <2>5. /\ Len(y1.lengths) = e + n
          /\ \A i \in 1 .. e : y1.lengths[i] = l[i]
          /\ \A i \in e + 1 .. e + n : y1.lengths[i] = IF i = e + 1 THEN n ELSE 0
          /\ Chunks(y1.lengths) = Chunks(l) \cup {e}
      BY <2>2, <2>4
    <2> QED
      BY <2>5 DEF n, l
  <1> HIDE DEF y1
  <1>13. HeapInv(y1)
    <2>1. ASSUME NEW b \in 0 .. y1.n - 1, NEW a \in y1.buckets[b]
          PROVE  ValidChunk(y1, a) /\ BucketOf(InnerGet(y1, a), y1.n) = b
      <3>1. a \in Stored(x) /\ BucketOf(InnerGet(x, a), x.n) = b
        BY <1>1, <1>5, <2>1, StoredDef DEF HeapInv
      <3> QED
        BY <1>5, <1>9, <3>1
    <2>2. \A a, b \in Stored(y1) : InnerGet(y1, a) = InnerGet(y1, b) => a = b
      BY <1>1, <1>7, <1>9 DEF HeapInv
    <2> QED
      BY <2>1, <2>2 DEF HeapInv
  <1>14. \A c \in Stored(y1) : InnerGet(y1, c) # InnerGet(y1, e)
    BY <1>2, <1>6, <1>7, <1>9
  <1>15. /\ HeapType(y2) /\ HeapInv(y2)
         /\ y2.heap = y1.heap /\ y2.lengths = y1.lengths
         /\ Stored(y2) = Stored(y1) \cup {e}
    BY <1>5, <1>6, <1>13, <1>14, AppendInv
  <1>16. y2.count = y1.count
    BY <1>5 DEF AppendBucket, HeapType
  <1> HIDE DEF y2
  <1> DEFINE z == RehashIfOverloaded(y2)
  <1>17. /\ HeapType(z) /\ HeapInv(z)
         /\ z.heap = y2.heap /\ z.lengths = y2.lengths /\ Stored(z) = Stored(y2)
    BY <1>15, RehashInv
  <1>18. z.count = y2.count
    BY <1>15 DEF RehashIfOverloaded, Rehash, HeapType
  <1>19. y = z
    BY DEF PutHeap, y1, y2
  <1> HIDE DEF y, z
  <1>20. Stored(y) = Stored(x) \cup {e}
    BY <1>7, <1>15, <1>17, <1>19
  <1>21. y.count = Cardinality(Stored(y))
    <2>1. Stored(x) = Chunks(x.lengths) /\ x.count = Cardinality(Stored(x))
      BY <1>1 DEF Marked
    <2>2. IsFiniteSet(Stored(x)) /\ e \notin Stored(x)
      BY <1>11, <2>1, ChunksFinite
    <2>3. Cardinality(Stored(x) \cup {e}) = Cardinality(Stored(x)) + 1
      BY <2>2, FS_AddElement
    <2> QED
      BY <1>10, <1>16, <1>18, <1>19, <1>20, <2>1, <2>3
  <1>22. Marked(y)
    <2>1. y.lengths = y1.lengths
      BY <1>15, <1>17, <1>19
    <2>2. ASSUME NEW i \in 1 .. e + Len(w) PROVE y1.lengths[i] < ByteBase * ByteBase
      <3>1. CASE i \in 1 .. e
        BY <1>1, <1>11, <1>12, <3>1 DEF Marked
      <3>2. CASE i \in e + 1 .. e + Len(w)
        <4>1. y1.lengths[i] = Len(w) \/ y1.lengths[i] = 0
          BY <1>12, <3>2
        <4>2. 0 < ByteBase * ByteBase
          <5>1. x.lengths[1] = 0 /\ 1 \in 1 .. Len(x.lengths)
            BY <1>1, <1>11 DEF Marked
          <5> QED
            BY <1>1, <5>1 DEF Marked
        <4> QED
          BY <1>4, <4>1, <4>2
      <3> QED
        BY <1>4, <1>11, <3>1, <3>2
    <2>3. Stored(y) = Chunks(y.lengths)
      BY <1>1, <1>12, <1>20, <2>1 DEF Marked
    <2>4. Len(y.lengths) > 0 /\ y.lengths[1] = 0
      <3>1. 1 \in 1 .. e /\ x.lengths[1] = 0
        BY <1>1, <1>11 DEF Marked
      <3> QED
        BY <1>4, <1>11, <1>12, <2>1, <3>1
    <2>5. \A i \in 1 .. Len(y.lengths) : y.lengths[i] < ByteBase * ByteBase
      BY <1>12, <2>1, <2>2
    <2> QED
      BY <1>21, <2>3, <2>4, <2>5 DEF Marked
  <1>23. \A a : InnerGet(y, a) = InnerGet(y1, a)
    BY <1>15, <1>17, <1>19 DEF InnerGet
  <1> QED
    BY <1>6, <1>9, <1>17, <1>19, <1>20, <1>22, <1>23 DEF Whole, y
-----------------------------------------------------------------------------
(* Writing and reading.                                                    *)

(* reconstruct() finds the chunks that were stored, and a table in which   *)
(* every word is found again.                                              *)
LEMMA ReconstructWhole ==
  ASSUME NEW x, Whole(x)
  PROVE  LET y == Reconstruct(x.heap, x.lengths) IN
         /\ Whole(y) /\ y.heap = x.heap /\ y.lengths = x.lengths
         /\ Stored(y) = Stored(x)
  <1> DEFINE S == Chunks(x.lengths)
             n == NumOfBuckets(Cardinality(S))
             x0 == [heap |-> x.heap, lengths |-> x.lengths, n |-> n,
                    count |-> Cardinality(S), buckets |-> [b \in 0 .. n - 1 |-> {}]]
             y == Reconstruct(x.heap, x.lengths)
  <1>1. HeapType(x) /\ HeapInv(x) /\ Marked(x)
    BY DEF Whole
  <1>2. x.heap \in Seq(Nat) /\ x.lengths \in Seq(Nat) /\ Len(x.lengths) > 0
        /\ Len(x.heap) = Len(x.lengths)
    BY <1>1 DEF HeapType, Marked
  <1>3. S = Stored(x) /\ x.count = Cardinality(S)
    BY <1>1 DEF Marked
  <1>4. IsFiniteSet(S) /\ S \subseteq Nat
    BY <1>2, ChunksFinite
  <1>5. Cardinality(S) \in Nat
    BY <1>4, FS_CardinalityType
  <1>6. n \in Nat \ {0}
    BY <1>5, SomeBuckets
  <1>7. \A a : InnerGet(x0, a) = InnerGet(x, a)
    BY DEF InnerGet
  <1>8. /\ y.heap = x.heap /\ y.lengths = x.lengths /\ y.n = n /\ y.count = Cardinality(S)
        /\ DOMAIN y = {"heap", "lengths", "n", "buckets", "count"}
        /\ y.buckets = Distribute(x0, S, n)
    BY DEF Reconstruct, Chunks
  <1> HIDE DEF S, n, y, x0
  <1>9. \A b \in 0 .. n - 1 :
          y.buckets[b] = {a \in S : BucketOf(InnerGet(x, a), n) = b}
    BY <1>7, <1>8 DEF Distribute
  <1>10. y.buckets \in [0 .. y.n - 1 -> SUBSET Nat]
    BY <1>4, <1>8 DEF Distribute
  <1>11. HeapType(y)
    BY <1>2, <1>5, <1>6, <1>8, <1>10 DEF HeapType
  <1>12. \A a \in S : ValidChunk(x, a)
    BY <1>1, <1>3, StoredDef DEF HeapInv
  <1>13. \A a \in S : BucketOf(InnerGet(x, a), n) \in 0 .. n - 1
    BY <1>6, <1>12, BucketRange DEF ValidChunk
  <1>14. Stored(y) = S
    <2>1. \A a \in Stored(y) : a \in S
      BY <1>8, <1>9, StoredDef
    <2>2. \A a \in S : a \in Stored(y)
      BY <1>8, <1>9, <1>13, StoredDef
    <2> QED
      BY <2>1, <2>2
  <1>15. \A a : InnerGet(y, a) = InnerGet(x, a)
    BY <1>8 DEF InnerGet
  <1>16. \A a : ValidChunk(x, a) => ValidChunk(y, a)
    BY <1>8, <1>15 DEF ValidChunk
  <1>17. HeapInv(y)
    <2>1. \A b \in 0 .. y.n - 1 : \A a \in y.buckets[b] :
            ValidChunk(y, a) /\ BucketOf(InnerGet(y, a), y.n) = b
      BY <1>8, <1>9, <1>12, <1>15, <1>16
    <2>2. \A a, b \in Stored(y) : InnerGet(y, a) = InnerGet(y, b) => a = b
      BY <1>1, <1>3, <1>14, <1>15 DEF HeapInv
    <2> QED
      BY <2>1, <2>2 DEF HeapInv
  <1>18. Marked(y)
    <2>1. Stored(y) = Chunks(y.lengths) /\ y.count = Cardinality(Stored(y))
      BY <1>8, <1>14 DEF S
    <2> QED
      BY <1>1, <1>8, <2>1 DEF Marked
  <1> QED
    BY <1>3, <1>8, <1>11, <1>14, <1>17, <1>18 DEF Whole, y

(* Where the two bytes of a length are.                                    *)
LEMMA Halves ==
  \A i \in Nat \ {0} : /\ (2 * i - 1 + 1) \div 2 = i /\ (2 * i - 1) % 2 = 1
                       /\ (2 * i + 1) \div 2 = i /\ (2 * i) % 2 = 0
  OBVIOUS

(* The two bytes of a length give it back.                                 *)
LEMMA Division ==
  \A l \in Nat, b \in Nat \ {0} :
    l \div b \in Nat /\ l % b \in Nat /\ b * (l \div b) + (l % b) = l
  OBVIOUS

LEMMA TwoBytes ==
  ASSUME ByteBaseAssumption, NEW l \in Nat
  PROVE  /\ l \div ByteBase \in Nat /\ l % ByteBase \in Nat
         /\ DecodeLength(l \div ByteBase, l % ByteBase) = l
  <1> DEFINE q == l \div ByteBase
             r == l % ByteBase
  <1>1. ByteBase \in Nat \ {0}
    BY DEF ByteBaseAssumption
  <1>2. q \in Nat /\ r \in Nat /\ ByteBase * q + r = l
    BY <1>1, Division
  <1> HIDE DEF q, r
  <1>3. ByteBase * q = q * ByteBase
    BY <1>1, <1>2
  <1>4. DecodeLength(q, r) = l
    BY <1>2, <1>3 DEF DecodeLength
  <1> QED
    BY <1>2, <1>4 DEF q, r

(* The parts of a file: a number, the lengths, the bytes.                  *)
Sized(n, u, L, v) == Len(u) = 1 /\ u[1] = n /\ Len(L) = 2 * n /\ Len(v) = n

Laid(n, L, v, data) ==
    /\ data[1] = n
    /\ \A i \in 1 .. 2 * n : data[i + 1] = L[i]
    /\ SubSeq(data, 2 * n + 2, 3 * n + 1) = v

(* Each part is where UnmarshalBinaryV3 looks for it.                      *)
LEMMA Layout ==
  ASSUME NEW n \in Nat, NEW u \in Seq(Nat), NEW L \in Seq(Nat), NEW v \in Seq(Nat),
         Sized(n, u, L, v)
  PROVE  Laid(n, L, v, u \o L \o v)
  <1> DEFINE front == u \o L
             data == front \o v
  <1>1. Len(u) = 1 /\ u[1] = n /\ Len(L) = 2 * n /\ Len(v) = n
    BY DEF Sized
  <1>2. /\ front \in Seq(Nat) /\ Len(front) = Len(u) + Len(L)
        /\ \A i \in 1 .. Len(u) : front[i] = u[i]
        /\ \A i \in 1 .. Len(L) : front[Len(u) + i] = L[i]
    BY Concat
  <1> HIDE DEF front
  <1>3. /\ data \in Seq(Nat) /\ Len(data) = Len(front) + Len(v)
        /\ \A i \in 1 .. Len(front) : data[i] = front[i]
        /\ \A i \in 1 .. Len(v) : data[Len(front) + i] = v[i]
    BY <1>2, Concat
  <1> HIDE DEF data
  <1>4. Len(front) = 2 * n + 1 /\ Len(data) = 3 * n + 1
    BY <1>1, <1>2, <1>3
  <1>5. data[1] = n
    <2>1. 1 \in 1 .. Len(front) /\ 1 \in 1 .. Len(u)
      BY <1>1, <1>4
    <2> QED
      BY <1>1, <1>2, <1>3, <2>1
  <1>6. ASSUME NEW i \in 1 .. 2 * n PROVE data[i + 1] = L[i]
    <2>1. i + 1 \in 1 .. Len(front) /\ i \in 1 .. Len(L) /\ Len(u) + i = i + 1
      BY <1>1, <1>4
    <2> QED
      BY <1>1, <1>2, <1>3, <2>1
  <1> DEFINE p == 2 * n + 2
             q == 3 * n + 1
             s == SubSeq(data, p, q)
  <1>7. p \in Int /\ q \in Int /\ q - p + 1 = n /\ p .. q \subseteq 1 .. Len(data)
        /\ (p <= q \/ n = 0) /\ Len(front) = p - 1
    BY <1>4
  <1> HIDE DEF p, q
  <1>8. ASSUME NEW i \in p .. q PROVE data[i] \in Nat
    <2>1. i \in 1 .. Len(data)
      BY <1>1, <1>7
    <2> QED
      BY <1>3, <2>1
  <1>9. /\ s \in Seq(Nat) /\ Len(s) = IF p <= q THEN q - p + 1 ELSE 0
        /\ \A i \in 1 .. q - p + 1 : s[i] = data[p + i - 1]
    BY <1>7, <1>8, SubSeqProperties
  <1> HIDE DEF s
  <1>10. Len(s) = n
    BY <1>7, <1>9
  <1>11. ASSUME NEW i \in 1 .. n PROVE s[i] = v[i]
    <2>1. p + i - 1 = Len(front) + i /\ i \in 1 .. Len(v) /\ i \in 1 .. q - p + 1
      BY <1>1, <1>7
    <2> QED
      BY <1>3, <1>9, <2>1
  <1>12. s = v
    BY <1>1, <1>9, <1>10, <1>11
  <1> QED
    BY <1>5, <1>6, <1>12 DEF s, data, front, p, q, Laid

(* UnmarshalBinaryV3 reads what MarshalBinaryV3 wrote.                     *)
LEMMA ReadBack ==
  ASSUME ByteBaseAssumption, NEW x, Whole(x)
  PROVE  Unmarshal(Marshal(x)) = Reconstruct(x.heap, x.lengths)
  <1> DEFINE v == x.heap
             n == Len(v)
             l == x.lengths
             L == [i \in 1 .. 2 * Len(l) |->
                     EncodeLength(l[(i + 1) \div 2])[IF i % 2 = 1 THEN 1 ELSE 2]]
             data == Marshal(x)
  <1>1. v \in Seq(Nat) /\ l \in Seq(Nat) /\ n \in Nat /\ Len(l) = n
    BY DEF Whole, HeapType
  <1>2. data = <<n>> \o L \o v
    BY DEF Marshal
  <1>3. ASSUME NEW i \in 1 .. 2 * n
        PROVE  L[i] = EncodeLength(l[(i + 1) \div 2])[IF i % 2 = 1 THEN 1 ELSE 2]
    BY <1>1
  <1>4. L \in Seq(Nat) /\ Len(L) = 2 * n
    <2>1. ASSUME NEW i \in 1 .. 2 * n PROVE L[i] \in Nat
      <3>1. (i + 1) \div 2 \in 1 .. n
        BY <1>1
      <3>2. l[(i + 1) \div 2] \in Nat
        BY <1>1, <3>1
      <3> DEFINE e == EncodeLength(l[(i + 1) \div 2])
      <3>3. e[1] \in Nat /\ e[2] \in Nat
        BY <3>2, TwoBytes DEF EncodeLength
      <3>4. L[i] = e[IF i % 2 = 1 THEN 1 ELSE 2]
        BY <1>3
      <3> HIDE DEF e, L
      <3> QED
        BY <3>3, <3>4
    <2>2. L \in [1 .. 2 * n -> Nat]
      BY <1>1, <2>1
    <2>3. 2 * n \in Nat
      BY <1>1
    <2> HIDE DEF L, n
    <2> QED
      BY <2>2, <2>3
  <1>5. ASSUME NEW i \in 1 .. n
        PROVE  L[2 * i - 1] = l[i] \div ByteBase /\ L[2 * i] = l[i] % ByteBase
    <2>1. 2 * i - 1 \in 1 .. 2 * n /\ 2 * i \in 1 .. 2 * n /\ i \in Nat \ {0}
      BY <1>1
    <2>2. L[2 * i - 1] = EncodeLength(l[i])[1]
      BY <1>3, <2>1, Halves
    <2>3. L[2 * i] = EncodeLength(l[i])[2]
      BY <1>3, <2>1, Halves
    <2> QED
      BY <2>2, <2>3 DEF EncodeLength
  <1> HIDE DEF L, n, v
  <1>6. /\ data[1] = n
        /\ \A i \in 1 .. 2 * n : data[i + 1] = L[i]
        /\ SubSeq(data, 2 * n + 2, 3 * n + 1) = v
    <2> DEFINE u == <<n>>
    <2>1. Len(v) = n /\ u \in Seq(Nat) /\ Len(u) = 1 /\ u[1] = n
      BY <1>1 DEF n
    <2>2. data = u \o L \o v
      BY <1>2
    <2> HIDE DEF u, data
    <2>3. n \in Nat /\ L \in Seq(Nat) /\ v \in Seq(Nat) /\ Sized(n, u, L, v)
      BY <1>1, <1>4, <2>1 DEF Sized
    <2>4. Laid(n, L, v, u \o L \o v)
      BY <2>1, <2>3, Layout
    <2> QED
      BY <2>2, <2>4 DEF Laid
  <1> HIDE DEF data
  <1>7. ASSUME NEW i \in 1 .. n
        PROVE  DecodeLength(data[2 * i], data[2 * i + 1]) = l[i]
    <2>1. 2 * i - 1 \in 1 .. 2 * n /\ 2 * i \in 1 .. 2 * n /\ 2 * i - 1 + 1 = 2 * i
      BY <1>1
    <2>2. data[2 * i] = L[2 * i - 1] /\ data[2 * i + 1] = L[2 * i]
      BY <1>6, <2>1
    <2>3. data[2 * i] = l[i] \div ByteBase /\ data[2 * i + 1] = l[i] % ByteBase
      BY <1>5, <2>2
    <2>4. l[i] \in Nat
      BY <1>1
    <2> QED
      BY <2>3, <2>4, TwoBytes
  <1>8. [i \in 1 .. n |-> DecodeLength(data[2 * i], data[2 * i + 1])] = l
    <2>1. l = [i \in 1 .. n |-> l[i]]
      BY <1>1
    <2> QED
      BY <1>7, <2>1
  <1>9. Unmarshal(data) = Reconstruct(v, l)
    BY <1>6, <1>8 DEF Unmarshal
  <1> QED
    BY <1>9 DEF data, v
-----------------------------------------------------------------------------
(* The inductive invariant: the heap in memory, and the one in the file,   *)
(* are whole and hold the words of their cells.                            *)

Holds(x, cs, ws) ==
    /\ cs \in Seq(Nat) /\ Len(ws) = Len(cs)
    /\ \A i \in 1 .. Len(cs) : cs[i] \in Stored(x) /\ InnerGet(x, cs[i]) = ws[i]

FileOf(x) ==
    /\ Whole(x) /\ file.heap = Marshal(x)
    /\ Len(file.cells) <= Len(want)
    /\ Holds(x, file.cells, SubSeq(want, 1, Len(file.cells)))
    /\ file.narrow = Narrow

TraceInv ==
    /\ Whole(h) /\ want \in Seq(Words) /\ Holds(h, cells, want)
    /\ narrow = Narrow
    /\ room \in Owned .. Len(Narrow)
    /\ file # NoFile => \E x : FileOf(x)

(* What a prefix of the words is.                                          *)
LEMMA Prefix ==
  ASSUME NEW s \in Seq(Words), NEW n \in 0 .. Len(s)
  PROVE  /\ SubSeq(s, 1, n) \in Seq(Words) /\ Len(SubSeq(s, 1, n)) = n
         /\ \A i \in 1 .. n : SubSeq(s, 1, n)[i] = s[i]
  OBVIOUS

(* The words of a prefix stay when words are added.                        *)
LEMMA PrefixGrows ==
  ASSUME NEW s \in Seq(Words), NEW w \in Words, NEW n \in 0 .. Len(s)
  PROVE  SubSeq(Append(s, w), 1, n) = SubSeq(s, 1, n)
  <1> DEFINE t == Append(s, w)
  <1>1. t \in Seq(Words) /\ Len(t) = Len(s) + 1 /\ \A i \in 1 .. Len(s) : t[i] = s[i]
    OBVIOUS
  <1> HIDE DEF t
  <1>2. n \in 0 .. Len(t)
    BY <1>1
  <1> DEFINE a == SubSeq(t, 1, n)
             b == SubSeq(s, 1, n)
  <1>3. a \in Seq(Words) /\ Len(a) = n /\ \A i \in 1 .. n : a[i] = t[i]
    BY <1>1, <1>2, Prefix
  <1>4. b \in Seq(Words) /\ Len(b) = n /\ \A i \in 1 .. n : b[i] = s[i]
    BY Prefix
  <1> HIDE DEF a, b
  <1>5. \A i \in 1 .. n : a[i] = b[i]
    BY <1>1, <1>3, <1>4
  <1>6. a = b
    BY <1>3, <1>4, <1>5
  <1> QED
    BY <1>6 DEF a, b, t

(* Cells that held their words hold them in every heap that keeps them.    *)
LEMMA HoldsOn ==
  ASSUME NEW x, NEW y, NEW cs, NEW ws, Holds(x, cs, ws),
         \A a \in Stored(x) : a \in Stored(y) /\ InnerGet(y, a) = InnerGet(x, a)
  PROVE  Holds(y, cs, ws)
  BY DEF Holds

(* A cell more.                                                            *)
LEMMA HoldsMore ==
  ASSUME NEW x, NEW cs, NEW ws \in Seq(Words), Holds(x, cs, ws), NEW w \in Words, NEW a \in Nat,
         a \in Stored(x), InnerGet(x, a) = w
  PROVE  Holds(x, Append(cs, a), Append(ws, w))
  <1> DEFINE c == Append(cs, a)
             d == Append(ws, w)
  <1>1. cs \in Seq(Nat) /\ Len(ws) = Len(cs)
        /\ \A i \in 1 .. Len(cs) : cs[i] \in Stored(x) /\ InnerGet(x, cs[i]) = ws[i]
    BY DEF Holds
  <1>2. /\ c \in Seq(Nat) /\ Len(c) = Len(cs) + 1 /\ c[Len(cs) + 1] = a
        /\ \A i \in 1 .. Len(cs) : c[i] = cs[i]
    BY <1>1
  <1>3. /\ Len(d) = Len(ws) + 1 /\ d[Len(ws) + 1] = w
        /\ \A i \in 1 .. Len(ws) : d[i] = ws[i]
    OBVIOUS
  <1> HIDE DEF c, d
  <1>4. ASSUME NEW i \in 1 .. Len(c) PROVE c[i] \in Stored(x) /\ InnerGet(x, c[i]) = d[i]
    <2>1. i \in 1 .. Len(cs) \/ i = Len(cs) + 1
      BY <1>1, <1>2
    <2> QED
      BY <1>1, <1>2, <1>3, <2>1
  <1>5. Holds(x, c, d)
    BY <1>1, <1>2, <1>3, <1>4 DEF Holds
  <1> QED
    BY <1>5 DEF c, d

(* A new heap holds the zero word.                                         *)
LEMMA NewWhole == ASSUME ByteBaseAssumption PROVE Whole(NewHeap)
  <1> DEFINE z == BucketOf(<<>>, InitBuckets)
             x == NewHeap
  <1>1. z \in 0 .. InitBuckets - 1 /\ InitBuckets \in Nat \ {0}
    BY BucketRange, WordsAssumption, BucketsAssumption
  <1>2. /\ x.heap = <<0>> /\ x.lengths = <<0>> /\ x.n = InitBuckets /\ x.count = 1
        /\ x.buckets = [b \in 0 .. InitBuckets - 1 |-> IF b = z THEN {0} ELSE {}]
        /\ DOMAIN x = {"heap", "lengths", "n", "buckets", "count"}
    BY DEF NewHeap
  <1> HIDE DEF x, z
  <1>3. HeapType(x)
    <2>1. x.buckets \in [0 .. x.n - 1 -> SUBSET Nat]
      BY <1>2
    <2>2. x.heap \in Seq(Nat) /\ x.lengths \in Seq(Nat) /\ Len(x.heap) = Len(x.lengths)
      BY <1>2
    <2> QED
      BY <1>1, <1>2, <2>1, <2>2 DEF HeapType
  <1>4. Stored(x) = {0}
    <2>1. \A a : a \in Stored(x) <=> a = 0
      BY <1>1, <1>2, StoredDef
    <2> QED
      BY <2>1
  <1>5. x.lengths[0 + 1] = 0 /\ Len(x.lengths) = 1 /\ Len(x.heap) = 1
    BY <1>2
  <1>6. InnerGet(x, 0) = <<>>
    BY <1>5 DEF InnerGet
  <1>7. ValidChunk(x, 0) /\ BucketOf(InnerGet(x, 0), x.n) = z
    BY <1>2, <1>5, <1>6, WordsAssumption DEF ValidChunk, z
  <1>8. HeapInv(x)
    BY <1>2, <1>4, <1>7 DEF HeapInv
  <1>9. Chunks(x.lengths) = {0}
    BY <1>5 DEF Chunks
  <1>10. Cardinality(Stored(x)) = 1
    BY <1>4, FS_Singleton
  <1>11. 0 < ByteBase * ByteBase
    BY DEF ByteBaseAssumption
  <1>12. \A i \in 1 .. Len(x.lengths) : x.lengths[i] < ByteBase * ByteBase
    BY <1>5, <1>11
  <1>13. Marked(x)
    BY <1>2, <1>4, <1>5, <1>9, <1>10, <1>12 DEF Marked
  <1> QED
    BY <1>3, <1>8, <1>13 DEF Whole, x

(* A trace starts with a new heap.                                         *)
LEMMA TraceInit ==
  ASSUME ByteBaseAssumption, NarrowAssumption, Init
  PROVE  TraceInv
  <1>1. Whole(h) /\ want \in Seq(Words) /\ Holds(h, cells, want)
    BY NewWhole DEF Init, Holds
  <1>2. Len(Narrow) \in Nat
    BY DEF NarrowAssumption
  <1> QED
    BY <1>1, <1>2 DEF Init, TraceInv, Owned

(* Storing a word keeps every cell.                                        *)
LEMMA FillKeeps ==
  ASSUME WidthAssumption, TraceInv, Fill
  PROVE  TraceInv'
  <1>1. PICK w \in Words : Set(w)
    BY DEF Fill
  <1>2. room = Owned
    BY DEF Fill
  <1>3. /\ h' = PutHeap(h, w) /\ cells' = Append(cells, PutIndex(h, w))
        /\ want' = Append(want, w) /\ narrow' = narrow /\ room' = room /\ file' = file
    BY <1>1, <1>2 DEF Set
  <1>4. Whole(h) /\ want \in Seq(Words) /\ Holds(h, cells, want)
    BY DEF TraceInv
  <1> DEFINE a == PutIndex(h, w)
             y == PutHeap(h, w)
  <1>5. /\ Whole(y) /\ a \in Nat /\ a \in Stored(y) /\ InnerGet(y, a) = w
        /\ \A c \in Stored(h) : c \in Stored(y) /\ InnerGet(y, c) = InnerGet(h, c)
    <2>1. CASE Matches(h, w) = {}
      <3>1. a = Len(h.heap)
        BY <2>1 DEF PutIndex
      <3>2. Len(h.heap) \in Nat
        BY <1>4 DEF Whole, HeapType
      <3> QED
        BY <1>4, <2>1, <3>1, <3>2, PutStores
    <2>2. CASE Matches(h, w) # {}
      <3>1. y = h /\ a \in Matches(h, w)
        BY <2>2 DEF PutHeap, PutIndex
      <3>2. a \in Stored(h) /\ InnerGet(h, a) = w
        BY <1>4, <3>1, MatchesFound DEF Whole
      <3>3. a \in Nat
        BY <1>4, <3>2, StoredDef DEF Whole, HeapInv, ValidChunk
      <3> QED
        BY <1>4, <3>1, <3>2, <3>3
    <2> QED
      BY <2>1, <2>2
  <1> HIDE DEF a, y
  <1>6. Holds(y, cells, want)
    BY <1>4, <1>5, HoldsOn
  <1>7. Holds(y, Append(cells, a), Append(want, w))
    BY <1>4, <1>5, <1>6, HoldsMore
  <1>8. h' = y /\ cells' = Append(cells, a)
    BY <1>3 DEF a, y
  <1>9. Whole(h') /\ want' \in Seq(Words) /\ Holds(h', cells', want')
    BY <1>3, <1>4, <1>5, <1>7, <1>8
  <1>10. ASSUME NEW x, FileOf(x) PROVE FileOf(x)'
    <2>1. Holds(x, file.cells, SubSeq(want, 1, Len(file.cells))) /\ Len(file.cells) <= Len(want)
      BY <1>10 DEF FileOf
    <2>2. Len(file.cells) \in 0 .. Len(want)
      BY <1>4, <2>1 DEF Holds
    <2>3. SubSeq(want', 1, Len(file.cells)) = SubSeq(want, 1, Len(file.cells))
      BY <1>3, <1>4, <2>2, PrefixGrows
    <2>4. Len(file.cells) <= Len(want')
      BY <1>3, <1>4, <2>2
    <2> QED
      BY <1>3, <1>10, <2>1, <2>3, <2>4 DEF FileOf
  <1> QED
    BY <1>3, <1>9, <1>10 DEF TraceInv

(* Writing the file.                                                       *)
LEMMA ToBytesKeeps ==
  ASSUME TraceInv, ToBytes
  PROVE  TraceInv'
  <1>1. /\ file' = [heap |-> Marshal(h), cells |-> cells, narrow |-> narrow]
        /\ UNCHANGED <<h, cells, narrow, room, want>>
    BY DEF ToBytes
  <1>2. Whole(h) /\ want \in Seq(Words) /\ Holds(h, cells, want) /\ narrow = Narrow
    BY DEF TraceInv
  <1>3. file'.heap = Marshal(h) /\ file'.cells = cells /\ file'.narrow = Narrow
    BY <1>1, <1>2
  <1>4. Len(want) = Len(cells) /\ Len(want) \in Nat
    BY <1>2 DEF Holds
  <1>5. SubSeq(want, 1, Len(cells)) = want
    <2> DEFINE p == SubSeq(want, 1, Len(cells))
    <2>1. Len(cells) \in 0 .. Len(want)
      BY <1>4
    <2>2. p \in Seq(Words) /\ Len(p) = Len(cells) /\ \A i \in 1 .. Len(cells) : p[i] = want[i]
      BY <1>2, <2>1, Prefix
    <2> HIDE DEF p
    <2>3. p = want
      BY <1>2, <1>4, <2>2
    <2> QED
      BY <2>3 DEF p
  <1>6. PICK x : x = h
    OBVIOUS
  <1>7. FileOf(x)'
    <2>1. Len(file'.cells) <= Len(want')
      BY <1>1, <1>3, <1>4
    <2>2. Holds(x, file'.cells, SubSeq(want', 1, Len(file'.cells)))
      BY <1>1, <1>2, <1>3, <1>5, <1>6
    <2> QED
      BY <1>2, <1>3, <1>6, <2>1, <2>2 DEF FileOf
  <1> QED
    BY <1>1, <1>7 DEF TraceInv

(* Reading the file.                                                       *)
LEMMA FromBytesKeeps ==
  ASSUME ByteBaseAssumption, NarrowAssumption, TraceInv, FromBytes
  PROVE  TraceInv'
  <1>1. /\ file # NoFile /\ h' = Unmarshal(file.heap) /\ cells' = file.cells
        /\ narrow' = file.narrow /\ room' = Len(file.narrow)
        /\ want' = SubSeq(want, 1, Len(file.cells)) /\ file' = file
    BY DEF FromBytes
  <1>2. PICK x : FileOf(x)
    BY <1>1 DEF TraceInv
  <1>3. /\ Whole(x) /\ file.heap = Marshal(x) /\ Len(file.cells) <= Len(want)
        /\ Holds(x, file.cells, SubSeq(want, 1, Len(file.cells))) /\ file.narrow = Narrow
    BY <1>2 DEF FileOf
  <1> DEFINE y == Reconstruct(x.heap, x.lengths)
             n == Len(file.cells)
  <1>4. h' = y
    BY <1>1, <1>3, ReadBack
  <1>5. /\ Whole(y) /\ y.heap = x.heap /\ y.lengths = x.lengths /\ Stored(y) = Stored(x)
    BY <1>3, ReconstructWhole
  <1> HIDE DEF y
  <1>6. \A a : InnerGet(y, a) = InnerGet(x, a)
    BY <1>5 DEF InnerGet
  <1>7. Holds(y, cells', want')
    BY <1>1, <1>3, <1>5, <1>6, HoldsOn
  <1>8. want \in Seq(Words) /\ n \in 0 .. Len(want) /\ file.cells \in Seq(Nat)
    BY <1>3 DEF TraceInv, Holds
  <1>9. want' \in Seq(Words) /\ Len(want') = n
    BY <1>1, <1>8, Prefix
  <1>10. Len(Narrow) \in Nat
    BY DEF NarrowAssumption
  <1>11. room' \in Owned .. Len(Narrow) /\ narrow' = Narrow
    BY <1>1, <1>3, <1>10 DEF Owned
  <1>12. SubSeq(want', 1, n) = want'
    <2> DEFINE p == SubSeq(want', 1, n)
    <2>1. n \in 0 .. Len(want')
      BY <1>8, <1>9
    <2>2. p \in Seq(Words) /\ Len(p) = n /\ \A i \in 1 .. n : p[i] = want'[i]
      BY <1>9, <2>1, Prefix
    <2> HIDE DEF p
    <2>3. p = want'
      BY <1>9, <2>2
    <2> QED
      BY <2>3 DEF p
  <1>13. FileOf(x)'
    <2>1. Holds(x, file.cells, want')
      BY <1>1, <1>3
    <2>2. n <= Len(want')
      BY <1>8, <1>9
    <2>3. Holds(x, file.cells, SubSeq(want', 1, Len(file.cells)))
      BY <1>12, <2>1
    <2> QED
      BY <1>1, <1>3, <2>2, <2>3 DEF FileOf
  <1> QED
    BY <1>4, <1>5, <1>7, <1>9, <1>11, <1>13 DEF TraceInv

(* What the invariant means for the columns.                               *)
LEMMA TraceInvMeans ==
  ASSUME NarrowAssumption, TraceInv
  PROVE  TypeOK /\ HeapKept
  <1>1. /\ Whole(h) /\ want \in Seq(Words) /\ Holds(h, cells, want) /\ narrow = Narrow
        /\ room \in Owned .. Len(Narrow)
    BY DEF TraceInv
  <1>2. HeapType(h) /\ HeapInv(h) /\ Marked(h)
    BY <1>1 DEF Whole
  <1>3. /\ cells \in Seq(Nat) /\ Len(want) = Len(cells)
        /\ \A i \in 1 .. Len(cells) : cells[i] \in Stored(h) /\ InnerGet(h, cells[i]) = want[i]
    BY <1>1 DEF Holds
  <1>4. CellsPreserved
    BY <1>3 DEF CellsPreserved
  <1>5. ASSUME NEW i \in 1 .. Len(cells), NEW j \in 1 .. Len(cells), want[i] = want[j]
        PROVE  cells[i] = cells[j]
    BY <1>2, <1>3, <1>5 DEF HeapInv
  <1>6. OneIndexPerWord
    BY <1>2, <1>5, MatchesStored DEF OneIndexPerWord, Marked
  <1>7. cells \in Seq(0 .. Len(h.heap) - 1)
    <2>1. Stored(h) \subseteq 0 .. Len(h.heap) - 1
      <3>1. h.lengths \in Seq(Nat) /\ Len(h.lengths) > 0 /\ Len(h.heap) = Len(h.lengths)
        BY <1>2 DEF HeapType, Marked
      <3> QED
        BY <1>2, <3>1, ChunksFinite DEF Marked
    <2>2. \A i \in 1 .. Len(cells) : cells[i] \in 0 .. Len(h.heap) - 1
      BY <1>3, <2>1
    <2> QED
      BY <1>3, <2>2
  <1>8. TypeOK
    BY <1>1, <1>2, <1>3, <1>7 DEF TypeOK, HeapType
  <1> QED
    BY <1>1, <1>4, <1>6, <1>8 DEF HeapKept, NarrowIntact

(* A trace that is filled, written, read back and propagated in any order, *)
(* any number of times, gives back every cell, keeps one index per word,   *)
(* and leaves alone the column that shares the buffer of the file: for     *)
(* every set of words, hash function, loading factor and byte base.        *)
THEOREM HeapIsKept ==
  ASSUME ByteBaseAssumption, WidthAssumption, NarrowAssumption
  PROVE  Spec => [](TypeOK /\ HeapKept)
  <1>1. Init => TraceInv
    BY TraceInit
  <1>2. TraceInv /\ [Next]_vars => TraceInv'
    <2> SUFFICES ASSUME TraceInv, [Next]_vars PROVE TraceInv'
      OBVIOUS
    <2>1. CASE Fill
      BY <2>1, FillKeeps
    <2>2. CASE ToBytes
      BY <2>2, ToBytesKeeps
    <2>3. CASE FromBytes
      BY <2>3, FromBytesKeeps
    <2>4. CASE Propagate
      <3>1. UNCHANGED <<h, cells, narrow, file, want>> /\ room' = Owned
        BY <2>4 DEF Propagate
      <3>2. Owned \in Owned .. Len(Narrow)
        BY DEF NarrowAssumption, Owned
      <3> QED
        BY <3>1, <3>2 DEF TraceInv, FileOf
    <2>5. CASE UNCHANGED vars
      BY <2>5 DEF vars, TraceInv, FileOf
    <2> QED
      BY <2>1, <2>2, <2>3, <2>4, <2>5 DEF Next
  <1>3. TraceInv => TypeOK /\ HeapKept
    BY TraceInvMeans
  <1> QED
    BY <1>1, <1>2, <1>3, PTL DEF Spec
=============================================================================
