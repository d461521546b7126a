------------------------------ MODULE HeapPool ------------------------------
(***************************************************************************)
(* The byte heap behind SharedHeap and LocalHeap (pkg/util/collection/     *)
(* pool).  A word is the sequence of its bytes without leading zeros, so   *)
(* the zero word is <<>>.  A heap is a record:                             *)
(*   heap     the bytes of all words, one chunk after the other;           *)
(*   lengths  for the first byte of a chunk its length, otherwise 0;       *)
(*   n        the number of hash buckets;                                  *)
(*   buckets  for each bucket the addresses recorded in it;                *)
(*   count    the number of words stored.                                  *)
(* Addresses count from zero, sequences from one: the byte at address a is *)
(* heap[a + 1].  The order of a bucket is left out: it only matters to     *)
(* has() when two entries of a bucket hold the same word.                  *)
(***************************************************************************)
EXTENDS Integers, Sequences, TLAPS

CONSTANTS
    Words,       \* the words that are ever stored (word.DynamicWord)
    Hash(_),     \* the hash of a word, before reduction to a bucket
    InitBuckets, \* HEAP_POOL_INIT_BUCKETS
    Loading,     \* HEAP_POOL_LOADING
    Percent      \* the scale of a load: 100

ASSUME WordsAssumption ==
    /\ Words \subseteq Seq(Nat)
    /\ <<>> \in Words

ASSUME HashAssumption == \A w \in Words : Hash(w) \in Nat

(* The zero word alone does not overload a new heap (100/128 <= 75).       *)
ASSUME BucketsAssumption ==
    /\ InitBuckets \in Nat \ {0}
    /\ Loading \in Nat
    /\ Percent \in Nat
    /\ Percent \div InitBuckets <= Loading

(* math.MaxUint32 as the result of has(): the word is not stored.          *)
Missing == -1

(* innerGet(index): the bytes of the chunk at an address.                  *)
InnerGet(h, a) == [i \in 1 .. h.lengths[a + 1] |-> h.heap[a + i]]

(* The bucket a word belongs to when there are n of them.                  *)
BucketOf(w, n) == Hash(w) % n

(* The addresses at which has(word) may find a word: only the word's own   *)
(* bucket is searched.                                                     *)
Matches(h, w) == {a \in h.buckets[BucketOf(w, h.n)] : InnerGet(h, a) = w}

(* has(word) without the hash it also returns.                             *)
HasResults(h, w) == IF Matches(h, w) = {} THEN {Missing} ELSE Matches(h, w)

(* Faulty alloc: the bytes are written one place too early.                *)
AllocTooEarly(h, w) ==
    [h EXCEPT !.heap = SubSeq(@, 1, Len(@) - 1) \o w \o <<0>>,
              !.lengths = @ \o [i \in 1 .. Len(w) |-> IF i = 1 THEN Len(w) ELSE 0],
              !.count = @ + 1]

(* alloc(word): the address is the old length of the heap.                 *)
Alloc(h, w) ==
    [h EXCEPT !.heap = @ \o w,
              !.lengths = @ \o [i \in 1 .. Len(w) |-> IF i = 1 THEN Len(w) ELSE 0],
              !.count = @ + 1]

(* Record an address in a bucket.                                          *)
AppendBucket(h, b, a) == [h EXCEPT !.buckets[b] = @ \cup {a}]

(* All addresses recorded in some bucket.                                  *)
Stored(h) == UNION {h.buckets[b] : b \in 0 .. h.n - 1}

(* Distribute the given addresses over n buckets.                          *)
Distribute(h, as, n) ==
    [b \in 0 .. n - 1 |-> {a \in as : BucketOf(InnerGet(h, a), n) = b}]

(* Faulty rehash: the addresses stay in the bucket with their old number.  *)
RehashInPlace(h) ==
    [h EXCEPT !.n = 3 * @,
              !.buckets = [b \in 0 .. 3 * h.n - 1 |->
                             IF b < h.n THEN h.buckets[b] ELSE {}]]

(* rehash(): three times as many buckets.                                  *)
Rehash(h) ==
    [h EXCEPT !.n = 3 * @, !.buckets = Distribute(h, Stored(h), 3 * h.n)]

(* The load, in parts of Percent.                                          *)
Load(count, n) == (Percent * count) \div n

Overloaded(count, n) == Load(count, n) > Loading

(* rehashIfOverloaded()                                                    *)
RehashIfOverloaded(h) == IF Overloaded(h.count, h.n) THEN Rehash(h) ELSE h

(* NewSharedHeap / NewLocalHeap: the zero word has address 0 and occupies  *)
(* one byte that is never part of a word.                                  *)
NewHeap ==
    [heap |-> <<0>>, lengths |-> <<0>>, n |-> InitBuckets, count |-> 1,
     buckets |-> [b \in 0 .. InitBuckets - 1 |->
                    IF b = BucketOf(<<>>, InitBuckets) THEN {0} ELSE {}]]

(* The pairs of a word and its address that has() can find.                *)
Table(h) ==
    UNION {{<<InnerGet(h, a), a>> : a \in h.buckets[b]} : b \in 0 .. h.n - 1}

-----------------------------------------------------------------------------
(* What the operations keep of a well-formed heap.                         *)

(* The bytes and the lengths are parallel arrays, beside a table of n      *)
(* buckets.                                                                *)
HeapType(x) ==
    /\ DOMAIN x = {"heap", "lengths", "n", "buckets", "count"}
    /\ x.heap \in Seq(Nat)
    /\ x.lengths \in Seq(Nat)
    /\ Len(x.heap) = Len(x.lengths)
    /\ x.n \in Nat \ {0}
    /\ x.buckets \in [0 .. x.n - 1 -> SUBSET Nat]
    /\ x.count \in Nat

(* A chunk that lies inside the heap and holds a word.                     *)
ValidChunk(x, a) ==
    /\ a \in Nat /\ a < Len(x.heap)
    /\ a + x.lengths[a + 1] <= Len(x.heap)
    /\ InnerGet(x, a) \in Words

(* Every address in a bucket is the only chunk of its word, and lies in    *)
(* the bucket where has() looks for that word.                             *)
HeapInv(x) ==
    /\ \A b \in 0 .. x.n - 1 : \A a \in x.buckets[b] :
         ValidChunk(x, a) /\ BucketOf(InnerGet(x, a), x.n) = b
    /\ \A a, b \in Stored(x) : InnerGet(x, a) = InnerGet(x, b) => a = b

-----------------------------------------------------------------------------
(* The remainder that picks a bucket, hash % len(buckets), is in range.     *)
LEMMA ModRange == \A x \in Nat, n \in Nat \ {0} : x % n \in 0 .. n - 1
  OBVIOUS

(* A word hashes into one of the buckets.                                  *)
LEMMA BucketRange ==
  ASSUME NEW w \in Words, NEW n \in Nat \ {0}
  PROVE  BucketOf(w, n) \in 0 .. n - 1
  BY HashAssumption, ModRange DEF BucketOf

(* Concatenation, element by element.                                      *)
LEMMA Concat ==
  ASSUME NEW s \in Seq(Nat), NEW t \in Seq(Nat)
  PROVE  /\ s \o t \in Seq(Nat)
         /\ Len(s) \in Nat /\ Len(t) \in Nat
         /\ Len(s \o t) = Len(s) + Len(t)
         /\ \A i \in 1 .. Len(s) : (s \o t)[i] = s[i]
         /\ \A i \in 1 .. Len(t) : (s \o t)[Len(s) + i] = t[i]
  OBVIOUS

(* What Stored collects.                                                   *)
LEMMA StoredDef ==
  ASSUME NEW x, NEW a
  PROVE  a \in Stored(x) <=> \E b \in 0 .. x.n - 1 : a \in x.buckets[b]
  BY DEF Stored

(* alloc leaves every chunk of the heap as it was.                         *)
LEMMA AllocKeeps ==
  ASSUME NEW x, HeapType(x), NEW w \in Words, NEW a, ValidChunk(x, a)
  PROVE  /\ InnerGet(Alloc(x, w), a) = InnerGet(x, a)
         /\ ValidChunk(Alloc(x, w), a)
  <1> DEFINE ls == [i \in 1 .. Len(w) |-> IF i = 1 THEN Len(w) ELSE 0]
             y == Alloc(x, w)
  <1>0. x.heap \in Seq(Nat) /\ x.lengths \in Seq(Nat)
    BY DEF HeapType
  <1>1. w \in Seq(Nat) /\ Len(w) \in Nat
    BY WordsAssumption
  <1>2. ls \in Seq(Nat) /\ Len(ls) = Len(w)
    BY <1>1
  <1>3. y.heap = x.heap \o w /\ y.lengths = x.lengths \o ls
    BY DEF Alloc, HeapType
  <1> HIDE DEF y, ls
  <1>a. /\ a \in Nat /\ a + 1 \in 1 .. Len(x.lengths) /\ x.lengths[a + 1] \in Nat
        /\ \A i \in 1 .. x.lengths[a + 1] : a + i \in 1 .. Len(x.heap)
    BY <1>0 DEF ValidChunk, HeapType
  <1>4. y.lengths[a + 1] = x.lengths[a + 1]
    BY <1>0, <1>a, <1>2, <1>3, Concat
  <1>5. \A i \in 1 .. x.lengths[a + 1] : y.heap[a + i] = x.heap[a + i]
    <2> TAKE i \in 1 .. x.lengths[a + 1]
    <2>1. a + i \in 1 .. Len(x.heap)
      BY <1>a
    <2> QED
      BY <1>0, <1>1, <1>3, <2>1, Concat
  <1>6. InnerGet(y, a) = InnerGet(x, a)
    BY <1>4, <1>5 DEF InnerGet
  <1>7. Len(y.heap) = Len(x.heap) + Len(w) /\ Len(x.heap) \in Nat
    BY <1>0, <1>1, <1>3, Concat
  <1>8. ValidChunk(y, a)
    BY <1>1, <1>4, <1>6, <1>7, <1>a DEF ValidChunk
  <1> QED
    BY <1>6, <1>8 DEF y

(* alloc stores the word at the old end of the heap.                       *)
LEMMA AllocStores ==
  ASSUME NEW x, HeapType(x), NEW w \in Words, w # <<>>
  PROVE  /\ InnerGet(Alloc(x, w), Len(x.heap)) = w
         /\ ValidChunk(Alloc(x, w), Len(x.heap))
  <1> DEFINE ls == [i \in 1 .. Len(w) |-> IF i = 1 THEN Len(w) ELSE 0]
             y == Alloc(x, w)
             a == Len(x.heap)
  <1>0. x.heap \in Seq(Nat) /\ x.lengths \in Seq(Nat) /\ a \in Nat
    BY DEF HeapType
  <1>a. a = Len(x.lengths)
    BY DEF HeapType
  <1>1. w \in Seq(Nat) /\ Len(w) \in Nat /\ Len(w) > 0
    BY WordsAssumption
  <1>2. ls \in Seq(Nat) /\ Len(ls) = Len(w) /\ ls[1] = Len(w)
    BY <1>1
  <1>3. y.heap = x.heap \o w /\ y.lengths = x.lengths \o ls
    BY DEF Alloc, HeapType
  <1> HIDE DEF y, ls
  <1>4. y.lengths[a + 1] = Len(w)
    BY <1>0, <1>a, <1>1, <1>2, <1>3, Concat
  <1>5. \A i \in 1 .. Len(w) : y.heap[a + i] = w[i]
    BY <1>0, <1>1, <1>3, Concat
  <1>6. InnerGet(y, a) = [i \in 1 .. Len(w) |-> w[i]]
    BY <1>4, <1>5 DEF InnerGet
  <1>7. InnerGet(y, a) = w
    BY <1>1, <1>6
  <1>8. Len(y.heap) = a + Len(w)
    BY <1>0, <1>1, <1>3, Concat
  <1>9. ValidChunk(y, a)
    BY <1>0, <1>1, <1>4, <1>7, <1>8 DEF ValidChunk
  <1> QED
    BY <1>7, <1>9 DEF y

(* alloc keeps the type of the heap.                                       *)
LEMMA AllocType ==
  ASSUME NEW x, HeapType(x), NEW w \in Words
  PROVE  /\ HeapType(Alloc(x, w))
         /\ Alloc(x, w).n = x.n /\ Alloc(x, w).buckets = x.buckets
  <1> DEFINE ls == [i \in 1 .. Len(w) |-> IF i = 1 THEN Len(w) ELSE 0]
             y == Alloc(x, w)
  <1>0. x.heap \in Seq(Nat) /\ x.lengths \in Seq(Nat)
    BY DEF HeapType
  <1>1. w \in Seq(Nat) /\ Len(w) \in Nat
    BY WordsAssumption
  <1>2. ls \in Seq(Nat) /\ Len(ls) = Len(w)
    BY <1>1
  <1>3. /\ y.heap = x.heap \o w /\ y.lengths = x.lengths \o ls
        /\ y.count = x.count + 1 /\ y.n = x.n /\ y.buckets = x.buckets
        /\ DOMAIN y = DOMAIN x
    BY DEF Alloc, HeapType
  <1> HIDE DEF y, ls
  <1>4. y.heap \in Seq(Nat) /\ Len(y.heap) = Len(x.heap) + Len(w)
    BY <1>0, <1>1, <1>3, Concat
  <1>5. y.lengths \in Seq(Nat) /\ Len(y.lengths) = Len(x.lengths) + Len(ls)
    <2>1. ls \in Seq(Nat)
      BY <1>2
    <2> QED
      BY <1>0, <2>1, <1>3, Concat
  <1>6. Len(y.heap) = Len(y.lengths)
    BY <1>2, <1>4, <1>5 DEF HeapType
  <1>7. /\ DOMAIN y = {"heap", "lengths", "n", "buckets", "count"}
        /\ y.n \in Nat \ {0} /\ y.count \in Nat
    BY <1>3 DEF HeapType
  <1>8. y.buckets \in [0 .. y.n - 1 -> SUBSET Nat]
    BY <1>3 DEF HeapType
  <1>9. HeapType(y)
    BY ONLY <1>4, <1>5, <1>6, <1>7, <1>8 DEF HeapType
  <1> QED
    BY <1>3, <1>9 DEF y

(* Recording an address touches nothing but its bucket.                    *)
LEMMA AppendFacts ==
  ASSUME NEW x, HeapType(x), NEW b \in 0 .. x.n - 1, NEW a \in Nat
  PROVE  LET y == AppendBucket(x, b, a) IN
         /\ HeapType(y)
         /\ y.heap = x.heap /\ y.lengths = x.lengths /\ y.n = x.n
         /\ \A c \in 0 .. x.n - 1 :
              y.buckets[c] = IF c = b THEN x.buckets[c] \cup {a} ELSE x.buckets[c]
  <1> DEFINE y == AppendBucket(x, b, a)
  <1>1. /\ y.heap = x.heap /\ y.lengths = x.lengths /\ y.n = x.n
        /\ y.count = x.count /\ DOMAIN y = DOMAIN x
        /\ y.buckets = [x.buckets EXCEPT ![b] = @ \cup {a}]
    BY DEF AppendBucket, HeapType
  <1> HIDE DEF y
  <1>2. y.buckets \in [0 .. x.n - 1 -> SUBSET Nat]
    <2>1. x.buckets \in [0 .. x.n - 1 -> SUBSET Nat]
      BY DEF HeapType
    <2>2. x.buckets[b] \cup {a} \in SUBSET Nat
      BY <2>1
    <2> QED
      BY <1>1, <2>1, <2>2
  <1>3. HeapType(y)
    <2>1. /\ DOMAIN y = {"heap", "lengths", "n", "buckets", "count"}
          /\ y.n \in Nat \ {0} /\ y.count \in Nat
          /\ y.heap \in Seq(Nat) /\ y.lengths \in Seq(Nat)
      BY <1>1 DEF HeapType
    <2>2. Len(y.heap) = Len(y.lengths)
      BY <1>1 DEF HeapType
    <2>3. y.buckets \in [0 .. y.n - 1 -> SUBSET Nat]
      BY <1>1, <1>2
    <2> QED
      BY ONLY <2>1, <2>2, <2>3 DEF HeapType
  <1>4. \A c \in 0 .. x.n - 1 :
          y.buckets[c] = IF c = b THEN x.buckets[c] \cup {a} ELSE x.buckets[c]
    BY <1>1 DEF HeapType
  <1> QED
    BY <1>1, <1>3, <1>4 DEF y

(* Recording the only chunk of a new word in the word's bucket.            *)
LEMMA AppendInv ==
  ASSUME NEW x, HeapType(x), HeapInv(x), NEW a, ValidChunk(x, a),
         \A c \in Stored(x) : InnerGet(x, c) # InnerGet(x, a)
  PROVE  LET y == AppendBucket(x, BucketOf(InnerGet(x, a), x.n), a) IN
         /\ HeapType(y) /\ HeapInv(y)
         /\ y.heap = x.heap /\ y.lengths = x.lengths
         /\ Stored(y) = Stored(x) \cup {a}
  <1> DEFINE b == BucketOf(InnerGet(x, a), x.n)
             y == AppendBucket(x, b, a)
  <1>1. a \in Nat /\ InnerGet(x, a) \in Words /\ x.n \in Nat \ {0}
    BY DEF ValidChunk, HeapType
  <1>2. b \in 0 .. x.n - 1
    BY <1>1, BucketRange
  <1> HIDE DEF b
  <1>3. /\ HeapType(y)
        /\ y.heap = x.heap /\ y.lengths = x.lengths /\ y.n = x.n
        /\ \A c \in 0 .. x.n - 1 :
             y.buckets[c] = IF c = b THEN x.buckets[c] \cup {a} ELSE x.buckets[c]
    BY <1>1, <1>2, AppendFacts
  <1> HIDE DEF y
  <1>4. \A c : InnerGet(y, c) = InnerGet(x, c)
    BY <1>3 DEF InnerGet
  <1>5. \A c : ValidChunk(x, c) => ValidChunk(y, c)
    BY <1>3, <1>4 DEF ValidChunk
  <1>6. Stored(y) = Stored(x) \cup {a}
    BY <1>2, <1>3 DEF Stored
  <1>7. ASSUME NEW c \in 0 .. y.n - 1, NEW d \in y.buckets[c]
        PROVE  ValidChunk(y, d) /\ BucketOf(InnerGet(y, d), y.n) = c
    <2>1. CASE d \in x.buckets[c]
      BY <1>3, <1>4, <1>5, <1>7, <2>1 DEF HeapInv
    <2>2. CASE d = a /\ c = b
      BY <1>3, <1>4, <1>5, <2>2 DEF b
    <2> QED
      BY <1>3, <1>7, <2>1, <2>2
  <1>8. \A c, d \in Stored(y) : InnerGet(y, c) = InnerGet(y, d) => c = d
    BY <1>4, <1>6 DEF HeapInv
  <1>9. HeapInv(y)
    BY <1>7, <1>8 DEF HeapInv
  <1> QED
    BY <1>3, <1>6, <1>9 DEF y, b

(* rehash keeps every chunk, and the lookup of every word succeeds in the  *)
(* new table.                                                              *)
LEMMA RehashInv ==
  ASSUME NEW x, HeapType(x), HeapInv(x)
  PROVE  LET y == RehashIfOverloaded(x) IN
         /\ HeapType(y) /\ HeapInv(y)
         /\ y.heap = x.heap /\ y.lengths = x.lengths
         /\ Stored(y) = Stored(x)
  <1> DEFINE y == Rehash(x)
             m == 3 * x.n
  <1>1. x.n \in Nat \ {0} /\ m \in Nat \ {0}
    BY DEF HeapType
  <1>2. /\ y.heap = x.heap /\ y.lengths = x.lengths /\ y.n = m
        /\ y.count = x.count /\ DOMAIN y = DOMAIN x
        /\ y.buckets = Distribute(x, Stored(x), m)
    BY DEF Rehash, HeapType
  <1>3. \A a \in Stored(x) : ValidChunk(x, a) /\ a \in Nat
    BY DEF HeapInv, Stored, ValidChunk
  <1>4. \A a \in Stored(x) : BucketOf(InnerGet(x, a), m) \in 0 .. m - 1
    BY <1>1, <1>3, BucketRange DEF ValidChunk
  <1> HIDE DEF y, m
  <1>5. \A b \in 0 .. m - 1 :
          y.buckets[b] = {a \in Stored(x) : BucketOf(InnerGet(x, a), m) = b}
    BY <1>2 DEF Distribute
  <1>6. y.buckets \in [0 .. y.n - 1 -> SUBSET Nat]
    BY <1>2, <1>3 DEF Distribute
  <1>7. HeapType(y)
    BY <1>1, <1>2, <1>6 DEF HeapType
  <1>8. Stored(y) = Stored(x)
    <2>1. \A a \in Stored(y) : a \in Stored(x)
      BY <1>2, <1>5, StoredDef
    <2>2. \A a \in Stored(x) : a \in Stored(y)
      BY <1>2, <1>4, <1>5, StoredDef
    <2> QED
      BY <2>1, <2>2
  <1>9. \A c : InnerGet(y, c) = InnerGet(x, c)
    BY <1>2 DEF InnerGet
  <1>10. \A c : ValidChunk(x, c) => ValidChunk(y, c)
    BY <1>2, <1>9 DEF ValidChunk
  <1>11. HeapInv(y)
    BY <1>2, <1>3, <1>5, <1>8, <1>9, <1>10 DEF HeapInv
  <1> QED
    BY <1>2, <1>7, <1>8, <1>11 DEF RehashIfOverloaded, y
=============================================================================
