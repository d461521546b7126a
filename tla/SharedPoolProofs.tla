-------------------------- MODULE SharedPoolProofs --------------------------
(***************************************************************************)
(* SharedHeap is canonical for any number of threads, any set of words and *)
(* any hash function.                                                      *)
(***************************************************************************)
EXTENDS SharedPool, TLAPS

-----------------------------------------------------------------------------
(* The inductive invariant.                                                *)

Writing == {"put.recheck", "put.alloc", "put.append", "put.rehash", "put.unlock"}

(* Exactly the thread past Lock is the writer, and once it has looked the  *)
(* word up nobody holds the read lock.                                     *)
LockInv ==
    /\ \A t \in Threads : writer = t <=> pc[t] \in Writing
    /\ \A t \in Threads : pc[t] \in Writing \ {"put.recheck"} => readers = {}

(* Word w is stored at address a.                                          *)
Bound(x, w, a) == a \in Stored(x) /\ InnerGet(x, a) = w

(* What a thread knows about its local variables at each step.             *)
ThreadInv(t) ==
    /\ pc[t] \in {"put.alloc", "put.append"} =>
         /\ hash[t] = BucketOf(word[t], h.n)
         /\ \A a \in Stored(h) : InnerGet(h, a) # word[t]
    /\ pc[t] = "put.append" =>
         ValidChunk(h, index[t]) /\ InnerGet(h, index[t]) = word[t]
    /\ pc[t] \in {"put.rehash", "put.unlock"} => Bound(h, word[t], index[t])
    /\ pc[t] = "put.runlock" /\ index[t] # Missing => Bound(h, word[t], index[t])
    /\ pc[t] \in {"get.rlock", "get.read"} => \E e \in issued : e[2] = index[t]
    /\ pc[t] = "get.runlock" => <<word[t], index[t]>> \in issued

IssuedInv ==
    /\ << <<>>, 0>> \in issued
    /\ \A e \in issued : Bound(h, e[1], e[2])

IInv ==
    /\ TypeOK
    /\ LockInv
    /\ HeapInv(h)
    /\ \A t \in Threads : ThreadInv(t)
    /\ IssuedInv

(* What every step guarantees to the other threads: whatever is stored     *)
(* stays stored, unchanged.                                                *)
Keeps == \A w, a : Bound(h, w, a) => Bound(h', w, a)

(* A thread that takes no step keeps its part of the invariant.            *)
LEMMA Bystander ==
  ASSUME NEW u \in Threads, ThreadInv(u), Keeps,
         pc'[u] = pc[u], word'[u] = word[u], index'[u] = index[u],
         hash'[u] = hash[u], issued \subseteq issued',
         h' = h \/ pc[u] \notin Writing
  PROVE  ThreadInv(u)'
  BY DEF ThreadInv, Keeps, Writing

(* The steps that leave the heap alone.                                    *)
LEMMA QuietKeeps == h' = h => Keeps
  BY DEF Keeps

(* The initial state.                                                      *)
LEMMA InitInv == Init => IInv
  <1> SUFFICES ASSUME Init PROVE IInv
    OBVIOUS
  <1> USE DEF Init
  <1>1. BucketOf(<<>>, InitBuckets) \in 0 .. InitBuckets - 1
    BY WordsAssumption, BucketsAssumption, BucketRange
  <1>2. h.heap = <<0>> /\ h.lengths = <<0>> /\ h.n = InitBuckets /\ h.count = 1
    BY DEF NewHeap
  <1>3. h.buckets = [b \in 0 .. InitBuckets - 1 |->
                       IF b = BucketOf(<<>>, InitBuckets) THEN {0} ELSE {}]
    BY DEF NewHeap
  <1>4. HeapType(h)
    <2>1. DOMAIN h = {"heap", "lengths", "n", "buckets", "count"}
      BY DEF NewHeap
    <2>2. h.buckets \in [0 .. h.n - 1 -> SUBSET Nat]
      BY <1>2, <1>3
    <2> QED
      BY <1>2, <2>1, <2>2, BucketsAssumption DEF HeapType
  <1>5. InnerGet(h, 0) = <<>>
    BY <1>2 DEF InnerGet
  <1>6. ValidChunk(h, 0)
    BY <1>2, <1>5, WordsAssumption DEF ValidChunk
  <1>7. Stored(h) = {0}
    BY <1>1, <1>2, <1>3 DEF Stored
  <1>8. HeapInv(h)
    BY <1>1, <1>2, <1>3, <1>5, <1>6, <1>7 DEF HeapInv
  <1>9. TypeOK
    BY <1>4, WordsAssumption DEF TypeOK, Missing, PutSteps, GetSteps
  <1>10. LockInv
    BY NoThreadAssumption DEF LockInv, Writing
  <1>11. \A t \in Threads : ThreadInv(t)
    BY DEF ThreadInv
  <1>12. IssuedInv
    BY <1>5, <1>7 DEF IssuedInv, Bound
  <1> QED
    BY <1>8, <1>9, <1>10, <1>11, <1>12 DEF IInv

-----------------------------------------------------------------------------
(* One lemma per kind of step: calls, RLock, has and innerGet under the     *)
(* read lock, RUnlock, Lock, the recheck, alloc, append, rehash, Unlock.   *)

(* Calling Put or Get keeps the invariant: only the caller's own variables *)
(* change.                                                                 *)
LEMMA CallInv ==
  ASSUME IInv, NEW t \in Threads,
         (\E w \in Words : PutCall(t, w)) \/ GetCall(t)
  PROVE  IInv'
  <1>1. h' = h /\ issued' = issued /\ hash' = hash /\ Keeps
    BY QuietKeeps DEF PutCall, GetCall
  <1>2. TypeOK'
    BY DEF IInv, TypeOK, PutCall, GetCall, Goto, lock, Missing, PutSteps, GetSteps
  <1>3. LockInv'
    BY DEF IInv, TypeOK, LockInv, PutCall, GetCall, Goto, lock, Writing
  <1>4. HeapInv(h')
    BY <1>1 DEF IInv
  <1>5. ThreadInv(t)'
    BY DEF IInv, TypeOK, ThreadInv, PutCall, GetCall, Goto
  <1>6. ASSUME NEW u \in Threads, u # t PROVE ThreadInv(u)'
    BY <1>1, <1>6, Bystander DEF IInv, TypeOK, PutCall, GetCall, Goto
  <1>7. IssuedInv'
    BY <1>1 DEF IInv, IssuedInv
  <1> QED
    BY <1>2, <1>3, <1>4, <1>5, <1>6, <1>7 DEF IInv

(* Taking the read lock, in Put or in Get, keeps the invariant.            *)
LEMMA RLockInv ==
  ASSUME IInv, NEW t \in Threads, PutRLock(t) \/ GetRLock(t)
  PROVE  IInv'
  <1>1. h' = h /\ issued' = issued /\ hash' = hash /\ index' = index
        /\ word' = word /\ Keeps
    BY QuietKeeps DEF PutRLock, GetRLock
  <1>2. TypeOK'
    BY DEF IInv, TypeOK, PutRLock, GetRLock, Goto, RLock, PutSteps, GetSteps
  <1>3. LockInv'
    BY NoThreadAssumption
    DEF IInv, TypeOK, LockInv, PutRLock, GetRLock, Goto, RLock, Writing
  <1>4. HeapInv(h')
    BY <1>1 DEF IInv
  <1>5. ThreadInv(t)'
    BY <1>1 DEF IInv, TypeOK, ThreadInv, PutRLock, GetRLock, Goto
  <1>6. ASSUME NEW u \in Threads, u # t PROVE ThreadInv(u)'
    BY <1>1, <1>6, Bystander DEF IInv, TypeOK, PutRLock, GetRLock, Goto
  <1>7. IssuedInv'
    BY <1>1 DEF IInv, IssuedInv
  <1> QED
    BY <1>2, <1>3, <1>4, <1>5, <1>6, <1>7 DEF IInv

(* has() returns Missing or an address at which the word is stored.        *)
LEMMA HasFacts ==
  ASSUME IInv, NEW w \in Words, NEW a \in HasResults(h, w)
  PROVE  /\ a \in Nat \cup {Missing}
         /\ a # Missing => Bound(h, w, a)
         /\ a = Missing => \A c \in Stored(h) : InnerGet(h, c) # w
  <1> DEFINE b == BucketOf(w, h.n)
  <1>1. HeapType(h) /\ HeapInv(h) /\ h.n \in Nat \ {0}
    BY DEF IInv, TypeOK, HeapType
  <1>2. b \in 0 .. h.n - 1
    BY <1>1, BucketRange
  <1>3. \A c \in h.buckets[b] : c \in Stored(h) /\ c \in Nat
    BY <1>1, <1>2, StoredDef DEF HeapInv, ValidChunk
  <1>4. \A c \in Stored(h) : InnerGet(h, c) = w => c \in Matches(h, w)
    <2> SUFFICES ASSUME NEW c \in Stored(h), InnerGet(h, c) = w
                 PROVE  c \in Matches(h, w)
      OBVIOUS
    <2>1. PICK d \in 0 .. h.n - 1 : c \in h.buckets[d]
      BY StoredDef
    <2>2. d = b
      BY <1>1, <2>1 DEF HeapInv
    <2> QED
      BY <2>1, <2>2 DEF Matches
  <1>5. CASE Matches(h, w) = {}
    BY <1>4, <1>5 DEF HasResults, Missing
  <1>6. CASE Matches(h, w) # {}
    BY <1>3, <1>6 DEF HasResults, Matches, Bound, Missing
  <1> QED
    BY <1>5, <1>6

(* The lookup of Put under the read lock keeps the invariant: an index it  *)
(* finds is bound to the word it was given.                                *)
LEMMA HasInv ==
  ASSUME IInv, NEW t \in Threads, PutHas(t)
  PROVE  IInv'
  <1>1. h' = h /\ issued' = issued /\ hash' = hash /\ word' = word /\ Keeps
    BY QuietKeeps DEF PutHas
  <1>2. PICK a \in HasResults(h, word[t]) : index' = [index EXCEPT ![t] = a]
    BY DEF PutHas
  <1>3. word[t] \in Words
    BY DEF IInv, TypeOK
  <1>4. a \in Nat \cup {Missing} /\ (a # Missing => Bound(h, word[t], a))
    BY <1>3, HasFacts
  <1>5. TypeOK'
    BY <1>1, <1>2, <1>4 DEF IInv, TypeOK, PutHas, Goto, lock, PutSteps
  <1>6. LockInv'
    BY DEF IInv, TypeOK, LockInv, PutHas, Goto, lock, Writing
  <1>7. HeapInv(h')
    BY <1>1 DEF IInv
  <1>8. ThreadInv(t)'
    BY <1>1, <1>2, <1>4 DEF IInv, TypeOK, ThreadInv, PutHas, Goto
  <1>9. ASSUME NEW u \in Threads, u # t PROVE ThreadInv(u)'
    BY <1>1, <1>2, <1>9, Bystander DEF IInv, TypeOK, PutHas, Goto
  <1>10. IssuedInv'
    BY <1>1 DEF IInv, IssuedInv
  <1> QED
    BY <1>5, <1>6, <1>7, <1>8, <1>9, <1>10 DEF IInv

(* innerGet under the read lock keeps the invariant: Get reads the word    *)
(* its index is bound to.                                                  *)
LEMMA GetReadInv ==
  ASSUME IInv, NEW t \in Threads, GetRead(t)
  PROVE  IInv'
  <1>1. h' = h /\ issued' = issued /\ hash' = hash /\ index' = index /\ Keeps
    BY QuietKeeps DEF GetRead
  <1>2. PICK e \in issued : e[2] = index[t]
    BY DEF IInv, ThreadInv, GetRead, Goto
  <1>3. InnerGet(h, index[t]) = e[1] /\ e \in Words \X Nat
    BY <1>2 DEF IInv, IssuedInv, Bound, TypeOK
  <1>4. word' = [word EXCEPT ![t] = e[1]] /\ e = <<e[1], index[t]>>
    BY <1>2, <1>3 DEF GetRead
  <1>5. TypeOK'
    BY <1>1, <1>3, <1>4 DEF IInv, TypeOK, GetRead, Goto, lock, GetSteps
  <1>6. LockInv'
    BY DEF IInv, TypeOK, LockInv, GetRead, Goto, lock, Writing
  <1>7. HeapInv(h')
    BY <1>1 DEF IInv
  <1>8. ThreadInv(t)'
    BY <1>1, <1>2, <1>4 DEF IInv, TypeOK, ThreadInv, GetRead, Goto
  <1>9. ASSUME NEW u \in Threads, u # t PROVE ThreadInv(u)'
    BY <1>1, <1>4, <1>9, Bystander DEF IInv, TypeOK, GetRead, Goto
  <1>10. IssuedInv'
    BY <1>1 DEF IInv, IssuedInv
  <1> QED
    BY <1>5, <1>6, <1>7, <1>8, <1>9, <1>10 DEF IInv

(* Giving the read lock up keeps the invariant, whether Put returns early  *)
(* or goes on to Lock.                                                     *)
LEMMA RUnlockInv ==
  ASSUME IInv, NEW t \in Threads, PutRUnlock(t) \/ GetRUnlock(t)
  PROVE  IInv'
  <1>1. h' = h /\ hash' = hash /\ index' = index /\ word' = word
        /\ issued \subseteq issued' /\ Keeps
    BY QuietKeeps DEF PutRUnlock, GetRUnlock
  <1>2. TypeOK'
    BY DEF IInv, TypeOK, PutRUnlock, GetRUnlock, Goto, RUnlock, PutSteps, GetSteps, Missing
  <1>3. LockInv'
    BY DEF IInv, TypeOK, LockInv, PutRUnlock, GetRUnlock, Goto, RUnlock, Writing
  <1>4. HeapInv(h')
    BY <1>1 DEF IInv
  <1>5. ThreadInv(t)'
    BY <1>1 DEF IInv, TypeOK, ThreadInv, PutRUnlock, GetRUnlock, Goto
  <1>6. ASSUME NEW u \in Threads, u # t PROVE ThreadInv(u)'
    BY <1>1, <1>6, Bystander DEF IInv, TypeOK, PutRUnlock, GetRUnlock, Goto
  <1>7. IssuedInv'
    <2>1. \A e \in issued' : Bound(h, e[1], e[2])
      BY DEF IInv, IssuedInv, ThreadInv, PutRUnlock, GetRUnlock, Goto
    <2> QED
      BY <1>1, <2>1 DEF IInv, IssuedInv
  <1> QED
    BY <1>2, <1>3, <1>4, <1>5, <1>6, <1>7 DEF IInv

(* Taking the write lock keeps the invariant: no reader and no writer is   *)
(* inside.                                                                 *)
LEMMA LockStepInv ==
  ASSUME IInv, NEW t \in Threads, PutLock(t)
  PROVE  IInv'
  <1>1. h' = h /\ issued' = issued /\ hash' = hash /\ index' = index
        /\ word' = word /\ Keeps
    BY QuietKeeps DEF PutLock
  <1>2. TypeOK'
    BY DEF IInv, TypeOK, PutLock, Goto, Lock, PutSteps
  <1>3. LockInv'
    BY NoThreadAssumption DEF IInv, TypeOK, LockInv, PutLock, Goto, Lock, Writing
  <1>4. HeapInv(h')
    BY <1>1 DEF IInv
  <1>5. ThreadInv(t)'
    BY <1>1 DEF IInv, TypeOK, ThreadInv, PutLock, Goto
  <1>6. ASSUME NEW u \in Threads, u # t PROVE ThreadInv(u)'
    BY <1>1, <1>6, Bystander DEF IInv, TypeOK, PutLock, Goto
  <1>7. IssuedInv'
    BY <1>1 DEF IInv, IssuedInv
  <1> QED
    BY <1>2, <1>3, <1>4, <1>5, <1>6, <1>7 DEF IInv

(* The recheck under the write lock is what makes the allocation safe: it  *)
(* establishes that the word is stored nowhere.                            *)
LEMMA RecheckInv ==
  ASSUME IInv, NEW t \in Threads, PutRecheck(t)
  PROVE  IInv'
  <1>1. h' = h /\ issued' = issued /\ word' = word /\ UNCHANGED lock /\ Keeps
    BY QuietKeeps DEF PutRecheck
  <1>2. PICK a \in HasResults(h, word[t]) :
          /\ index' = [index EXCEPT ![t] = a]
          /\ Goto(t, "put.recheck", IF a = Missing THEN "put.alloc" ELSE "put.unlock")
    BY DEF PutRecheck
  <1>3. word[t] \in Words /\ h.n \in Nat \ {0}
    BY DEF IInv, TypeOK, HeapType
  <1>4. /\ a \in Nat \cup {Missing}
        /\ a # Missing => Bound(h, word[t], a)
        /\ a = Missing => \A c \in Stored(h) : InnerGet(h, c) # word[t]
    BY <1>3, HasFacts
  <1>5. hash' = [hash EXCEPT ![t] = BucketOf(word[t], h.n)]
        /\ BucketOf(word[t], h.n) \in Nat
    BY <1>3, BucketRange DEF PutRecheck
  <1>6. TypeOK'
    BY <1>1, <1>2, <1>4, <1>5 DEF IInv, TypeOK, Goto, lock, PutSteps
  <1>7. LockInv'
    <2>1. readers = {}
      BY DEF PutRecheck, HoldsWrite
    <2> QED
      BY <1>1, <1>2, <2>1 DEF IInv, TypeOK, LockInv, Goto, lock, Writing
  <1>8. HeapInv(h')
    BY <1>1 DEF IInv
  <1>9. ThreadInv(t)'
    BY <1>1, <1>2, <1>4, <1>5 DEF IInv, TypeOK, ThreadInv, Goto
  <1>10. ASSUME NEW u \in Threads, u # t PROVE ThreadInv(u)'
    BY <1>1, <1>2, <1>5, <1>10, Bystander DEF IInv, TypeOK, Goto
  <1>11. IssuedInv'
    BY <1>1 DEF IInv, IssuedInv
  <1> QED
    BY <1>6, <1>7, <1>8, <1>9, <1>10, <1>11 DEF IInv

(* Only one thread at a time is past Lock.                                 *)
LEMMA OneWriter ==
  ASSUME IInv, NEW t \in Threads, pc[t] \in Writing,
         NEW u \in Threads, u # t
  PROVE  pc[u] \notin Writing
  BY DEF IInv, LockInv

(* alloc under the write lock keeps the invariant: the word gets one new   *)
(* chunk, which no bucket holds yet.                                       *)
LEMMA AllocInv ==
  ASSUME IInv, NEW t \in Threads, PutAlloc(t)
  PROVE  IInv'
  <1> DEFINE a == Len(h.heap)
  <1>1. /\ pc[t] = "put.alloc" /\ h' = Alloc(h, word[t])
        /\ pc' = [pc EXCEPT ![t] = "put.append"]
        /\ index' = [index EXCEPT ![t] = a]
        /\ word' = word /\ hash' = hash /\ issued' = issued /\ UNCHANGED lock
    BY DEF PutAlloc, Goto
  <1>2. HeapType(h) /\ HeapInv(h) /\ word[t] \in Words /\ a \in Nat
    BY DEF IInv, TypeOK, HeapType
  <1>3. HeapType(h') /\ h'.n = h.n /\ h'.buckets = h.buckets
    BY <1>1, <1>2, AllocType
  <1>4. Stored(h') = Stored(h)
    BY <1>3 DEF Stored
  <1>5. word[t] # <<>>
    <2>1. Bound(h, <<>>, 0)
      BY DEF IInv, IssuedInv
    <2> QED
      BY <1>1, <2>1 DEF IInv, ThreadInv, Bound
  <1>6. \A c \in Stored(h) : InnerGet(h', c) = InnerGet(h, c) /\ ValidChunk(h', c)
    <2> TAKE c \in Stored(h)
    <2>1. ValidChunk(h, c)
      BY <1>2, StoredDef DEF HeapInv
    <2> QED
      BY <1>1, <1>2, <2>1, AllocKeeps
  <1>7. InnerGet(h', a) = word[t] /\ ValidChunk(h', a)
    BY <1>1, <1>2, <1>5, AllocStores
  <1>8. Keeps
    BY <1>4, <1>6 DEF Keeps, Bound
  <1>9. TypeOK'
    BY <1>1, <1>2, <1>3 DEF IInv, TypeOK, lock, PutSteps
  <1>10. LockInv'
    BY <1>1 DEF IInv, TypeOK, LockInv, lock, Writing
  <1>11. HeapInv(h')
    <2>1. \A b \in 0 .. h'.n - 1 : \A c \in h'.buckets[b] : c \in Stored(h)
      BY <1>3, StoredDef
    <2> QED
      BY <1>2, <1>3, <1>4, <1>6, <2>1 DEF HeapInv
  <1>12. ThreadInv(t)'
    <2>1. \A c \in Stored(h') : InnerGet(h', c) # word[t]
      BY <1>1, <1>4, <1>6 DEF IInv, ThreadInv
    <2>2. hash[t] = BucketOf(word[t], h'.n)
      BY <1>1, <1>3 DEF IInv, ThreadInv
    <2>3. pc'[t] = "put.append" /\ index'[t] = a
      BY <1>1 DEF IInv, TypeOK
    <2> QED
      BY <1>1, <1>7, <2>1, <2>2, <2>3 DEF ThreadInv
  <1>13. ASSUME NEW u \in Threads, u # t PROVE ThreadInv(u)'
    <2>1. pc[u] \notin Writing
      BY <1>1, <1>13, OneWriter DEF Writing
    <2> QED
      BY <1>1, <1>8, <1>13, <2>1, Bystander DEF IInv, TypeOK
  <1>14. IssuedInv'
    BY <1>1, <1>8 DEF IInv, IssuedInv, Keeps
  <1> QED
    BY <1>9, <1>10, <1>11, <1>12, <1>13, <1>14 DEF IInv

(* Recording the new address in its bucket keeps the invariant.            *)
LEMMA AppendStepInv ==
  ASSUME IInv, NEW t \in Threads, PutAppend(t)
  PROVE  IInv'
  <1> DEFINE a == index[t]
  <1>1. /\ pc[t] = "put.append" /\ h' = AppendBucket(h, hash[t], a)
        /\ pc' = [pc EXCEPT ![t] = "put.rehash"]
        /\ word' = word /\ index' = index /\ hash' = hash /\ issued' = issued
        /\ UNCHANGED lock
    BY DEF PutAppend, Goto
  <1>2. HeapType(h) /\ HeapInv(h)
    BY DEF IInv, TypeOK
  <1>3. /\ ValidChunk(h, a) /\ InnerGet(h, a) = word[t]
        /\ hash[t] = BucketOf(InnerGet(h, a), h.n)
        /\ \A c \in Stored(h) : InnerGet(h, c) # InnerGet(h, a)
    BY <1>1 DEF IInv, ThreadInv
  <1>4. /\ HeapType(h') /\ HeapInv(h')
        /\ h'.heap = h.heap /\ h'.lengths = h.lengths
        /\ Stored(h') = Stored(h) \cup {a}
    BY <1>1, <1>2, <1>3, AppendInv
  <1>5. \A c : InnerGet(h', c) = InnerGet(h, c)
    BY <1>4 DEF InnerGet
  <1>6. Keeps /\ Bound(h', word[t], a)
    BY <1>3, <1>4, <1>5 DEF Keeps, Bound
  <1>7. TypeOK'
    BY <1>1, <1>4 DEF IInv, TypeOK, lock, PutSteps
  <1>8. LockInv'
    BY <1>1 DEF IInv, TypeOK, LockInv, lock, Writing
  <1>9. ThreadInv(t)'
    <2>1. pc'[t] = "put.rehash"
      BY <1>1 DEF IInv, TypeOK
    <2> QED
      BY <1>1, <1>6, <2>1 DEF ThreadInv
  <1>10. ASSUME NEW u \in Threads, u # t PROVE ThreadInv(u)'
    <2>1. pc[u] \notin Writing
      BY <1>1, <1>10, OneWriter DEF Writing
    <2> QED
      BY <1>1, <1>6, <1>10, <2>1, Bystander DEF IInv, TypeOK
  <1>11. IssuedInv'
    BY <1>1, <1>6 DEF IInv, IssuedInv, Keeps
  <1> QED
    BY <1>4, <1>7, <1>8, <1>9, <1>10, <1>11 DEF IInv

(* rehashIfOverloaded keeps the invariant: no word and no address is lost. *)
LEMMA RehashStepInv ==
  ASSUME IInv, NEW t \in Threads, PutRehash(t)
  PROVE  IInv'
  <1>1. /\ pc[t] = "put.rehash" /\ h' = RehashIfOverloaded(h)
        /\ pc' = [pc EXCEPT ![t] = "put.unlock"]
        /\ word' = word /\ index' = index /\ hash' = hash /\ issued' = issued
        /\ UNCHANGED lock
    BY DEF PutRehash, Goto
  <1>2. HeapType(h) /\ HeapInv(h)
    BY DEF IInv, TypeOK
  <1>3. /\ HeapType(h') /\ HeapInv(h')
        /\ h'.heap = h.heap /\ h'.lengths = h.lengths
        /\ Stored(h') = Stored(h)
    BY <1>1, <1>2, RehashInv
  <1>4. \A c : InnerGet(h', c) = InnerGet(h, c)
    BY <1>3 DEF InnerGet
  <1>5. Keeps
    BY <1>3, <1>4 DEF Keeps, Bound
  <1>6. TypeOK'
    BY <1>1, <1>3 DEF IInv, TypeOK, lock, PutSteps
  <1>7. LockInv'
    BY <1>1 DEF IInv, TypeOK, LockInv, lock, Writing
  <1>8. ThreadInv(t)'
    <2>1. pc'[t] = "put.unlock" /\ Bound(h', word[t], index[t])
      BY <1>1, <1>5 DEF IInv, TypeOK, ThreadInv, Keeps
    <2> QED
      BY <1>1, <2>1 DEF ThreadInv
  <1>9. ASSUME NEW u \in Threads, u # t PROVE ThreadInv(u)'
    <2>1. pc[u] \notin Writing
      BY <1>1, <1>9, OneWriter DEF Writing
    <2> QED
      BY <1>1, <1>5, <1>9, <2>1, Bystander DEF IInv, TypeOK
  <1>10. IssuedInv'
    BY <1>1, <1>5 DEF IInv, IssuedInv, Keeps
  <1> QED
    BY <1>3, <1>6, <1>7, <1>8, <1>9, <1>10 DEF IInv

(* Unlock keeps the invariant: the writer leaves the table complete.       *)
LEMMA UnlockInv ==
  ASSUME IInv, NEW t \in Threads, PutUnlock(t)
  PROVE  IInv'
  <1>1. h' = h /\ hash' = hash /\ index' = index /\ word' = word
        /\ issued' = issued \cup {<<word[t], index[t]>>} /\ Keeps
    BY QuietKeeps DEF PutUnlock
  <1>2. Bound(h, word[t], index[t]) /\ index[t] \in Nat
    <2>1. Bound(h, word[t], index[t])
      BY DEF IInv, ThreadInv, PutUnlock, Goto
    <2> QED
      BY <2>1, StoredDef DEF IInv, Bound, HeapInv, ValidChunk
  <1>3. TypeOK'
    BY <1>1, <1>2 DEF IInv, TypeOK, PutUnlock, Goto, Unlock
  <1>4. LockInv'
    BY NoThreadAssumption DEF IInv, TypeOK, LockInv, PutUnlock, Goto, Unlock, Writing
  <1>5. HeapInv(h')
    BY <1>1 DEF IInv
  <1>6. ThreadInv(t)'
    BY <1>1 DEF IInv, TypeOK, ThreadInv, PutUnlock, Goto
  <1>7. ASSUME NEW u \in Threads, u # t PROVE ThreadInv(u)'
    BY <1>1, <1>7, Bystander DEF IInv, TypeOK, PutUnlock, Goto
  <1>8. IssuedInv'
    BY <1>1, <1>2 DEF IInv, IssuedInv
  <1> QED
    BY <1>3, <1>4, <1>5, <1>6, <1>7, <1>8 DEF IInv

-----------------------------------------------------------------------------
(* The invariant is inductive.                                             *)
LEMMA NextInv == IInv /\ [Next]_vars => IInv'
  <1> SUFFICES ASSUME IInv, [Next]_vars PROVE IInv'
    OBVIOUS
  <1>1. ASSUME NEW t \in Threads, Step(t) PROVE IInv'
    BY <1>1, RLockInv, HasInv, GetReadInv, RUnlockInv, LockStepInv, RecheckInv,
       AllocInv, AppendStepInv, RehashStepInv, UnlockInv DEF Step
  <1>2. CASE UNCHANGED vars
    BY <1>2 DEF vars, IInv, TypeOK, LockInv, ThreadInv, IssuedInv
  <1> QED
    BY <1>1, <1>2, CallInv DEF Next

(* In every reachable state of SharedHeap the invariant holds.             *)
THEOREM Invariance == Spec => []IInv
  BY InitInv, NextInv, PTL DEF Spec

(* SharedHeap: every field of the pool and every local variable of its     *)
(* methods keeps its type.                                                 *)
THEOREM TypeCorrect == Spec => []TypeOK
  BY Invariance, PTL DEF IInv

(* Two Puts return the same index exactly when they were given the same    *)
(* word, however their read locked lookup, the gap between the locks and   *)
(* the write locked part interleave.                                       *)
THEOREM PutIsCanonical == Spec => []Canonical
  <1>1. IInv => Canonical
    <2> SUFFICES ASSUME IInv, NEW p \in issued, NEW q \in issued
                 PROVE  p[1] = q[1] <=> p[2] = q[2]
      BY DEF Canonical
    <2>1. Bound(h, p[1], p[2]) /\ Bound(h, q[1], q[2])
      BY DEF IInv, IssuedInv
    <2> QED
      BY <2>1 DEF IInv, HeapInv, Bound
  <1> QED
    BY <1>1, Invariance, PTL

(* Get returns the word whose Put returned the index.                      *)
THEOREM GetIsCorrect == Spec => []GetCorrect
  <1>1. IInv => GetCorrect
    BY DEF IInv, ThreadInv, GetCorrect
  <1> QED
    BY <1>1, Invariance, PTL

(* Put and Get never access the heap at the same time as a Put that        *)
(* changes it.                                                             *)
THEOREM NoDataRace == Spec => []RaceFree
  <1>1. IInv => RaceFree
    BY DEF IInv, LockInv, RaceFree, Writing, HoldsRead, HoldsWrite
  <1> QED
    BY <1>1, Invariance, PTL

(* Outside a write, has() finds exactly the one address of a word that was *)
(* ever returned for it.                                                   *)
THEOREM WordsStayFindable == Spec => []Findable
  <1>1. IInv => Findable
    <2> SUFFICES ASSUME IInv, NEW e \in issued
                 PROVE  Matches(h, e[1]) = {e[2]}
      BY DEF Findable
    <2> DEFINE b == BucketOf(e[1], h.n)
    <2>1. e[1] \in Words /\ h.n \in Nat \ {0} /\ HeapInv(h)
      BY DEF IInv, TypeOK, HeapType
    <2>2. b \in 0 .. h.n - 1
      BY <2>1, BucketRange
    <2>3. e[2] \in Stored(h) /\ InnerGet(h, e[2]) = e[1]
      BY DEF IInv, IssuedInv, Bound
    <2>4. PICK c \in 0 .. h.n - 1 : e[2] \in h.buckets[c]
      BY <2>3, StoredDef
    <2>5. c = b
      BY <2>1, <2>3, <2>4 DEF HeapInv
    <2>6. e[2] \in Matches(h, e[1])
      BY <2>3, <2>4, <2>5 DEF Matches
    <2>7. \A a \in Matches(h, e[1]) : a = e[2]
      BY <2>1, <2>2, <2>3, StoredDef DEF Matches, HeapInv
    <2> QED
      BY <2>6, <2>7
  <1> QED
    BY <1>1, Invariance, PTL

(* No step rewrites the word behind an index that has been returned.       *)
THEOREM IndicesAreStable == Spec => IndicesStable
  <1>1. IInv /\ IInv' /\ [Next]_vars =>
          [\A e \in issued : InnerGet(h, e[2])' = InnerGet(h, e[2])]_vars
    <2> SUFFICES ASSUME IInv, IInv', [Next]_vars, NEW e \in issued
                 PROVE  InnerGet(h', e[2]) = InnerGet(h, e[2])
      OBVIOUS
    <2>1. e \in issued'
      BY DEF Next, Step, vars, PutCall, GetCall, PutRLock, PutHas, PutRUnlock,
             PutLock, PutRecheck, PutAlloc, PutAppend, PutRehash, PutUnlock,
             GetRLock, GetRead, GetRUnlock
    <2> QED
      BY <2>1 DEF IInv, IssuedInv, Bound
  <1> QED
    BY <1>1, Invariance, PTL DEF Spec, IndicesStable

-----------------------------------------------------------------------------
(* The refinement of InternTable.                                          *)

(* The table of the promise, in terms of what is stored.                   *)
LEMMA TableFacts ==
  ASSUME NEW x, NEW w, NEW a
  PROVE  <<w, a>> \in Table(x) <=> Bound(x, w, a)
  BY StoredDef DEF Table, Bound

(* Entries of the table are pairs.                                         *)
LEMMA TablePairs ==
  ASSUME NEW x, NEW e \in Table(x)
  PROVE  e = <<e[1], e[2]>> /\ Bound(x, e[1], e[2])
  BY StoredDef DEF Table, Bound

(* A step of t changes what the promise says about t only.                 *)
LEMMA OnlyT ==
  ASSUME IInv, NEW t \in Threads, NEW to, pc' = [pc EXCEPT ![t] = to],
         \A u \in Threads : u # t => index'[u] = index[u],
         NEW s, StageOf(t)' = s
  PROVE  /\ Stages' = [Stages EXCEPT ![t] = s]
         /\ Indexes' = [Indexes EXCEPT ![t] = IF s = "put" THEN Missing ELSE index'[t]]
  <1>1. \A u \in Threads : u # t => pc'[u] = pc[u]
    BY DEF IInv, TypeOK
  <1>2. \A u \in Threads : u # t => StageOf(u)' = StageOf(u)
    BY <1>1 DEF StageOf
  <1>3. \A u \in Threads : StageOf(u)' = IF u = t THEN s ELSE StageOf(u)
    BY <1>2
  <1> QED
    BY <1>3 DEF Stages, Indexes

(* What the promise knows of a thread.                                     *)
LEMMA OfThread ==
  ASSUME NEW t \in Threads
  PROVE  /\ Stages[t] = StageOf(t)
         /\ Indexes[t] = IF StageOf(t) = "put" THEN Missing ELSE index[t]
  BY DEF Stages, Indexes

(* A step that the promise does not see.                                   *)
LEMMA Unseen ==
  ASSUME IInv, NEW t \in Threads, NEW to, pc' = [pc EXCEPT ![t] = to],
         \A u \in Threads : u # t => index'[u] = index[u],
         StageOf(t)' = StageOf(t), StageOf(t) # "put" => index'[t] = index[t],
         word' = word, Table(h') = Table(h)
  PROVE  UNCHANGED Intern!vars
  <1>1. /\ Stages' = [Stages EXCEPT ![t] = StageOf(t)]
        /\ Indexes' = [Indexes EXCEPT ![t] = IF StageOf(t) = "put" THEN Missing ELSE index'[t]]
    BY OnlyT
  <1>2. Stages' = Stages /\ Indexes' = Indexes
    BY <1>1 DEF Stages, Indexes
  <1> QED
    BY <1>2 DEF Intern!vars

(* A Put, from its call to its return.                                     *)
LEMMA PutCalls ==
  ASSUME IInv, NEW t \in Threads, NEW w \in Words, PutCall(t, w)
  PROVE  Intern!CallPut(t)
  <1>1. /\ pc[t] = "idle" /\ pc' = [pc EXCEPT ![t] = "put.rlock"] /\ h' = h
        /\ word' = [word EXCEPT ![t] = w] /\ index' = [index EXCEPT ![t] = Missing]
    BY DEF PutCall, Goto
  <1>2. StageOf(t)' = "put" /\ StageOf(t) = "idle"
    BY <1>1 DEF IInv, TypeOK, StageOf
  <1>3. Stages' = [Stages EXCEPT ![t] = "put"] /\ Indexes' = [Indexes EXCEPT ![t] = Missing]
    BY <1>1, <1>2, OnlyT DEF IInv, TypeOK
  <1> QED
    BY <1>1, <1>2, <1>3, OfThread DEF Intern!CallPut

(* A lookup that succeeds, under either lock, is where Put takes effect.   *)
LEMMA LookupFinds ==
  ASSUME IInv, NEW t \in Threads, StageOf(t) = "put", NEW a \in HasResults(h, word[t]),
         NEW to, pc' = [pc EXCEPT ![t] = to], index' = [index EXCEPT ![t] = a],
         h' = h, word' = word,
         to \in {"put.runlock", "put.unlock"} \/ a = Missing,
         a = Missing => to \in {"put.runlock", "put.alloc"}
  PROVE  Intern!Find(t) \/ UNCHANGED Intern!vars
  <1>1. word[t] \in Words /\ index'[t] = a /\ pc'[t] = to
    BY DEF IInv, TypeOK
  <1>2. a \in Nat \cup {Missing} /\ (a # Missing => Bound(h, word[t], a))
    BY <1>1, HasFacts
  <1>3. CASE a = Missing
    <2>1. StageOf(t)' = "put"
      BY <1>1, <1>3 DEF StageOf, Missing
    <2> QED BY <1>3, <2>1, Unseen DEF IInv, TypeOK
  <1>4. CASE a # Missing
    <2>1. StageOf(t)' = "done"
      BY <1>1, <1>4 DEF StageOf
    <2>2. Stages' = [Stages EXCEPT ![t] = "done"] /\ Indexes' = [Indexes EXCEPT ![t] = a]
      BY <1>1, <2>1, OnlyT DEF IInv, TypeOK
    <2>3. <<word[t], a>> \in Table(h)
      BY <1>2, <1>4, TableFacts
    <2> QED BY <2>2, <2>3, OfThread DEF Intern!Find
  <1> QED
    BY <1>3, <1>4

(* A call that has taken effect returns.                                   *)
LEMMA Returns ==
  ASSUME IInv, NEW t \in Threads, StageOf(t) = "done", pc' = [pc EXCEPT ![t] = "idle"],
         h' = h, word' = word, index' = index
  PROVE  Intern!Return(t)
  <1>1. StageOf(t)' = "idle"
    BY DEF IInv, TypeOK, StageOf
  <1>2. Stages' = [Stages EXCEPT ![t] = "idle"] /\ Indexes' = [Indexes EXCEPT ![t] = index[t]]
    BY <1>1, OnlyT
  <1>3. Indexes' = Indexes
    BY <1>2 DEF Indexes
  <1> QED
    BY <1>2, <1>3, OfThread DEF Intern!Return

(* A new word enters the table with the entry in its bucket, not before.   *)
LEMMA AllocUnseen ==
  ASSUME IInv, NEW t \in Threads, PutAlloc(t)
  PROVE  UNCHANGED Intern!vars
  <1>1. /\ pc[t] = "put.alloc" /\ pc' = [pc EXCEPT ![t] = "put.append"]
        /\ index' = [index EXCEPT ![t] = Len(h.heap)] /\ h' = Alloc(h, word[t]) /\ word' = word
    BY DEF PutAlloc, Goto
  <1>2. HeapType(h) /\ HeapInv(h) /\ word[t] \in Words
    BY DEF IInv, TypeOK
  <1>3. h'.n = h.n /\ h'.buckets = h.buckets
    BY <1>1, <1>2, AllocType
  <1>4. \A b \in 0 .. h.n - 1 : \A a \in h.buckets[b] : InnerGet(h', a) = InnerGet(h, a)
    BY <1>1, <1>2, AllocKeeps DEF HeapInv
  <1>5. Table(h') = Table(h)
    BY <1>3, <1>4 DEF Table
  <1>6. StageOf(t) = "put" /\ StageOf(t)' = "put"
    BY <1>1 DEF IInv, TypeOK, StageOf
  <1> QED
    BY <1>1, <1>5, <1>6, Unseen DEF IInv, TypeOK

(* ... under an index that was never given out.                            *)
LEMMA AppendAdds ==
  ASSUME IInv, NEW t \in Threads, PutAppend(t)
  PROVE  Intern!Add(t)
  <1> DEFINE a == index[t]
  <1>1. /\ pc[t] = "put.append" /\ pc' = [pc EXCEPT ![t] = "put.rehash"]
        /\ index' = index /\ h' = AppendBucket(h, hash[t], a) /\ word' = word
    BY DEF PutAppend, Goto
  <1>2. /\ ValidChunk(h, a) /\ InnerGet(h, a) = word[t] /\ hash[t] = BucketOf(InnerGet(h, a), h.n)
        /\ \A c \in Stored(h) : InnerGet(h, c) # InnerGet(h, a)
    BY <1>1 DEF IInv, ThreadInv
  <1>3. /\ h'.heap = h.heap /\ h'.lengths = h.lengths /\ Stored(h') = Stored(h) \cup {a}
    BY <1>1, <1>2, AppendInv DEF IInv, TypeOK
  <1>4. \A c : InnerGet(h', c) = InnerGet(h, c)
    BY <1>3 DEF InnerGet
  <1>5. Table(h') = Table(h) \cup {<<word[t], a>>}
    <2>1. \A e \in Table(h') : e \in Table(h) \cup {<<word[t], a>>}
      <3> TAKE e \in Table(h')
      <3>1. e = <<e[1], e[2]>> /\ Bound(h', e[1], e[2])
        BY TablePairs
      <3>2. e[2] = a => e[1] = word[t]
        BY <1>2, <1>4, <3>1 DEF Bound
      <3>3. e[2] # a => Bound(h, e[1], e[2])
        BY <1>3, <1>4, <3>1 DEF Bound
      <3> QED BY <3>1, <3>2, <3>3, TableFacts
    <2>2. \A e \in Table(h) : e \in Table(h')
      <3> TAKE e \in Table(h)
      <3>1. e = <<e[1], e[2]>> /\ Bound(h, e[1], e[2])
        BY TablePairs
      <3>2. Bound(h', e[1], e[2])
        BY <1>3, <1>4, <3>1 DEF Bound
      <3> QED BY <3>1, <3>2, TableFacts
    <2>3. <<word[t], a>> \in Table(h')
      BY <1>2, <1>3, <1>4, TableFacts DEF Bound
    <2> QED BY <2>1, <2>2, <2>3
  <1>6. \A e \in Table(h) : e[1] # word[t] /\ e[2] # a
    BY <1>2, TablePairs DEF Bound
  <1>7. StageOf(t) = "put" /\ StageOf(t)' = "done"
    BY <1>1 DEF IInv, TypeOK, StageOf
  <1>8. Stages' = [Stages EXCEPT ![t] = "done"] /\ Indexes' = [Indexes EXCEPT ![t] = a]
    BY <1>1, <1>7, OnlyT
  <1>9. Indexes'[t] = a /\ a \in Nat
    BY <1>2, <1>8 DEF Indexes, ValidChunk
  <1> QED
    BY <1>1, <1>5, <1>6, <1>7, <1>8, <1>9, OfThread DEF Intern!Add

(* A rehash moves entries between buckets and is not seen.                 *)
LEMMA RehashUnseen ==
  ASSUME IInv, NEW t \in Threads, PutRehash(t)
  PROVE  UNCHANGED Intern!vars
  <1>1. /\ pc[t] = "put.rehash" /\ pc' = [pc EXCEPT ![t] = "put.unlock"]
        /\ index' = index /\ h' = RehashIfOverloaded(h) /\ word' = word
    BY DEF PutRehash, Goto
  <1>2. h'.heap = h.heap /\ h'.lengths = h.lengths /\ Stored(h') = Stored(h)
    BY <1>1, RehashInv DEF IInv, TypeOK
  <1>3. \A c : InnerGet(h', c) = InnerGet(h, c)
    BY <1>2 DEF InnerGet
  <1>4. \A w, a : Bound(h', w, a) <=> Bound(h, w, a)
    BY <1>2, <1>3 DEF Bound
  <1>5. Table(h') = Table(h)
    <2>1. \A e \in Table(h') : e \in Table(h)
      BY <1>4, TablePairs, TableFacts
    <2>2. \A e \in Table(h) : e \in Table(h')
      BY <1>4, TablePairs, TableFacts
    <2> QED BY <2>1, <2>2
  <1>6. Bound(h, word[t], index[t])
    BY <1>1 DEF IInv, ThreadInv
  <1>7. index[t] # Missing
    BY <1>6, StoredDef DEF IInv, Bound, HeapInv, ValidChunk, Missing
  <1>8. StageOf(t) = "done" /\ StageOf(t)' = "done"
    BY <1>1, <1>7 DEF IInv, TypeOK, StageOf
  <1> QED
    BY <1>1, <1>5, <1>8, Unseen

(* Get reads the word of the table at one instant, under the read lock.    *)
LEMMA ReadFetches ==
  ASSUME IInv, NEW t \in Threads, GetRead(t)
  PROVE  Intern!Fetch(t)
  <1>1. /\ pc[t] = "get.read" /\ pc' = [pc EXCEPT ![t] = "get.runlock"]
        /\ index' = index /\ h' = h /\ word' = [word EXCEPT ![t] = InnerGet(h, index[t])]
    BY DEF GetRead, Goto
  <1>2. PICK e \in issued : e[2] = index[t]
    BY <1>1 DEF IInv, ThreadInv
  <1>3. Bound(h, e[1], index[t])
    BY <1>2 DEF IInv, IssuedInv
  <1>4. <<e[1], index[t]>> \in Table(h) /\ InnerGet(h, index[t]) = e[1]
    BY <1>3, TableFacts DEF Bound
  <1>5. StageOf(t) = "get" /\ StageOf(t)' = "done"
    BY <1>1 DEF IInv, TypeOK, StageOf
  <1>6. Stages' = [Stages EXCEPT ![t] = "done"] /\ Indexes' = [Indexes EXCEPT ![t] = index[t]]
    BY <1>1, <1>5, OnlyT
  <1>7. Indexes' = Indexes
    BY <1>5, <1>6 DEF Indexes
  <1> QED
    BY <1>1, <1>4, <1>5, <1>6, <1>7, OfThread DEF Intern!Fetch

(* Get is called with an index some Put has returned.                      *)
LEMMA GetCalls ==
  ASSUME IInv, NEW t \in Threads, GetCall(t)
  PROVE  Intern!CallGet(t)
  <1>1. /\ pc[t] = "idle" /\ pc' = [pc EXCEPT ![t] = "get.rlock"] /\ h' = h /\ word' = word
    BY DEF GetCall, Goto
  <1>2. PICK e \in issued : index' = [index EXCEPT ![t] = e[2]]
    BY DEF GetCall
  <1>3. Bound(h, e[1], e[2])
    BY DEF IInv, IssuedInv
  <1>4. <<e[1], e[2]>> \in Table(h)
    BY <1>3, TableFacts
  <1>5. StageOf(t) = "idle" /\ StageOf(t)' = "get"
    BY <1>1 DEF IInv, TypeOK, StageOf
  <1>6. Stages' = [Stages EXCEPT ![t] = "get"] /\ Indexes' = [Indexes EXCEPT ![t] = e[2]]
    BY <1>1, <1>2, <1>5, OnlyT DEF IInv, TypeOK
  <1> QED
    BY <1>1, <1>4, <1>5, <1>6, OfThread DEF Intern!CallGet

(* Every step of SharedHeap is a step of the promise, or none.             *)
LEMMA StepSimulates ==
  ASSUME IInv, [Next]_vars
  PROVE  [Intern!Next]_(Intern!vars)
  <1>1. CASE UNCHANGED vars
    <2>1. UNCHANGED <<h, word, pc, index>>
      BY <1>1 DEF vars
    <2>2. Stages' = Stages /\ Indexes' = Indexes
      BY <2>1 DEF Stages, Indexes, StageOf
    <2> QED BY <2>1, <2>2 DEF Intern!vars
  <1>2. ASSUME NEW t \in Threads, NEW w \in Words, PutCall(t, w)
        PROVE  Intern!Next
    BY <1>2, PutCalls DEF Intern!Next
  <1>3. ASSUME NEW t \in Threads, GetCall(t) PROVE Intern!Next
    BY <1>3, GetCalls DEF Intern!Next
  <1>4. ASSUME NEW t \in Threads, Step(t)
        PROVE  Intern!Next \/ UNCHANGED Intern!vars
    <2>1. CASE PutRLock(t)
      <3>1. StageOf(t) = "put" /\ StageOf(t)' = "put" /\ UNCHANGED <<h, word, index>>
        BY <2>1 DEF PutRLock, Goto, IInv, TypeOK, StageOf
      <3> QED BY <2>1, <3>1, Unseen DEF PutRLock, Goto
    <2>2. CASE PutHas(t)
      <3>1. StageOf(t) = "put"
        BY <2>2 DEF PutHas, Goto, StageOf
      <3> QED BY <2>2, <3>1, LookupFinds DEF PutHas, Goto, Intern!Next
    <2>3. CASE PutRUnlock(t)
      <3>1. CASE index[t] # Missing
        <4>1. StageOf(t) = "done"
          BY <2>3, <3>1 DEF PutRUnlock, Goto, StageOf
        <4> QED BY <2>3, <3>1, <4>1, Returns DEF PutRUnlock, Goto, Intern!Next
      <3>2. CASE index[t] = Missing
        <4>1. StageOf(t) = "put" /\ StageOf(t)' = "put" /\ UNCHANGED <<h, word, index>>
          BY <2>3, <3>2 DEF PutRUnlock, Goto, IInv, TypeOK, StageOf
        <4> QED BY <2>3, <3>2, <4>1, Unseen DEF PutRUnlock, Goto
      <3> QED BY <3>1, <3>2
    <2>4. CASE PutLock(t)
      <3>1. StageOf(t) = "put" /\ StageOf(t)' = "put" /\ UNCHANGED <<h, word, index>>
        BY <2>4 DEF PutLock, Goto, IInv, TypeOK, StageOf
      <3> QED BY <2>4, <3>1, Unseen DEF PutLock, Goto
    <2>5. CASE PutRecheck(t)
      <3>1. StageOf(t) = "put"
        BY <2>5 DEF PutRecheck, Goto, StageOf
      <3> QED BY <2>5, <3>1, LookupFinds DEF PutRecheck, Goto, Intern!Next
    <2>6. CASE PutUnlock(t)
      <3>1. Bound(h, word[t], index[t])
        BY <2>6 DEF PutUnlock, Goto, IInv, ThreadInv
      <3>2. index[t] # Missing
        BY <3>1, StoredDef DEF IInv, Bound, HeapInv, ValidChunk, Missing
      <3>3. StageOf(t) = "done"
        BY <2>6, <3>2 DEF PutUnlock, Goto, StageOf
      <3> QED BY <2>6, <3>3, Returns DEF PutUnlock, Goto, Intern!Next
    <2>7. CASE GetRLock(t)
      <3>1. StageOf(t) = "get" /\ StageOf(t)' = "get" /\ UNCHANGED <<h, word, index>>
        BY <2>7 DEF GetRLock, Goto, IInv, TypeOK, StageOf
      <3> QED BY <2>7, <3>1, Unseen DEF GetRLock, Goto
    <2>8. CASE GetRUnlock(t)
      <3>1. StageOf(t) = "done"
        BY <2>8 DEF GetRUnlock, Goto, StageOf
      <3> QED BY <2>8, <3>1, Returns DEF GetRUnlock, Goto, Intern!Next
    <2>9. CASE PutAlloc(t)
      BY <2>9, AllocUnseen
    <2>10. CASE PutAppend(t)
      BY <2>10, AppendAdds DEF Intern!Next
    <2>11. CASE PutRehash(t)
      BY <2>11, RehashUnseen
    <2>12. CASE GetRead(t)
      BY <2>12, ReadFetches DEF Intern!Next
    <2> QED
      BY <1>4, <2>1, <2>2, <2>3, <2>4, <2>5, <2>6, <2>7, <2>8, <2>9, <2>10, <2>11, <2>12
      DEF Step
  <1> QED
    BY <1>1, <1>2, <1>3, <1>4 DEF Next

(* NewSharedHeap holds the zero word, and nobody has called.               *)
LEMMA InitSimulates ==
  ASSUME Init
  PROVE  Intern!Init
  <1>1. \A t \in Threads : StageOf(t) = "idle"
    BY DEF Init, StageOf
  <1>2. Stages = [t \in Threads |-> "idle"] /\ Indexes = [t \in Threads |-> Missing]
    BY <1>1 DEF Init, Stages, Indexes
  <1>3. IInv
    BY InitInv
  <1>4. Bound(h, <<>>, 0)
    BY <1>3 DEF IInv, IssuedInv
  <1>5. \A a \in Stored(h) : a = 0
    <2>1. h.n = InitBuckets /\ \A b \in 0 .. InitBuckets - 1 : h.buckets[b] \subseteq {0}
      BY DEF Init, NewHeap
    <2> QED BY <2>1, StoredDef
  <1>6. Table(h) = {<< <<>>, 0>>}
    <2>1. << <<>>, 0>> \in Table(h)
      BY <1>4, TableFacts
    <2>2. \A e \in Table(h) : e = << <<>>, 0>>
      BY <1>4, <1>5, TablePairs DEF Bound
    <2> QED BY <2>1, <2>2
  <1> QED
    BY <1>2, <1>6 DEF Init, Intern!Init

(* SharedHeap implements an atomic table: each Put takes effect when one   *)
(* of its lookups succeeds or when its address enters a bucket, each Get   *)
(* when it reads, whatever the other threads do between the two locks.     *)
THEOREM PoolIsLinearizable == Spec => Linearizable
  <1>1. Init => Intern!Init
    BY InitSimulates
  <1>2. IInv /\ [Next]_vars => [Intern!Next]_(Intern!vars)
    BY StepSimulates
  <1> QED
    BY <1>1, <1>2, Invariance, PTL DEF Spec, Linearizable, Intern!Spec
=============================================================================
