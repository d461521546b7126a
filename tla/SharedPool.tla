----------------------------- MODULE SharedPool -----------------------------
(***************************************************************************)
(* SharedHeap: the word pool that the goroutines reading a trace share     *)
(* (pkg/util/collection/pool/shared_heap.go; SharedIndex runs the same     *)
(* protocol over one-cell chunks).  Put looks the word up under the read   *)
(* lock, releases it, and only when the word is missing takes the write    *)
(* lock, looks again and allocates.  Each thread may start any number of   *)
(* calls; a step is one call on the mutex or one access to the heap.       *)
(***************************************************************************)
EXTENDS HeapPool, FiniteSets

CONSTANTS
    Threads,   \* goroutines that hold a pointer to the pool
    NoThread   \* nobody

ASSUME NoThreadAssumption == NoThread \notin Threads

VARIABLES
    h,         \* the heap
    readers,   \* sync.RWMutex: threads that hold the read lock
    blocked,   \* sync.RWMutex: threads blocked in RLock
    writer,    \* sync.RWMutex: the thread that is in or past Lock
    pc,        \* per thread: the next step
    word,      \* per thread: the argument of Put, or what Get returns
    index,     \* per thread: index in Put, the argument of Get
    hash,      \* per thread: hash in Put
    issued     \* history: the <<word, index>> pairs that Put has returned

lock == <<readers, blocked, writer>>
vars == <<h, readers, blocked, writer, pc, word, index, hash, issued>>

PutSteps == {"put.rlock", "put.has", "put.runlock", "put.lock", "put.recheck",
             "put.alloc", "put.append", "put.rehash", "put.unlock"}
GetSteps == {"get.rlock", "get.read", "get.runlock"}

Goto(t, from, to) == pc[t] = from /\ pc' = [pc EXCEPT ![t] = to]

-----------------------------------------------------------------------------
(* sync.RWMutex.  A writer that has called Lock keeps new readers out and  *)
(* waits for the present ones; Unlock lets in every reader that blocked    *)
(* meanwhile, before another writer can get hold of the mutex.             *)

RLock(t) ==
    /\ IF writer = NoThread
         THEN readers' = readers \cup {t} /\ UNCHANGED blocked
         ELSE blocked' = blocked \cup {t} /\ UNCHANGED readers
    /\ UNCHANGED writer

RUnlock(t) == readers' = readers \ {t} /\ UNCHANGED <<blocked, writer>>

Lock(t) == writer = NoThread /\ writer' = t /\ UNCHANGED <<readers, blocked>>

(* Faulty Unlock: the readers that blocked meanwhile are not woken.        *)
UnlockNoWake(t) == writer' = NoThread /\ UNCHANGED <<readers, blocked>>

Unlock(t) ==
    /\ writer' = NoThread
    /\ readers' = readers \cup blocked
    /\ blocked' = {}

HoldsRead(t) == t \in readers
HoldsWrite(t) == writer = t /\ readers = {}

-----------------------------------------------------------------------------
(* Put(word)                                                               *)

PutCall(t, w) ==
    /\ Goto(t, "idle", "put.rlock")
    /\ word' = [word EXCEPT ![t] = w]
    /\ index' = [index EXCEPT ![t] = Missing]
    /\ UNCHANGED <<h, lock, hash, issued>>

PutRLock(t) ==
    /\ Goto(t, "put.rlock", "put.has")
    /\ RLock(t)
    /\ UNCHANGED <<h, word, index, hash, issued>>

PutHas(t) ==
    /\ Goto(t, "put.has", "put.runlock")
    /\ HoldsRead(t)
    /\ \E a \in HasResults(h, word[t]) : index' = [index EXCEPT ![t] = a]
    /\ UNCHANGED <<h, lock, word, hash, issued>>

(* The early return when the word was found is part of this step.          *)
PutRUnlock(t) ==
    /\ RUnlock(t)
    /\ IF index[t] # Missing
         THEN /\ Goto(t, "put.runlock", "idle")
              /\ issued' = issued \cup {<<word[t], index[t]>>}
         ELSE /\ Goto(t, "put.runlock", "put.lock")
              /\ UNCHANGED issued
    /\ UNCHANGED <<h, word, index, hash>>

(* Faulty Put: it allocates without taking the write lock.                 *)
PutLockless(t) ==
    /\ Goto(t, "put.lock", "put.alloc")
    /\ UNCHANGED <<h, lock, word, index, hash, issued>>

PutLock(t) ==
    /\ Goto(t, "put.lock", "put.recheck")
    /\ Lock(t)
    /\ UNCHANGED <<h, word, index, hash, issued>>

(* Faulty Put: the word is not looked up again under the write lock.       *)
PutNoRecheck(t) ==
    /\ HoldsWrite(t)
    /\ hash' = [hash EXCEPT ![t] = BucketOf(word[t], h.n)]
    /\ Goto(t, "put.recheck", "put.alloc")
    /\ UNCHANGED <<h, lock, word, index, issued>>

(* The second has(): its result and its hash replace the first ones.       *)
PutRecheck(t) ==
    /\ HoldsWrite(t)
    /\ hash' = [hash EXCEPT ![t] = BucketOf(word[t], h.n)]
    /\ \E a \in HasResults(h, word[t]) :
         /\ index' = [index EXCEPT ![t] = a]
         /\ Goto(t, "put.recheck", IF a = Missing THEN "put.alloc" ELSE "put.unlock")
    /\ UNCHANGED <<h, lock, word, issued>>

(* Faulty Put: the address is off by one.                                  *)
PutAllocOffByOne(t) ==
    /\ Goto(t, "put.alloc", "put.append")
    /\ index' = [index EXCEPT ![t] = Len(h.heap) - 1]
    /\ h' = Alloc(h, word[t])
    /\ UNCHANGED <<lock, word, hash, issued>>

PutAlloc(t) ==
    /\ Goto(t, "put.alloc", "put.append")
    /\ index' = [index EXCEPT ![t] = Len(h.heap)]
    /\ h' = Alloc(h, word[t])
    /\ UNCHANGED <<lock, word, hash, issued>>

PutAppend(t) ==
    /\ Goto(t, "put.append", "put.rehash")
    /\ h' = AppendBucket(h, hash[t], index[t])
    /\ UNCHANGED <<lock, word, index, hash, issued>>

PutRehash(t) ==
    /\ Goto(t, "put.rehash", "put.unlock")
    /\ h' = RehashIfOverloaded(h)
    /\ UNCHANGED <<lock, word, index, hash, issued>>

PutUnlock(t) ==
    /\ Goto(t, "put.unlock", "idle")
    /\ Unlock(t)
    /\ issued' = issued \cup {<<word[t], index[t]>>}
    /\ UNCHANGED <<h, word, index, hash>>

-----------------------------------------------------------------------------
(* Get(index), called with an index that some Put returned.                *)

GetCall(t) ==
    /\ Goto(t, "idle", "get.rlock")
    /\ \E e \in issued : index' = [index EXCEPT ![t] = e[2]]
    /\ UNCHANGED <<h, lock, word, hash, issued>>

GetRLock(t) ==
    /\ Goto(t, "get.rlock", "get.read")
    /\ RLock(t)
    /\ UNCHANGED <<h, word, index, hash, issued>>

GetRead(t) ==
    /\ Goto(t, "get.read", "get.runlock")
    /\ HoldsRead(t)
    /\ word' = [word EXCEPT ![t] = InnerGet(h, index[t])]
    /\ UNCHANGED <<h, lock, index, hash, issued>>

GetRUnlock(t) ==
    /\ Goto(t, "get.runlock", "idle")
    /\ RUnlock(t)
    /\ UNCHANGED <<h, word, index, hash, issued>>

-----------------------------------------------------------------------------
(* The steps of a thread inside a call.                                    *)
Step(t) ==
    \/ PutRLock(t) \/ PutHas(t) \/ PutRUnlock(t) \/ PutLock(t) \/ PutRecheck(t)
    \/ PutAlloc(t) \/ PutAppend(t) \/ PutRehash(t) \/ PutUnlock(t)
    \/ GetRLock(t) \/ GetRead(t) \/ GetRUnlock(t)

Next ==
    \E t \in Threads :
        \/ \E w \in Words : PutCall(t, w)
        \/ GetCall(t)
        \/ Step(t)

(* NewSharedHeap has run: the zero word is stored at address 0.            *)
Init ==
    /\ h = NewHeap
    /\ readers = {} /\ blocked = {} /\ writer = NoThread
    /\ pc = [t \in Threads |-> "idle"]
    /\ word = [t \in Threads |-> <<>>]
    /\ index = [t \in Threads |-> Missing]
    /\ hash = [t \in Threads |-> 0]
    /\ issued = {<< <<>>, 0>>}

Spec == Init /\ [][Next]_vars

(* A goroutine that can run is run; sync.Mutex hands the lock to the       *)
(* longest waiter after a bounded time, so Lock is strongly fair.          *)
FairSpec ==
    /\ Spec
    /\ \A t \in Threads : WF_vars(Step(t)) /\ SF_vars(PutLock(t))

(* Every variable has its type; the bytes and the lengths of the heap are  *)
(* parallel arrays.                                                        *)
TypeOK ==
    /\ HeapType(h)
    /\ readers \subseteq Threads
    /\ blocked \subseteq Threads
    /\ writer \in Threads \cup {NoThread}
    /\ pc \in [Threads -> {"idle"} \cup PutSteps \cup GetSteps]
    /\ word \in [Threads -> Words]
    /\ index \in [Threads -> Nat \cup {Missing}]
    /\ hash \in [Threads -> Nat]
    /\ issued \subseteq Words \X Nat

(* The heap is free of data races: while a thread changes it (alloc, the   *)
(* append to a bucket, rehash), no other thread is inside has or innerGet. *)
RaceFree ==
    \A t, u \in Threads :
        pc[u] \in {"put.alloc", "put.append", "put.rehash"} =>
            /\ ~(pc[t] \in {"put.has", "get.read"} /\ HoldsRead(t))
            /\ t # u => ~(pc[t] \in {"put.recheck", "put.alloc", "put.append",
                                     "put.rehash"} /\ HoldsWrite(t))

(* Put is canonical (Put rechecks under the write lock): whichever threads *)
(* ask and in whatever order, equal words get equal indices and different  *)
(* words different ones.                                                   *)
Canonical ==
    \A p, q \in issued : p[1] = q[1] <=> p[2] = q[2]

(* What Get returns is the word for which Put returned the index, however  *)
(* many allocations and rehashes of other threads came in between.         *)
GetCorrect ==
    \A t \in Threads :
        pc[t] = "get.runlock" => <<word[t], index[t]>> \in issued

(* Whenever no thread writes, has() finds every word that was ever         *)
(* returned, in the bucket where the present table would look for it.      *)
Findable ==
    writer = NoThread => \A e \in issued : Matches(h, e[1]) = {e[2]}

(* No step of any thread changes the word at an index already returned.    *)
IndicesStable ==
    [][\A e \in issued : InnerGet(h, e[2])' = InnerGet(h, e[2])]_vars

(* Every Put and every Get returns, though other threads may keep calling. *)
CallsReturn == \A t \in Threads : pc[t] # "idle" ~> pc[t] = "idle"

-----------------------------------------------------------------------------
(* Refinement of InternTable.  A Put takes effect when one of its lookups  *)
(* succeeds or when the new address is recorded in its bucket.             *)

StageOf(t) ==
    CASE pc[t] = "idle" -> "idle"
      [] pc[t] = "get.runlock" -> "done"
      [] pc[t] \in {"get.rlock", "get.read"} -> "get"
      [] pc[t] \in {"put.runlock", "put.unlock"} /\ index[t] # Missing -> "done"
      [] pc[t] = "put.rehash" -> "done"
      [] OTHER -> "put"

Stages == [t \in Threads |-> StageOf(t)]

(* A Put that has not taken effect has no index yet.                       *)
Indexes == [t \in Threads |-> IF StageOf(t) = "put" THEN Missing ELSE index[t]]

Intern == INSTANCE InternTable WITH
    Threads <- Threads, Words <- Words, Indices <- Nat, NoIndex <- Missing,
    table <- Table(h), stage <- Stages, word <- word, index <- Indexes

(* SharedHeap behaves as one table accessed atomically by its callers.     *)
Linearizable == Intern!Spec
=============================================================================
