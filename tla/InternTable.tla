----------------------------- MODULE InternTable -----------------------------
(***************************************************************************)
(* What a word pool promises to the threads that share it: a table that    *)
(* gives every word one index for ever.  Put looks a word up and adds it   *)
(* when it is new, Get reads a word back, and each takes effect at one     *)
(* instant between its call and its return.                                *)
(***************************************************************************)
CONSTANTS Threads, Words, Indices, NoIndex

VARIABLES
    table,  \* set of <<word, index>>
    stage,  \* per thread: "idle", "put", "get" (called) or "done"
    word,   \* per thread: the argument of Put, or what Get returns
    index   \* per thread: the argument of Get, or what Put returns

vars == <<table, stage, word, index>>

CallPut(t) ==
    /\ stage[t] = "idle"
    /\ \E w \in Words : word' = [word EXCEPT ![t] = w]
    /\ stage' = [stage EXCEPT ![t] = "put"]
    /\ index' = [index EXCEPT ![t] = NoIndex]
    /\ UNCHANGED table

CallGet(t) ==
    /\ stage[t] = "idle"
    /\ \E e \in table : index' = [index EXCEPT ![t] = e[2]]
    /\ stage' = [stage EXCEPT ![t] = "get"]
    /\ UNCHANGED <<table, word>>

(* Put of a word that has an index already.                                *)
Find(t) ==
    /\ stage[t] = "put"
    /\ \E e \in table : e[1] = word[t] /\ index' = [index EXCEPT ![t] = e[2]]
    /\ stage' = [stage EXCEPT ![t] = "done"]
    /\ UNCHANGED <<table, word>>

(* Put of a new word: the index is one that was never given out.           *)
Add(t) ==
    /\ stage[t] = "put"
    /\ \A e \in table : e[1] # word[t]
    /\ index'[t] \in Indices
    /\ \A e \in table : e[2] # index'[t]
    /\ index' = [index EXCEPT ![t] = index'[t]]
    /\ table' = table \cup {<<word[t], index'[t]>>}
    /\ stage' = [stage EXCEPT ![t] = "done"]
    /\ UNCHANGED word

Fetch(t) ==
    /\ stage[t] = "get"
    /\ \E e \in table : e[2] = index[t] /\ word' = [word EXCEPT ![t] = e[1]]
    /\ stage' = [stage EXCEPT ![t] = "done"]
    /\ UNCHANGED <<table, index>>

Return(t) ==
    /\ stage[t] = "done"
    /\ stage' = [stage EXCEPT ![t] = "idle"]
    /\ UNCHANGED <<table, word, index>>

Next ==
    \E t \in Threads :
        CallPut(t) \/ CallGet(t) \/ Find(t) \/ Add(t) \/ Fetch(t) \/ Return(t)

Init ==
    /\ stage = [t \in Threads |-> "idle"]
    /\ word = [t \in Threads |-> <<>>]
    /\ index = [t \in Threads |-> NoIndex]
    /\ \E e \in table : e[1] = <<>> /\ e[2] \in Indices /\ table = {e}

Spec == Init /\ [][Next]_vars
=============================================================================
