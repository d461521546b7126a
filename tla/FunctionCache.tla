---------------------------- MODULE FunctionCache ----------------------------
(***************************************************************************)
(* Trace propagation: the function instances of a trace are executed, and  *)
(* every instance they call, directly or not, is recorded by the executor  *)
(* and read back as the function's rows.                                   *)
(*                                                                         *)
(* An instance is the sequence of a function's inputs and outputs.  The    *)
(* executor keeps the instances of each function in a sorted array behind  *)
(* a RWMutex: looking one up is one step under the read lock, inserting    *)
(* one is one step under the write lock, and no lock is held while the     *)
(* function runs.  Every thread propagates a trace of its own against the  *)
(* shared executor; with one thread this is Propagate.                     *)
(***************************************************************************)
EXTENDS Integers, SequencesExt, SequenceTheorems, FiniteSetTheorems, TLAPS

CONSTANTS
    Program,    \* sequence of functions [ins, outs, pad, internals, code]
    Threads,
    Traces      \* [rows |-> instances per function, externs |-> external calls]

Functions == DOMAIN Program
NumRegisters(f) == Program[f].ins + Program[f].outs + Len(Program[f].internals)

(* An instruction reads registers of its function and writes those that    *)
(* are no inputs, and some instruction follows it unless it ends.          *)
InsnOK(f, pc) ==
    LET insn == Program[f].code[pc]
        read == 1..NumRegisters(f)
        written == (Program[f].ins + 1)..NumRegisters(f)
    IN  \/ insn.op \in {"ret", "fail"}
        \/ /\ insn.op = "in" /\ pc + 1 \in DOMAIN Program[f].code
           /\ insn.bus \in Functions
           /\ insn.addr \in Seq(read) /\ Len(insn.addr) = Program[insn.bus].ins
           /\ insn.data \in Seq(written) /\ Len(insn.data) = Program[insn.bus].outs
        \/ /\ insn.op = "add" /\ pc + 1 \in DOMAIN Program[f].code
           /\ insn.dst \in written /\ insn.src \in read
           /\ insn.by \in Nat /\ insn.mod \in Nat \ {0}
        \/ /\ insn.op = "jz" /\ pc + 1 \in DOMAIN Program[f].code
           /\ insn.src \in read /\ insn.to \in DOMAIN Program[f].code

(* What validation and linking leave of a program.                         *)
ProgramAssumption ==
    \A f \in Functions :
        /\ Program[f].ins \in Nat /\ Program[f].outs \in Nat
        /\ Program[f].pad \in Seq(Nat) /\ Len(Program[f].pad) = Program[f].ins + Program[f].outs
        /\ Program[f].internals \in Seq(Nat)
        /\ Program[f].code \in Seq(Range(Program[f].code)) /\ 1 \in DOMAIN Program[f].code
        /\ \A pc \in DOMAIN Program[f].code : InsnOK(f, pc)

VARIABLES
    trace,      \* per thread, the trace it propagates
    cache,      \* the instances of every function
    seeds,      \* per thread, the instances of its trace still to be executed
    at,         \* per thread, what it does next
    arg,        \* per thread, the call being looked up: function and inputs
    stack,      \* per thread, the frames of the functions it is executing
    errors      \* per thread, the inconsistent instances reported

vars == <<trace, cache, seeds, at, arg, stack, errors>>

-----------------------------------------------------------------------------
(* Instances and their order.                                              *)

Inputs(f, inst) == SubSeq(inst, 1, Program[f].ins)
Outputs(f, inst) == SubSeq(inst, Program[f].ins + 1, Len(inst))

(* ComponentInstance.Cmp on inputs: the last input is the most significant.*)
Less(a, b) ==
    \E i \in DOMAIN a : a[i] < b[i] /\ \A k \in (i + 1)..Len(a) : a[k] = b[k]

(* sort.Search: the first instance whose inputs are not below the key.     *)
SearchIndex(f, rows, key) ==
    Min({Len(rows) + 1} \cup {i \in DOMAIN rows : ~Less(Inputs(f, rows[i]), key)})

IsAt(f, rows, key, i) == i <= Len(rows) /\ Inputs(f, rows[i]) = key

(* AnySortedSet.Insert: nothing is inserted when the inputs are present.   *)
Insert(f, rows, inst) ==
    LET i == SearchIndex(f, rows, Inputs(f, inst))
    IN  IF IsAt(f, rows, Inputs(f, inst), i) THEN rows ELSE InsertAt(rows, i, inst)

(* ArrayModule.FindLast, through which the expanded trace is read back: 0  *)
(* when there is no such row.                                              *)
FindLast(f, rows, key) ==
    LET i == SearchIndex(f, rows, key)
        run == {j \in i..Len(rows) : \A k \in i..j : Inputs(f, rows[k]) = key}
    IN  IF IsAt(f, rows, key, i) THEN Max(run) ELSE 0

-----------------------------------------------------------------------------
(* Execution of one function: the inputs, zeros for the rest, except that  *)
(* the lines of a bus hold their padding.                                  *)

InitialRegisters(f, inputs) ==
    inputs \o [i \in 1..Program[f].outs |-> 0] \o Program[f].internals

Frame(f, inputs) == [fn |-> f, pc |-> 1, regs |-> InitialRegisters(f, inputs)]

Load(regs, ids) == [i \in DOMAIN ids |-> regs[ids[i]]]

StoreN(regs, ids, values) ==
    [r \in DOMAIN regs |->
        IF r \in Range(ids) THEN values[CHOOSE i \in DOMAIN ids : ids[i] = r] ELSE regs[r]]

(* An instruction that neither calls nor ends: an assignment, or a jump.   *)
Compute(frame, insn) ==
    IF insn.op = "add"
    THEN [frame EXCEPT !.pc = @ + 1,
                       !.regs[insn.dst] = (frame.regs[insn.src] + insn.by) % insn.mod]
    ELSE [frame EXCEPT !.pc = IF frame.regs[insn.src] = 0 THEN insn.to ELSE @ + 1]

Instance(frame) ==
    SubSeq(frame.regs, 1, Program[frame.fn].ins + Program[frame.fn].outs)

-----------------------------------------------------------------------------
(* The instances that a trace asks for, in order: per function its padding *)
(* and its rows, then the enabled rows of every external call.             *)

SeedsOf(tr) ==
    FlattenSeq([f \in Functions |->
        <<<<f, Program[f].pad>>>> \o [i \in DOMAIN tr.rows[f] |-> <<f, tr.rows[f][i]>>]])
    \o FlattenSeq([c \in DOMAIN tr.externs |->
        LET on == SelectSeq(tr.externs[c].rows, LAMBDA r : r.enabled)
        IN  [i \in DOMAIN on |-> <<tr.externs[c].callee, on[i].inst>>]])

Keys(f) == {k \in Seq(Nat) : Len(k) = Program[f].ins}
Instances(f) == {x \in Seq(Nat) : Len(x) = Program[f].ins + Program[f].outs}

Seeds == {s \in Functions \X Seq(Nat) : s[2] \in Instances(s[1])}

(* The instances that a trace asks for have the registers of functions.    *)
SeedsAssumption == \A tr \in Traces : SeedsOf(tr) \in Seq(Seeds)

Init ==
    /\ cache = [f \in Functions |-> <<>>]
    /\ trace \in [Threads -> Traces]
    /\ seeds = [t \in Threads |-> SeedsOf(trace[t])]
    /\ at = [t \in Threads |-> "idle"]
    /\ arg = [t \in Threads |-> <<>>]
    /\ stack = [t \in Threads |-> <<>>]
    /\ errors = [t \in Threads |-> {}]

Top(t) == Last(stack[t])
Insn(t) == Program[Top(t).fn].code[Top(t).pc]

(* executeAndCheck asks for the inputs of the next seed.                   *)
Begin(t) ==
    /\ at[t] = "idle" /\ seeds[t] # <<>>
    /\ at' = [at EXCEPT ![t] = "find"]
    /\ LET seed == Head(seeds[t])
       IN  arg' = [arg EXCEPT ![t] = <<seed[1], Inputs(seed[1], seed[2])>>]
    /\ UNCHANGED <<trace, cache, seeds, stack, errors>>

(* executeAndCheck compares the outputs of the seed with those computed.   *)
Check(t, inst) ==
    /\ seeds' = [seeds EXCEPT ![t] = Tail(@)]
    /\ at' = [at EXCEPT ![t] = "idle"]
    /\ stack' = [stack EXCEPT ![t] = <<>>]
    /\ LET seed == Head(seeds[t])
           given == Outputs(seed[1], seed[2])
       IN  errors' = [errors EXCEPT ![t] =
                        IF given = Outputs(seed[1], inst) THEN @ ELSE @ \cup {seed}]

(* A call is answered: State.In stores the outputs on the data lines.      *)
Answer(t, below, f, inst) ==
    IF below = <<>> THEN Check(t, inst)
    ELSE LET top == Last(below)
             data == Program[top.fn].code[top.pc].data
             regs == StoreN(top.regs, data, Outputs(f, inst))
         IN  /\ stack' = [stack EXCEPT ![t] =
                    Append(Front(below), [top EXCEPT !.pc = @ + 1, !.regs = regs])]
             /\ at' = [at EXCEPT ![t] = "run"]
             /\ UNCHANGED <<seeds, errors>>

(* ComponentTrace.Call, under the read lock.                               *)
Find(t) ==
    /\ at[t] = "find"
    /\ LET f == arg[t][1]
           i == SearchIndex(f, cache[f], arg[t][2])
       IN  IF IsAt(f, cache[f], arg[t][2], i)
           THEN Answer(t, stack[t], f, cache[f][i])
           ELSE /\ stack' = [stack EXCEPT ![t] = Append(@, Frame(f, arg[t][2]))]
                /\ at' = [at EXCEPT ![t] = "run"]
                /\ UNCHANGED <<seeds, errors>>
    /\ arg' = [arg EXCEPT ![t] = <<>>]
    /\ UNCHANGED <<trace, cache>>

(* One instruction of the function on top of the stack.                    *)
Step(t) ==
    /\ at[t] = "run"
    /\ CASE Insn(t).op = "in" ->
              /\ arg' = [arg EXCEPT ![t] = <<Insn(t).bus, Load(Top(t).regs, Insn(t).addr)>>]
              /\ at' = [at EXCEPT ![t] = "find"]
              /\ UNCHANGED stack
         [] Insn(t).op \in {"ret", "fail"} ->
              /\ at' = [at EXCEPT ![t] = "insert"]
              /\ UNCHANGED <<arg, stack>>
         [] OTHER ->
              /\ stack' = [stack EXCEPT ![t] = Append(Front(@), Compute(Top(t), Insn(t)))]
              /\ UNCHANGED <<arg, at>>
    /\ UNCHANGED <<trace, cache, seeds, errors>>

(* A faulty record: the array as it was is replaced, not extended.         *)
RecordFresh(t) ==
    /\ at[t] = "insert"
    /\ LET f == Top(t).fn
       IN  /\ cache' = [cache EXCEPT ![f] = <<Instance(Top(t))>>]
           /\ Answer(t, Front(stack[t]), f, Instance(Top(t)))
    /\ UNCHANGED <<trace, arg>>

(* executeFunctionCall records the instance under the write lock, whether  *)
(* the function returned or failed, and answers the call.                  *)
Record(t) ==
    /\ at[t] = "insert"
    /\ LET f == Top(t).fn
       IN  /\ cache' = [cache EXCEPT ![f] = Insert(f, @, Instance(Top(t)))]
           /\ Answer(t, Front(stack[t]), f, Instance(Top(t)))
    /\ UNCHANGED <<trace, arg>>

Thread(t) == Begin(t) \/ Find(t) \/ Step(t) \/ Record(t)

Next == \E t \in Threads : Thread(t)

Spec == Init /\ [][Next]_vars /\ \A t \in Threads : WF_vars(Thread(t))

-----------------------------------------------------------------------------
(* Properties.                                                             *)

(* Threads are at a known place and frames belong to a function.           *)
TypeOK ==
    /\ at \in [Threads -> {"idle", "find", "run", "insert"}]
    /\ \A t \in Threads :
        /\ at[t] \in {"run", "insert"} => stack[t] # <<>>
        /\ \A fr \in Range(stack[t]) :
            /\ fr.pc \in DOMAIN Program[fr.fn].code
            /\ fr.regs \in Seq(Nat)

(* The instances of a function are strictly ascending in the order that    *)
(* FindLast searches, whichever threads inserted them: none is recorded    *)
(* twice although two threads may execute the same one.                    *)
Sorted(f, rows) ==
    \A i, j \in DOMAIN rows : i < j => Less(Inputs(f, rows[i]), Inputs(f, rows[j]))
SortedUnique == \A f \in Functions : Sorted(f, cache[f])

(* A recorded instance is never dropped or changed.                        *)
InstancesKept ==
    [][\A f \in Functions : Range(cache[f]) \subseteq Range(cache'[f])]_vars

(* A search through a function's rows finds the row of every instance, as  *)
(* the expanded trace needs (ArrayModule.FindLast).                        *)
RowsFound ==
    \A f \in Functions : \A i \in DOMAIN cache[f] :
        FindLast(f, cache[f], Inputs(f, cache[f][i])) = i

(* The recorded instances with the inputs of a seed.                       *)
Matching(c, s) == {x \in Range(c[s[1]]) : Inputs(s[1], x) = Inputs(s[1], s[2])}
Recorded(c, s) == Matching(c, s) # {}
Wrong(c, s) == \E x \in Matching(c, s) : Outputs(s[1], x) # Outputs(s[1], s[2])

(* A thread that is through has recorded all that its trace asked for, and *)
(* has reported exactly the instances whose outputs are not the recorded   *)
(* ones (executeAndCheck).                                                 *)
SeedsChecked ==
    \A t \in Threads : seeds[t] = <<>> =>
        LET all == Range(SeedsOf(trace[t]))
        IN  /\ \A s \in all : Recorded(cache, s)
            /\ errors[t] = {s \in all : Wrong(cache, s)}

InstancesListed == SortedUnique /\ RowsFound /\ SeedsChecked

(* What executing a function does, given the instances c that have been    *)
(* recorded: a call is answered by the instance with its inputs.           *)

Frames ==
    {x \in [fn : Functions, pc : Nat, regs : Seq(Nat)] :
        x.pc \in DOMAIN Program[x.fn].code /\ Len(x.regs) = NumRegisters(x.fn)}
CodeAt(x) == Program[x.fn].code[x.pc]
KeyOf(x) == SubSeq(x.regs, 1, Program[x.fn].ins)
CallOf(x) == Load(x.regs, CodeAt(x).addr)
Resume(x, outs) == [x EXCEPT !.pc = @ + 1, !.regs = StoreN(x.regs, CodeAt(x).data, outs)]
Ending(x) == CodeAt(x).op \in {"ret", "fail"}

Follows(c, x, y) ==
    \/ /\ CodeAt(x).op = "in"
       /\ \E inst \in Range(c[CodeAt(x).bus]) :
             /\ Inputs(CodeAt(x).bus, inst) = CallOf(x)
             /\ y = Resume(x, Outputs(CodeAt(x).bus, inst))
    \/ CodeAt(x).op \notin {"in", "ret", "fail"} /\ y = Compute(x, CodeAt(x))

(* y is reached from x when it is in every set that has x and is closed.   *)
Closed(c, S) == \A x \in S : \A y \in Frames : Follows(c, x, y) => y \in S
Reaches(c, x, y) == \A S \in SUBSET Frames : x \in S /\ Closed(c, S) => y \in S

(* An instance is justified by an execution of its function on its inputs  *)
(* that ends with its outputs, where every call is answered from c.        *)
Justified(c, f, inst) ==
    \E x \in Frames : /\ x.fn = f /\ Ending(x) /\ Instance(x) = inst
                      /\ Reaches(c, Frame(f, Inputs(f, inst)), x)

(* Whatever the threads do in between, an instance is recorded only when   *)
(* an execution justifies it whose calls were all recorded before: the     *)
(* instances are those of a sequential execution, and an instance that two *)
(* threads compute is the same one (executeFunctionCall).                  *)
JustifiedBefore ==
    [][\A f \in Functions : \A inst \in Range(cache'[f]) : Justified(cache, f, inst)]_vars

(* Every thread finishes its trace, for programs whose calls end.          *)
Terminates == <>(\A t \in Threads : seeds[t] = <<>>)
-----------------------------------------------------------------------------
(* The proof.  First the order of instances.                               *)

(* A set of natural numbers has a least element.                           *)
LEMMA LeastNumber ==
  ASSUME NEW T \in SUBSET Nat, T # {}
  PROVE  \E x \in T : \A y \in T : x <= y
  <1>1. IsWellFoundedOn({p \in Nat \X Nat : p[1] < p[2]}, Nat)
    BY NatLessThanWellFounded DEF OpToRel
  <1>2. PICK x \in T : \A y \in T : ~(<<y, x>> \in {p \in Nat \X Nat : p[1] < p[2]})
    BY <1>1, WFMin, Zenon
  <1>3. \A y \in T : ~(y < x)
    BY <1>2
  <1> QED
    BY <1>3

(* Two different keys are ordered: the last input where they differ tells. *)
LEMMA LessTotal ==
  ASSUME NEW n \in Nat, NEW a \in Seq(Nat), NEW b \in Seq(Nat), Len(a) = n, Len(b) = n, a # b
  PROVE  Less(a, b) \/ Less(b, a)
  <1> DEFINE T == {m \in Nat : m < n /\ a[n - m] # b[n - m]}
  <1>1. PICK k \in 1 .. n : a[k] # b[k]
    BY SeqEqual
  <1>2. n - k \in Nat /\ n - k < n /\ n - (n - k) = k
    OBVIOUS
  <1>3. n - k \in T
    BY <1>1, <1>2
  <1>4. PICK m \in T : \A y \in T : m <= y
    <2>1. T \in SUBSET Nat /\ T # {}
      BY <1>3
    <2> HIDE DEF T
    <2> QED
      BY <2>1, LeastNumber
  <1>5. m \in Nat /\ m < n /\ a[n - m] # b[n - m]
    BY <1>4
  <1> DEFINE i == n - m
  <1>6. i \in 1 .. n /\ a[i] # b[i]
    BY <1>5
  <1>7. ASSUME NEW j \in (i + 1) .. n PROVE a[j] = b[j]
    <2>1. n - j \in Nat /\ n - j < n /\ n - (n - j) = j /\ n - j < m
      BY <1>5
    <2>2. ~(m <= n - j)
      BY <1>5, <2>1
    <2>3. n - j \notin T
      <3> HIDE DEF T
      <3> QED
        BY <1>4, <2>2
    <2> QED
      BY <2>1, <2>3
  <1>8. a[i] \in Nat /\ b[i] \in Nat /\ i \in DOMAIN a /\ i \in DOMAIN b
    BY <1>6
  <1>9. a[i] < b[i] \/ b[i] < a[i]
    BY <1>6, <1>8
  <1> HIDE DEF i
  <1> QED
    BY <1>7, <1>8, <1>9 DEF Less

(* A key is below another if it is so in the last input that differs.      *)
LEMMA LessAt ==
  ASSUME NEW a \in Seq(Nat), NEW b, NEW i \in 1 .. Len(a), a[i] < b[i],
         \A k \in (i + 1) .. Len(a) : a[k] = b[k]
  PROVE  Less(a, b)
  BY DEF Less

(* The order is transitive.                                                *)
LEMMA LessTransitive ==
  ASSUME NEW n \in Nat, NEW a \in Seq(Nat), NEW b \in Seq(Nat), NEW c \in Seq(Nat),
         Len(a) = n, Len(b) = n, Len(c) = n, Less(a, b), Less(b, c)
  PROVE  Less(a, c)
  <1>1. PICK i \in 1 .. n : a[i] < b[i] /\ \A k \in (i + 1) .. n : a[k] = b[k]
    BY DEF Less
  <1>2. PICK j \in 1 .. n : b[j] < c[j] /\ \A k \in (j + 1) .. n : b[k] = c[k]
    BY DEF Less
  <1>3. \A k \in 1 .. n : a[k] \in Nat /\ b[k] \in Nat /\ c[k] \in Nat
    OBVIOUS
  <1>4. CASE i <= j
    <2>1. a[j] < c[j]
      <3>1. i = j => a[j] < b[j]
        BY <1>1
      <3>2. i # j => a[j] = b[j]
        <4>1. i # j => j \in (i + 1) .. n
          BY <1>4
        <4> QED
          BY <1>1, <4>1
      <3> QED
        BY <1>2, <1>3, <3>1, <3>2
    <2>2. \A k \in (j + 1) .. n : a[k] = c[k]
      BY <1>1, <1>2, <1>4
    <2> QED
      BY <2>1, <2>2, LessAt
  <1>5. CASE j < i
    <2>1. a[i] < c[i]
      BY <1>1, <1>2, <1>3, <1>5
    <2>2. \A k \in (i + 1) .. n : a[k] = c[k]
      BY <1>1, <1>2, <1>5
    <2> QED
      BY <2>1, <2>2, LessAt
  <1> QED
    BY <1>4, <1>5

(* No key is below itself.                                                 *)
LEMMA LessStrict ==
  ASSUME NEW a \in Seq(Nat)
  PROVE  ~Less(a, a)
  BY DEF Less
(* The inputs of an instance are a key, and its outputs are as many.       *)
LEMMA InputsAreKey ==
  ASSUME ProgramAssumption, NEW f \in Functions, NEW x \in Instances(f)
  PROVE  /\ Inputs(f, x) \in Keys(f)
         /\ \A k \in 1 .. Program[f].ins : Inputs(f, x)[k] = x[k]
         /\ Outputs(f, x) \in Seq(Nat) /\ Len(Outputs(f, x)) = Program[f].outs
         /\ \A k \in 1 .. Program[f].outs : Outputs(f, x)[k] = x[Program[f].ins + k]
  <1>1. Program[f].ins \in Nat /\ Program[f].outs \in Nat
    BY DEF ProgramAssumption
  <1>2. x \in Seq(Nat) /\ Len(x) = Program[f].ins + Program[f].outs
    BY DEF Instances
  <1> DEFINE m == Program[f].ins
             n == Program[f].outs
  <1>3. /\ SubSeq(x, 1, m) \in Seq(Nat) /\ Len(SubSeq(x, 1, m)) = m
        /\ \A k \in 1 .. m : SubSeq(x, 1, m)[k] = x[k]
    <2> HIDE DEF m, n
    <2> QED
      BY <1>1, <1>2, SubSeqProperties DEF m, n
  <1>4. /\ SubSeq(x, m + 1, m + n) \in Seq(Nat) /\ Len(SubSeq(x, m + 1, m + n)) = n
        /\ \A k \in 1 .. n : SubSeq(x, m + 1, m + n)[k] = x[m + k]
    <2>1. m \in Nat /\ n \in Nat /\ Len(x) = m + n
      BY <1>1, <1>2
    <2> HIDE DEF m, n
    <2>2. m + 1 \in 1 .. Len(x) + 1 /\ m + n \in m .. Len(x)
      BY <2>1
    <2> QED
      BY <2>1, <2>2, <1>2, SubSeqProperties
  <1> QED
    BY <1>2, <1>3, <1>4 DEF Inputs, Outputs, Keys

(* sort.Search: everything before the index is below the key, and what is  *)
(* at the index is not.                                                    *)
LEMMA SearchSplits ==
  ASSUME NEW f, NEW rows, NEW n \in Nat, DOMAIN rows = 1 .. n, Len(rows) = n, NEW key
  PROVE  /\ SearchIndex(f, rows, key) \in 1 .. n + 1
         /\ \A j \in 1 .. n : j < SearchIndex(f, rows, key) => Less(Inputs(f, rows[j]), key)
         /\ SearchIndex(f, rows, key) <= n =>
               ~Less(Inputs(f, rows[SearchIndex(f, rows, key)]), key)
  <1> DEFINE below(j) == Less(Inputs(f, rows[j]), key)
             T == {n + 1} \cup {j \in 1 .. n : ~below(j)}
  <1>1. SearchIndex(f, rows, key) = CHOOSE x \in T : \A y \in T : x <= y
    BY DEF SearchIndex, Min
  <1> HIDE DEF below
  <1>2. T \in SUBSET Nat /\ T # {}
    OBVIOUS
  <1>3. SearchIndex(f, rows, key) \in T /\ \A y \in T : SearchIndex(f, rows, key) <= y
    <2> HIDE DEF T
    <2>1. \E x \in T : \A y \in T : x <= y
      BY <1>2, LeastNumber
    <2> QED
      BY <1>1, <2>1
  <1>4. PICK i : i = SearchIndex(f, rows, key)
    OBVIOUS
  <1>5. i \in 1 .. n + 1 /\ (i <= n => ~below(i)) /\ \A j \in 1 .. n : j < i => below(j)
    BY <1>3, <1>4
  <1> QED
    BY <1>4, <1>5 DEF below

(* A search finds a key exactly when some row has it.                      *)
LEMMA SearchExact ==
  ASSUME ProgramAssumption, NEW f \in Functions, NEW rows \in Seq(Instances(f)), Sorted(f, rows),
         NEW key \in Keys(f)
  PROVE  IsAt(f, rows, key, SearchIndex(f, rows, key))
            <=> \E j \in DOMAIN rows : Inputs(f, rows[j]) = key
  <1>1. PICK n \in Nat : n = Len(rows) /\ DOMAIN rows = 1 .. n
    OBVIOUS
  <1>2. PICK i : i = SearchIndex(f, rows, key)
    OBVIOUS
  <1>3. /\ i \in 1 .. n + 1
        /\ \A j \in 1 .. n : j < i => Less(Inputs(f, rows[j]), key)
        /\ i <= n => ~Less(Inputs(f, rows[i]), key)
    BY <1>1, <1>2, SearchSplits
  <1>4. ASSUME NEW j \in 1 .. n, Inputs(f, rows[j]) = key PROVE i <= n /\ Inputs(f, rows[i]) = key
    <2>1. ~Less(key, key)
      BY LessStrict DEF Keys
    <2>2. i <= j
      BY <1>3, <1>4, <2>1
    <2>3. i # j => Less(Inputs(f, rows[i]), Inputs(f, rows[j]))
      BY <1>1, <1>3, <2>2 DEF Sorted
    <2>4. i <= n /\ i = j
      BY <1>3, <1>4, <2>2, <2>3
    <2> QED
      BY <1>4, <2>4
  <1> QED
    BY <1>1, <1>2, <1>3, <1>4 DEF IsAt

(* r is s with e at i.                                                     *)
Shifted(r, S, s, n, i, e) ==
    /\ r \in Seq(S) /\ Len(r) = n + 1
    /\ \A k \in 1 .. n + 1 : r[k] = IF k < i THEN s[k] ELSE IF k = i THEN e ELSE s[k - 1]

(* InsertAt moves what follows by one.                                     *)
LEMMA InsertAtShifts ==
  ASSUME NEW S, NEW s \in Seq(S), NEW e \in S, NEW n \in Nat, Len(s) = n, NEW i \in 1 .. n + 1
  PROVE  Shifted(InsertAt(s, i, e), S, s, n, i, e)
  <1>1. /\ SubSeq(s, 1, i - 1) \in Seq(S) /\ Len(SubSeq(s, 1, i - 1)) = i - 1
        /\ \A k \in 1 .. i - 1 : SubSeq(s, 1, i - 1)[k] = s[k]
    BY SubSeqProperties
  <1>2. /\ SubSeq(s, i, n) \in Seq(S) /\ Len(SubSeq(s, i, n)) = n - i + 1
        /\ \A k \in 1 .. n - i + 1 : SubSeq(s, i, n)[k] = s[i + k - 1]
    BY SubSeqProperties
  <1>3. PICK a \in Seq(S) : a = SubSeq(s, 1, i - 1)
    BY <1>1
  <1>4. PICK b \in Seq(S) : b = SubSeq(s, i, n)
    BY <1>2
  <1>5. InsertAt(s, i, e) = a \o <<e>> \o b
    BY <1>3, <1>4 DEF InsertAt
  <1>6. Len(a) = i - 1 /\ Len(b) = n - i + 1
    BY <1>1, <1>2, <1>3, <1>4
  <1>7. /\ a \o <<e>> \in Seq(S) /\ Len(a \o <<e>>) = i
        /\ \A k \in 1 .. i : (a \o <<e>>)[k] = IF k < i THEN a[k] ELSE e
    BY <1>6
  <1>8. PICK c \in Seq(S) : c = a \o <<e>>
    BY <1>7
  <1>9. /\ c \o b \in Seq(S) /\ Len(c \o b) = n + 1
        /\ \A k \in 1 .. n + 1 : (c \o b)[k] = IF k <= i THEN c[k] ELSE b[k - i]
    <2>0. Len(c) = i
      BY <1>7, <1>8, Zenon
    <2>1. Len(c) = i /\ Len(c) + Len(b) = n + 1
      BY <1>6, <2>0
    <2>2. /\ c \o b \in Seq(S) /\ Len(c \o b) = Len(c) + Len(b)
          /\ \A k \in 1 .. Len(c) + Len(b) : (c \o b)[k] = IF k <= Len(c) THEN c[k] ELSE b[k - Len(c)]
      BY ConcatProperties
    <2> QED
      BY <2>1, <2>2
  <1>a. ASSUME NEW k \in 1 .. n + 1
        PROVE  (c \o b)[k] = IF k < i THEN s[k] ELSE IF k = i THEN e ELSE s[k - 1]
    <2>1. CASE k < i
      <3>1. k \in 1 .. i - 1 /\ k \in 1 .. i /\ k <= i
        BY <2>1
      <3>2. (c \o b)[k] = c[k] /\ c[k] = a[k] /\ a[k] = s[k]
        BY <3>1, <2>1, <1>1, <1>3, <1>7, <1>8, <1>9
      <3> QED
        BY <3>2, <2>1
    <2>2. CASE k = i
      BY <2>2, <1>7, <1>8, <1>9
    <2>3. CASE k > i
      <3>1. k - i \in 1 .. n - i + 1 /\ i + (k - i) - 1 = k - 1 /\ ~(k <= i) /\ ~(k < i) /\ k # i
        BY <2>3
      <3>2. (c \o b)[k] = b[k - i] /\ b[k - i] = s[k - 1]
        BY <3>1, <1>2, <1>4, <1>9
      <3> QED
        BY <3>1, <3>2
    <2>4. k < i \/ k = i \/ k > i
      OBVIOUS
    <2> QED
      BY <2>1, <2>2, <2>3, <2>4
  <1> QED
    BY <1>5, <1>8, <1>9, <1>a DEF Shifted

(* AnySortedSet.Insert keeps the order and what is there, and adds at most *)
(* the instance: afterwards some row has its inputs.                       *)
LEMMA InsertKeepsOrder ==
  ASSUME ProgramAssumption, NEW f \in Functions, NEW rows \in Seq(Instances(f)), Sorted(f, rows),
         NEW inst \in Instances(f)
  PROVE  /\ Insert(f, rows, inst) \in Seq(Instances(f))
         /\ Sorted(f, Insert(f, rows, inst))
         /\ Range(rows) \subseteq Range(Insert(f, rows, inst))
         /\ \/ Insert(f, rows, inst) = rows /\ \E x \in Range(rows) : Inputs(f, x) = Inputs(f, inst)
            \/ /\ inst \in Range(Insert(f, rows, inst))
               /\ Range(Insert(f, rows, inst)) \subseteq Range(rows) \cup {inst}
               /\ ~ \E x \in Range(rows) : Inputs(f, x) = Inputs(f, inst)
  <1>1. PICK n \in Nat : n = Len(rows) /\ DOMAIN rows = 1 .. n
    OBVIOUS
  <1>2. PICK key \in Keys(f) : key = Inputs(f, inst)
    BY InputsAreKey
  <1>3. PICK i : i = SearchIndex(f, rows, key)
    OBVIOUS
  <1>4. /\ i \in 1 .. n + 1
        /\ \A j \in 1 .. n : j < i => Less(Inputs(f, rows[j]), key)
        /\ i <= n => ~Less(Inputs(f, rows[i]), key)
    BY <1>1, <1>3, SearchSplits
  <1>5. IsAt(f, rows, key, i) <=> \E j \in 1 .. n : Inputs(f, rows[j]) = key
    BY <1>1, <1>3, SearchExact
  <1>6. (\E x \in Range(rows) : Inputs(f, x) = Inputs(f, inst)) <=> \E j \in 1 .. n : Inputs(f, rows[j]) = key
    BY <1>1, <1>2 DEF Range
  <1>7. Insert(f, rows, inst) = IF IsAt(f, rows, key, i) THEN rows ELSE InsertAt(rows, i, inst)
    BY <1>2, <1>3 DEF Insert
  <1>8. CASE IsAt(f, rows, key, i)
    BY <1>5, <1>6, <1>7, <1>8
  <1>9. CASE ~IsAt(f, rows, key, i)
    <2>1. PICK r : r = InsertAt(rows, i, inst)
      OBVIOUS
    <2>2. /\ r \in Seq(Instances(f)) /\ Len(r) = n + 1
          /\ \A k \in 1 .. n + 1 : r[k] = IF k < i THEN rows[k] ELSE IF k = i THEN inst ELSE rows[k - 1]
      <3>1. Shifted(InsertAt(rows, i, inst), Instances(f), rows, n, i, inst)
        BY <1>1, <1>4, InsertAtShifts
      <3>2. Shifted(r, Instances(f), rows, n, i, inst)
        BY <2>1, <3>1
      <3> QED
        BY <3>2 DEF Shifted
    <2>3. Insert(f, rows, inst) = r /\ DOMAIN r = 1 .. n + 1
      BY <1>7, <1>9, <2>1, <2>2
    <2>4. inst \in Range(r)
      BY <2>2, <2>3, <1>4 DEF Range
    <2>5. Range(rows) \subseteq Range(r)
      <3> SUFFICES ASSUME NEW j \in 1 .. n PROVE \E k \in 1 .. n + 1 : r[k] = rows[j]
        BY <1>1, <2>3 DEF Range
      <3>1. CASE j < i
        BY <3>1, <2>2
      <3>2. CASE j >= i
        <4>1. j + 1 \in 1 .. n + 1 /\ j + 1 # i /\ ~(j + 1 < i) /\ (j + 1) - 1 = j
          BY <3>2, <1>4
        <4> QED
          BY <4>1, <2>2
      <3> QED
        BY <3>1, <3>2, <1>4
    <2>6. Range(r) \subseteq Range(rows) \cup {inst}
      <3> SUFFICES ASSUME NEW k \in 1 .. n + 1 PROVE r[k] = inst \/ \E j \in 1 .. n : r[k] = rows[j]
        BY <1>1, <2>3 DEF Range
      <3>1. k < i => k \in 1 .. n
        BY <1>4
      <3>2. k > i => k - 1 \in 1 .. n
        BY <1>4
      <3> QED
        BY <1>4, <2>2, <3>1, <3>2
    <2>7. ASSUME NEW j \in 1 .. n, i <= j PROVE Less(key, Inputs(f, rows[j]))
      <3>1. /\ i \in 1 .. n /\ Inputs(f, rows[i]) # key
        BY <1>4, <1>5, <1>9, <2>7
      <3>2. PICK a \in Keys(f) : a = Inputs(f, rows[i])
        BY <3>1, <1>1, InputsAreKey
      <3>3. PICK b \in Keys(f) : b = Inputs(f, rows[j])
        BY <1>1, InputsAreKey
      <3>4. a # key /\ ~Less(a, key)
        BY <3>1, <3>2, <1>4
      <3>5. /\ a \in Seq(Nat) /\ b \in Seq(Nat) /\ key \in Seq(Nat) /\ Program[f].ins \in Nat
            /\ Len(a) = Program[f].ins /\ Len(b) = Program[f].ins /\ Len(key) = Program[f].ins
        BY DEF Keys, ProgramAssumption
      <3>6. Less(key, a)
        BY <3>4, <3>5, LessTotal
      <3>7. i = j \/ Less(a, b)
        BY <3>1, <3>2, <3>3, <2>7, <1>1 DEF Sorted
      <3>8. CASE i = j
        BY <3>2, <3>6, <3>8
      <3>9. CASE Less(a, b)
        <4>1. Less(key, b)
          BY <3>5, <3>6, <3>9, LessTransitive
        <4> QED
          BY <4>1, <3>3
      <3> QED
        BY <3>7, <3>8, <3>9
    <2>8. Sorted(f, r)
      <3> SUFFICES ASSUME NEW k \in 1 .. n + 1, NEW l \in 1 .. n + 1, k < l
                   PROVE  Less(Inputs(f, r[k]), Inputs(f, r[l]))
        BY <2>3 DEF Sorted
      <3>0. \A p, q \in 1 .. n : p < q => Less(Inputs(f, rows[p]), Inputs(f, rows[q]))
        BY <1>1 DEF Sorted
      <3>1. CASE l < i
        <4>1. k \in 1 .. n /\ l \in 1 .. n /\ k < i /\ r[k] = rows[k] /\ r[l] = rows[l]
          BY <3>1, <1>4, <2>2
        <4> QED
          BY <4>1, <3>0
      <3>2. CASE l = i
        <4>1. k \in 1 .. n /\ k < i /\ r[k] = rows[k] /\ r[l] = inst
          BY <3>2, <1>4, <2>2
        <4> QED
          BY <4>1, <1>2, <1>4
      <3>3. CASE l > i /\ k = i
        <4>1. l - 1 \in 1 .. n /\ i <= l - 1 /\ r[k] = inst /\ r[l] = rows[l - 1]
          BY <3>3, <1>4, <2>2
        <4> QED
          BY <4>1, <1>2, <2>7
      <3>4. CASE l > i /\ k < i
        <4>1. k \in 1 .. n /\ l - 1 \in 1 .. n /\ k < l - 1 /\ r[k] = rows[k] /\ r[l] = rows[l - 1]
          BY <3>4, <1>4, <2>2
        <4> QED
          BY <4>1, <3>0
      <3>5. CASE l > i /\ k > i
        <4>1. k - 1 \in 1 .. n /\ l - 1 \in 1 .. n /\ k - 1 < l - 1 /\ r[k] = rows[k - 1] /\ r[l] = rows[l - 1]
          BY <3>5, <1>4, <2>2
        <4> QED
          BY <4>1, <3>0
      <3> QED
        BY <3>1, <3>2, <3>3, <3>4, <3>5, <1>4
    <2> QED
      BY <1>5, <1>6, <1>9, <2>2, <2>3, <2>4, <2>5, <2>6, <2>8
  <1> QED
    BY <1>8, <1>9
-----------------------------------------------------------------------------
(* Frames and what executions do to them.                                  *)

(* The registers of a frame and their number.                              *)
LEMMA FrameParts ==
  ASSUME ProgramAssumption, NEW x \in Frames
  PROVE  /\ x.fn \in Functions /\ x.pc \in DOMAIN Program[x.fn].code /\ x.pc \in Nat
         /\ x.regs \in Seq(Nat) /\ Len(x.regs) = NumRegisters(x.fn)
         /\ Program[x.fn].ins \in Nat /\ Program[x.fn].outs \in Nat
         /\ NumRegisters(x.fn) \in Nat
         /\ Program[x.fn].ins <= NumRegisters(x.fn)
         /\ Program[x.fn].ins + Program[x.fn].outs \in 0 .. NumRegisters(x.fn)
         /\ InsnOK(x.fn, x.pc)
  <1>1. x.fn \in Functions /\ x.pc \in DOMAIN Program[x.fn].code /\ x.pc \in Nat
        /\ x.regs \in Seq(Nat) /\ Len(x.regs) = NumRegisters(x.fn)
    BY DEF Frames
  <1>2. /\ Program[x.fn].ins \in Nat /\ Program[x.fn].outs \in Nat
        /\ Program[x.fn].internals \in Seq(Nat) /\ InsnOK(x.fn, x.pc)
    BY <1>1 DEF ProgramAssumption
  <1>3. Len(Program[x.fn].internals) \in Nat
    BY <1>2
  <1>4. /\ NumRegisters(x.fn) \in Nat /\ Program[x.fn].ins <= NumRegisters(x.fn)
        /\ Program[x.fn].ins + Program[x.fn].outs \in 0 .. NumRegisters(x.fn)
    <2>1. \A a, b, d \in Nat : a + b + d \in Nat /\ a <= a + b + d /\ a + b \in 0 .. a + b + d
      OBVIOUS
    <2> QED
      BY <1>2, <1>3, <2>1 DEF NumRegisters
  <1> QED
    BY <1>1, <1>2, <1>4

(* The inputs of a frame are its first registers.                          *)
LEMMA KeyOfFrame ==
  ASSUME ProgramAssumption, NEW x \in Frames
  PROVE  /\ KeyOf(x) \in Keys(x.fn)
         /\ \A k \in 1 .. Program[x.fn].ins : KeyOf(x)[k] = x.regs[k]
  <1>1. PICK m \in Nat : m = Program[x.fn].ins
    BY FrameParts
  <1>2. PICK r \in Seq(Nat) : r = x.regs
    BY FrameParts
  <1>3. m <= Len(r)
    BY <1>1, <1>2, FrameParts
  <1>4. /\ SubSeq(r, 1, m) \in Seq(Nat) /\ Len(SubSeq(r, 1, m)) = m
        /\ \A k \in 1 .. m : SubSeq(r, 1, m)[k] = r[k]
    BY <1>3, SubSeqProperties
  <1> QED
    BY <1>1, <1>2, <1>4 DEF KeyOf, Keys

(* Two frames of a function with the same first registers have one key.    *)
LEMMA SameKey ==
  ASSUME ProgramAssumption, NEW x \in Frames, NEW y \in Frames, x.fn = y.fn,
         \A k \in 1 .. Program[x.fn].ins : x.regs[k] = y.regs[k]
  PROVE  KeyOf(x) = KeyOf(y)
  <1>1. KeyOf(x) \in Seq(Nat) /\ KeyOf(y) \in Seq(Nat) /\ Len(KeyOf(x)) = Len(KeyOf(y))
    BY KeyOfFrame DEF Keys
  <1>2. \A k \in 1 .. Len(KeyOf(x)) : KeyOf(x)[k] = KeyOf(y)[k]
    BY KeyOfFrame DEF Keys
  <1> QED
    BY <1>1, <1>2, SeqEqual

(* The instance of a frame has the inputs of the frame.                    *)
LEMMA InstanceOfFrame ==
  ASSUME ProgramAssumption, NEW x \in Frames
  PROVE  Instance(x) \in Instances(x.fn) /\ Inputs(x.fn, Instance(x)) = KeyOf(x)
  <1>1. PICK m \in Nat : m = Program[x.fn].ins
    BY FrameParts
  <1>2. PICK n \in Nat : n = m + Program[x.fn].outs /\ m <= n
    BY <1>1, FrameParts
  <1>3. PICK r \in Seq(Nat) : r = x.regs
    BY FrameParts
  <1>4. n <= Len(r)
    BY <1>1, <1>2, <1>3, FrameParts
  <1>5. PICK s : s = SubSeq(r, 1, n)
    OBVIOUS
  <1>6. s \in Seq(Nat) /\ Len(s) = n /\ \A k \in 1 .. n : s[k] = r[k]
    BY <1>4, <1>5, SubSeqProperties
  <1>7. Instance(x) = s /\ Instance(x) \in Instances(x.fn)
    BY <1>1, <1>2, <1>3, <1>5, <1>6 DEF Instance, Instances
  <1>8. /\ Inputs(x.fn, s) \in Keys(x.fn) /\ \A k \in 1 .. m : Inputs(x.fn, s)[k] = s[k]
    BY <1>1, <1>7, FrameParts, InputsAreKey
  <1>9. /\ KeyOf(x) \in Keys(x.fn) /\ \A k \in 1 .. m : KeyOf(x)[k] = r[k]
    BY <1>1, <1>3, KeyOfFrame
  <1>a. \A k \in 1 .. m : Inputs(x.fn, s)[k] = KeyOf(x)[k]
    BY <1>2, <1>6, <1>8, <1>9
  <1>b. Inputs(x.fn, s) = KeyOf(x)
    BY <1>1, <1>8, <1>9, <1>a, SeqEqual DEF Keys
  <1> QED
    BY <1>7, <1>b

(* A sequence that is extended keeps its elements.                         *)
LEMMA Extended ==
  ASSUME NEW a \in Seq(Nat), NEW b \in Seq(Nat)
  PROVE  a \o b \in Seq(Nat) /\ Len(a \o b) = Len(a) + Len(b) /\ \A k \in 1 .. Len(a) : (a \o b)[k] = a[k]
  BY ConcatProperties

(* A call starts at the first instruction with its inputs.                 *)
LEMMA FrameStarts ==
  ASSUME ProgramAssumption, NEW f \in Functions, NEW key \in Keys(f)
  PROVE  /\ Frame(f, key) \in Frames /\ Frame(f, key).fn = f
         /\ KeyOf(Frame(f, key)) = key
  <1>1. /\ Program[f].ins \in Nat /\ Program[f].outs \in Nat /\ Program[f].internals \in Seq(Nat)
        /\ 1 \in DOMAIN Program[f].code /\ key \in Seq(Nat) /\ Len(key) = Program[f].ins
    BY DEF ProgramAssumption, Keys
  <1>2. PICK z : z = [i \in 1 .. Program[f].outs |-> 0]
    OBVIOUS
  <1>3. z \in Seq(Nat) /\ Len(z) = Program[f].outs
    BY <1>1, <1>2
  <1>4. PICK g \in Seq(Nat) : g = Program[f].internals
    BY <1>1
  <1>5. PICK r : r = key \o z \o g
    OBVIOUS
  <1>6. PICK s : s = key \o z
    OBVIOUS
  <1>7. /\ s \in Seq(Nat) /\ Len(s) = Len(key) + Len(z)
        /\ \A k \in 1 .. Len(key) : s[k] = key[k]
    BY <1>1, <1>3, <1>6, Extended
  <1>8. /\ r \in Seq(Nat) /\ Len(r) = Len(s) + Len(g)
        /\ \A k \in 1 .. Len(s) : r[k] = s[k]
    BY <1>4, <1>5, <1>6, <1>7, Extended
  <1>9. /\ r \in Seq(Nat) /\ Len(r) = NumRegisters(f)
        /\ \A k \in 1 .. Program[f].ins : r[k] = key[k]
    <2>1. Len(r) = NumRegisters(f)
      BY <1>1, <1>3, <1>4, <1>7, <1>8 DEF NumRegisters
    <2>2. \A k \in 1 .. Program[f].ins : k \in 1 .. Len(key) /\ k \in 1 .. Len(s)
      BY <1>1, <1>3, <1>7
    <2> QED
      BY <1>7, <1>8, <2>1, <2>2
  <1>a. Frame(f, key) = [fn |-> f, pc |-> 1, regs |-> r]
    BY <1>2, <1>4, <1>5 DEF Frame, InitialRegisters
  <1>b. PICK x : x = [fn |-> f, pc |-> 1, regs |-> r]
    OBVIOUS
  <1>c. x \in Frames /\ x.fn = f /\ x.regs = r
    BY <1>1, <1>9, <1>b DEF Frames
  <1>d. /\ KeyOf(x) \in Keys(f) /\ \A k \in 1 .. Program[f].ins : KeyOf(x)[k] = key[k]
    BY <1>9, <1>c, KeyOfFrame
  <1>e. KeyOf(x) = key
    BY <1>d, <1>1, SeqEqual DEF Keys
  <1> QED
    BY <1>a, <1>b, <1>c, <1>e

(* The instruction of a frame that is none of the others.                  *)
LEMMA InsnCases ==
  ASSUME ProgramAssumption, NEW x \in Frames
  PROVE  \/ Ending(x)
         \/ /\ CodeAt(x).op = "in" /\ x.pc + 1 \in DOMAIN Program[x.fn].code
            /\ CodeAt(x).bus \in Functions
            /\ CodeAt(x).addr \in Seq(1 .. NumRegisters(x.fn))
            /\ Len(CodeAt(x).addr) = Program[CodeAt(x).bus].ins
            /\ CodeAt(x).data \in Seq((Program[x.fn].ins + 1) .. NumRegisters(x.fn))
            /\ Len(CodeAt(x).data) = Program[CodeAt(x).bus].outs
         \/ /\ CodeAt(x).op = "add" /\ x.pc + 1 \in DOMAIN Program[x.fn].code
            /\ CodeAt(x).dst \in (Program[x.fn].ins + 1) .. NumRegisters(x.fn)
            /\ CodeAt(x).src \in 1 .. NumRegisters(x.fn)
            /\ CodeAt(x).by \in Nat /\ CodeAt(x).mod \in Nat \ {0}
         \/ /\ CodeAt(x).op = "jz" /\ x.pc + 1 \in DOMAIN Program[x.fn].code
            /\ CodeAt(x).to \in DOMAIN Program[x.fn].code
  BY FrameParts DEF InsnOK, CodeAt, Ending

(* A call reads as many registers as the function it calls has inputs.     *)
LEMMA CallIsKey ==
  ASSUME ProgramAssumption, NEW x \in Frames, CodeAt(x).op = "in"
  PROVE  CodeAt(x).bus \in Functions /\ CallOf(x) \in Keys(CodeAt(x).bus)
  <1>1. /\ CodeAt(x).bus \in Functions
        /\ CodeAt(x).addr \in Seq(1 .. NumRegisters(x.fn))
        /\ Len(CodeAt(x).addr) = Program[CodeAt(x).bus].ins
    BY InsnCases DEF Ending
  <1>2. PICK ids \in Seq(1 .. NumRegisters(x.fn)) : ids = CodeAt(x).addr
    BY <1>1
  <1>3. PICK r \in Seq(Nat) : r = x.regs /\ Len(r) = NumRegisters(x.fn)
    BY FrameParts
  <1>4. \A i \in 1 .. Len(ids) : r[ids[i]] \in Nat
    <2>1. \A i \in 1 .. Len(ids) : ids[i] \in 1 .. Len(r)
      BY <1>2, <1>3
    <2> QED
      BY <2>1, <1>3
  <1>5. [i \in 1 .. Len(ids) |-> r[ids[i]]] \in Seq(Nat) /\ Len([i \in 1 .. Len(ids) |-> r[ids[i]]]) = Len(ids)
    BY <1>2, <1>4
  <1>6. CallOf(x) = [i \in 1 .. Len(ids) |-> r[ids[i]]]
    BY <1>2, <1>3 DEF CallOf, Load
  <1> QED
    BY <1>1, <1>2, <1>5, <1>6 DEF Keys

(* StoreN writes only the registers it names.                              *)
LEMMA StoreKeeps ==
  ASSUME NEW n \in Nat, NEW m \in Nat, NEW r \in Seq(Nat), Len(r) = n,
         NEW ids \in Seq((m + 1) .. n), NEW v \in Seq(Nat), Len(v) = Len(ids)
  PROVE  /\ StoreN(r, ids, v) \in Seq(Nat) /\ Len(StoreN(r, ids, v)) = n
         /\ \A k \in 1 .. n : k <= m => StoreN(r, ids, v)[k] = r[k]
  <1> DEFINE new(k) == IF k \in Range(ids) THEN v[CHOOSE i \in DOMAIN ids : ids[i] = k] ELSE r[k]
  <1>1. ASSUME NEW k \in 1 .. n PROVE new(k) \in Nat
    <2>1. CASE k \in Range(ids)
      <3>1. \E i \in DOMAIN ids : ids[i] = k
        BY <2>1 DEF Range
      <3>2. (CHOOSE i \in DOMAIN ids : ids[i] = k) \in DOMAIN ids
        BY <3>1
      <3>3. PICK j \in DOMAIN ids : j = CHOOSE i \in DOMAIN ids : ids[i] = k
        BY <3>2
      <3>4. v[j] \in Nat
        BY <3>3
      <3> QED
        BY <2>1, <3>3, <3>4
    <2>2. CASE k \notin Range(ids)
      BY <2>2
    <2> QED
      BY <2>1, <2>2
  <1>2. ASSUME NEW k \in 1 .. n, k <= m PROVE new(k) = r[k]
    <2>1. k \notin Range(ids)
      BY <1>2 DEF Range
    <2> QED
      BY <2>1
  <1>3. StoreN(r, ids, v) = [k \in 1 .. n |-> new(k)]
    BY DEF StoreN
  <1> HIDE DEF new
  <1> QED
    BY <1>1, <1>2, <1>3

(* Registers for frame x with the same inputs.                             *)
KeepInputs(x, r) ==
    /\ r \in Seq(Nat) /\ Len(r) = NumRegisters(x.fn)
    /\ \A k \in 1 .. Program[x.fn].ins : r[k] = x.regs[k]
MoveTo(x, p, r) == [x EXCEPT !.pc = p, !.regs = r]

(* A frame whose registers, but for the inputs, and instruction change.    *)
LEMMA FrameMoves ==
  ASSUME ProgramAssumption, NEW x \in Frames, NEW p \in DOMAIN Program[x.fn].code, NEW r, KeepInputs(x, r)
  PROVE  MoveTo(x, p, r) \in Frames /\ MoveTo(x, p, r).fn = x.fn /\ KeyOf(MoveTo(x, p, r)) = KeyOf(x)
  <1>1. PICK y : y = MoveTo(x, p, r)
    OBVIOUS
  <1>2. x.fn \in Functions /\ Program[x.fn].code \in Seq(Range(Program[x.fn].code))
    BY FrameParts DEF ProgramAssumption
  <1>3. p \in Nat
    BY <1>2
  <1>4. y \in Frames /\ y.fn = x.fn /\ y.regs = r
    BY <1>1, <1>2, <1>3 DEF Frames, MoveTo, KeepInputs
  <1>5. KeyOf(y) = KeyOf(x)
    BY <1>4, SameKey DEF KeepInputs
  <1> QED
    BY <1>1, <1>4, <1>5

(* A call that is answered leaves the inputs alone.                        *)
LEMMA ResumeKeeps ==
  ASSUME ProgramAssumption, NEW x \in Frames, CodeAt(x).op = "in", NEW v \in Seq(Nat),
         Len(v) = Program[CodeAt(x).bus].outs
  PROVE  Resume(x, v) \in Frames /\ Resume(x, v).fn = x.fn /\ KeyOf(Resume(x, v)) = KeyOf(x)
  <1>1. PICK n \in Nat : n = NumRegisters(x.fn)
    BY FrameParts
  <1>2. PICK m \in Nat : m = Program[x.fn].ins /\ m <= n
    BY <1>1, FrameParts
  <1>3. PICK ids \in Seq((m + 1) .. n) : ids = CodeAt(x).data /\ Len(ids) = Len(v)
    BY <1>1, <1>2, InsnCases DEF Ending
  <1>4. PICK r \in Seq(Nat) : r = x.regs /\ Len(r) = n
    BY <1>1, FrameParts
  <1>5. PICK s : s = StoreN(r, ids, v)
    OBVIOUS
  <1>6. s \in Seq(Nat) /\ Len(s) = n /\ \A k \in 1 .. n : k <= m => s[k] = r[k]
    BY <1>3, <1>4, <1>5, StoreKeeps
  <1>7. x.pc + 1 \in DOMAIN Program[x.fn].code
    BY InsnCases DEF Ending
  <1>8. Resume(x, v) = MoveTo(x, x.pc + 1, s)
    BY <1>3, <1>4, <1>5 DEF Resume, MoveTo
  <1>9. KeepInputs(x, s)
    BY <1>1, <1>2, <1>4, <1>6 DEF KeepInputs
  <1> QED
    BY <1>7, <1>8, <1>9, FrameMoves

(* One register is assigned.                                               *)
LEMMA AssignKeeps ==
  ASSUME NEW r \in Seq(Nat), NEW d \in Nat, NEW v \in Nat
  PROVE  /\ [r EXCEPT ![d] = v] \in Seq(Nat) /\ Len([r EXCEPT ![d] = v]) = Len(r)
         /\ \A k \in 1 .. Len(r) : k # d => [r EXCEPT ![d] = v][k] = r[k]
  <1>1. PICK n \in Nat : n = Len(r) /\ DOMAIN r = 1 .. n
    OBVIOUS
  <1>2. \A k \in 1 .. n : r[k] \in Nat
    BY <1>1
  <1>3. [r EXCEPT ![d] = v] = [k \in 1 .. n |-> IF k = d THEN v ELSE r[k]]
    BY <1>1
  <1>4. PICK s : s = [k \in 1 .. n |-> IF k = d THEN v ELSE r[k]]
    OBVIOUS
  <1>5. s \in Seq(Nat) /\ Len(s) = n /\ \A k \in 1 .. n : k # d => s[k] = r[k]
    BY <1>2, <1>4
  <1> QED
    BY <1>1, <1>3, <1>4, <1>5

(* So does an assignment or a jump.                                        *)
LEMMA ComputeKeeps ==
  ASSUME ProgramAssumption, NEW x \in Frames, CodeAt(x).op \notin {"in", "ret", "fail"}
  PROVE  /\ Compute(x, CodeAt(x)) \in Frames /\ Compute(x, CodeAt(x)).fn = x.fn
         /\ KeyOf(Compute(x, CodeAt(x))) = KeyOf(x)
  <1>1. PICK r \in Seq(Nat) : r = x.regs /\ Len(r) = NumRegisters(x.fn)
    BY FrameParts
  <1>2. CASE CodeAt(x).op = "add"
    <2>1. /\ x.pc + 1 \in DOMAIN Program[x.fn].code
          /\ CodeAt(x).dst \in (Program[x.fn].ins + 1) .. NumRegisters(x.fn)
          /\ CodeAt(x).src \in 1 .. NumRegisters(x.fn)
          /\ CodeAt(x).by \in Nat /\ CodeAt(x).mod \in Nat \ {0}
      BY <1>2, InsnCases DEF Ending
    <2>2. PICK v : v = (r[CodeAt(x).src] + CodeAt(x).by) % CodeAt(x).mod
      OBVIOUS
    <2>3. v \in Nat
      <3>1. r[CodeAt(x).src] \in Nat
        BY <2>1, <1>1
      <3>2. \A a, b \in Nat, c \in Nat \ {0} : (a + b) % c \in Nat
        OBVIOUS
      <3> QED
        BY <2>1, <2>2, <3>1, <3>2
    <2>d. CodeAt(x).dst \in Nat /\ \A k \in 1 .. Program[x.fn].ins : k # CodeAt(x).dst /\ k \in 1 .. Len(r)
      <3>1. PICK i \in Nat, m \in Nat : i = Program[x.fn].ins /\ m = NumRegisters(x.fn) /\ i <= m
        BY FrameParts
      <3>2. PICK d \in (i + 1) .. m : d = CodeAt(x).dst
        BY <2>1, <3>1
      <3>3. \A k \in 1 .. i : k # d /\ k \in 1 .. m
        BY <3>1
      <3> QED
        BY <1>1, <3>1, <3>2, <3>3
    <2>e. PICK d \in Nat : d = CodeAt(x).dst
      BY <2>d
    <2>4. PICK s : s = [r EXCEPT ![d] = v]
      OBVIOUS
    <2>5. /\ s \in Seq(Nat) /\ Len(s) = Len(r) /\ \A k \in 1 .. Len(r) : k # d => s[k] = r[k]
      BY <2>3, <2>4, AssignKeeps
    <2>6. KeepInputs(x, s)
      BY <2>5, <2>d, <2>e, <1>1 DEF KeepInputs
    <2>7. Compute(x, CodeAt(x)) = MoveTo(x, x.pc + 1, s)
      BY <1>1, <1>2, <2>2, <2>4, <2>e DEF Compute, Frames, MoveTo
    <2> QED
      BY <2>1, <2>6, <2>7, FrameMoves
  <1>3. CASE CodeAt(x).op = "jz"
    <2>1. PICK p \in DOMAIN Program[x.fn].code : p = IF x.regs[CodeAt(x).src] = 0 THEN CodeAt(x).to ELSE x.pc + 1
      BY <1>3, InsnCases DEF Ending
    <2>2. Compute(x, CodeAt(x)) = MoveTo(x, p, r)
      BY <1>1, <1>3, <2>1 DEF Compute, Frames, MoveTo
    <2>3. KeepInputs(x, r)
      BY <1>1 DEF KeepInputs
    <2>4. MoveTo(x, p, r) \in Frames /\ MoveTo(x, p, r).fn = x.fn /\ KeyOf(MoveTo(x, p, r)) = KeyOf(x)
      BY <2>3, FrameMoves
    <2> QED
      BY <2>2, <2>4, Zenon
  <1> QED
    BY <1>2, <1>3, InsnCases DEF Ending

(* Tables that hold one instance per key, in order.                        *)
Tidy(c) == \A f \in Functions : c[f] \in Seq(Instances(f)) /\ Sorted(f, c[f])

(* One instance per key.                                                   *)
LEMMA OnePerKey ==
  ASSUME ProgramAssumption, NEW c, Tidy(c), NEW f \in Functions,
         NEW x \in Range(c[f]), NEW y \in Range(c[f]), Inputs(f, x) = Inputs(f, y)
  PROVE  x = y
  <1>1. PICK rows \in Seq(Instances(f)) : rows = c[f] /\ Sorted(f, rows)
    BY DEF Tidy
  <1>2. PICK n \in Nat : n = Len(rows) /\ DOMAIN rows = 1 .. n
    OBVIOUS
  <1>3. PICK i \in 1 .. n : rows[i] = x
    BY <1>1, <1>2 DEF Range
  <1>4. PICK j \in 1 .. n : rows[j] = y
    BY <1>1, <1>2 DEF Range
  <1>5. rows[i] \in Instances(f)
    BY <1>2
  <1>6. ~Less(Inputs(f, x), Inputs(f, x))
    BY <1>3, <1>5, InputsAreKey, LessStrict DEF Keys
  <1>7. ~(i < j) /\ ~(j < i)
    BY <1>1, <1>2, <1>3, <1>4, <1>6 DEF Sorted
  <1>8. i = j
    BY <1>7
  <1> QED
    BY <1>3, <1>4, <1>8

(* A step of an execution gives a frame of the same call.                  *)
LEMMA FollowsKeeps ==
  ASSUME ProgramAssumption, NEW c, Tidy(c), NEW x \in Frames, NEW y, Follows(c, x, y)
  PROVE  y \in Frames /\ y.fn = x.fn /\ KeyOf(y) = KeyOf(x)
  <1>1. CASE CodeAt(x).op = "in"
    <2>1. CodeAt(x).bus \in Functions
      BY <1>1, CallIsKey
    <2>2. PICK inst \in Range(c[CodeAt(x).bus]) : y = Resume(x, Outputs(CodeAt(x).bus, inst))
      BY <1>1 DEF Follows
    <2>3. inst \in Instances(CodeAt(x).bus)
      BY <2>1, <2>2 DEF Tidy, Range
    <2>4. /\ Outputs(CodeAt(x).bus, inst) \in Seq(Nat)
          /\ Len(Outputs(CodeAt(x).bus, inst)) = Program[CodeAt(x).bus].outs
      BY <2>1, <2>3, InputsAreKey
    <2> QED
      BY <1>1, <2>2, <2>4, ResumeKeeps
  <1>2. CASE CodeAt(x).op # "in"
    <2>1. CodeAt(x).op \notin {"in", "ret", "fail"} /\ y = Compute(x, CodeAt(x))
      BY <1>2 DEF Follows
    <2> QED
      BY <2>1, ComputeKeeps
  <1> QED
    BY <1>1, <1>2

(* Executions are deterministic: a frame has at most one successor.        *)
LEMMA FollowsOnce ==
  ASSUME ProgramAssumption, NEW c, Tidy(c), NEW x \in Frames, NEW y, NEW z,
         Follows(c, x, y), Follows(c, x, z)
  PROVE  y = z
  <1>1. CASE CodeAt(x).op = "in"
    <2>1. CodeAt(x).bus \in Functions
      BY <1>1, CallIsKey
    <2>2. PICK a \in Range(c[CodeAt(x).bus]) :
              Inputs(CodeAt(x).bus, a) = CallOf(x) /\ y = Resume(x, Outputs(CodeAt(x).bus, a))
      BY <1>1 DEF Follows
    <2>3. PICK b \in Range(c[CodeAt(x).bus]) :
              Inputs(CodeAt(x).bus, b) = CallOf(x) /\ z = Resume(x, Outputs(CodeAt(x).bus, b))
      BY <1>1 DEF Follows
    <2>4. a = b
      BY <2>1, <2>2, <2>3, OnePerKey
    <2> QED
      BY <2>2, <2>3, <2>4
  <1>2. CASE CodeAt(x).op # "in"
    BY <1>2 DEF Follows
  <1> QED
    BY <1>1, <1>2

(* Nothing follows an ending.                                              *)
LEMMA EndingStops ==
  ASSUME NEW c, NEW x, NEW y, Ending(x)
  PROVE  ~Follows(c, x, y)
  BY DEF Ending, Follows

(* An execution that has gone nowhere.                                     *)
LEMMA ReachesSelf ==
  ASSUME NEW c, NEW x
  PROVE  Reaches(c, x, x)
  BY DEF Reaches

(* One more step.                                                          *)
LEMMA ReachesNext ==
  ASSUME NEW c, NEW x, NEW y, NEW z \in Frames, Reaches(c, x, y), Follows(c, y, z)
  PROVE  Reaches(c, x, z)
  BY DEF Reaches, Closed

(* Instances that are recorded later do not disturb an execution.          *)
LEMMA ReachesMore ==
  ASSUME ProgramAssumption, NEW c, NEW d, \A f \in Functions : Range(c[f]) \subseteq Range(d[f]),
         NEW x, NEW y, Reaches(c, x, y)
  PROVE  Reaches(d, x, y)
  <1> SUFFICES ASSUME NEW S \in SUBSET Frames, x \in S, Closed(d, S) PROVE y \in S
    BY DEF Reaches
  <1>1. ASSUME NEW u \in S, NEW w \in Frames, Follows(c, u, w) PROVE w \in S
    <2>1. u \in Frames
      OBVIOUS
    <2>2. CodeAt(u).op = "in" => CodeAt(u).bus \in Functions
      BY <2>1, CallIsKey
    <2>3. Follows(d, u, w)
      BY <1>1, <2>2 DEF Follows
    <2> QED
      BY <2>3 DEF Closed
  <1>2. Closed(c, S)
    BY <1>1 DEF Closed
  <1> QED
    BY <1>2 DEF Reaches

(* What is ahead of a frame is ahead of its successor.                     *)
LEMMA ReachesTail ==
  ASSUME ProgramAssumption, NEW c, Tidy(c), NEW x \in Frames, NEW y, NEW z,
         Reaches(c, x, y), x # y, Follows(c, x, z)
  PROVE  Reaches(c, z, y)
  <1> SUFFICES ASSUME NEW S \in SUBSET Frames, z \in S, Closed(c, S) PROVE y \in S
    BY DEF Reaches
  <1>1. S \cup {x} \in SUBSET Frames
    OBVIOUS
  <1>2. ASSUME NEW u \in S \cup {x}, NEW w \in Frames, Follows(c, u, w) PROVE w \in S
    <2>1. CASE u = x
      BY <1>2, <2>1, FollowsOnce
    <2>2. CASE u \in S
      BY <1>2, <2>2 DEF Closed
    <2> QED
      BY <2>1, <2>2
  <1>3. Closed(c, S \cup {x})
    BY <1>2 DEF Closed
  <1>4. y \in S \cup {x}
    BY <1>1, <1>3 DEF Reaches
  <1> QED
    BY <1>4

(* Two executions of one call end in the same frame.                       *)
LEMMA EndsOnce ==
  ASSUME ProgramAssumption, NEW c, Tidy(c), NEW x \in Frames, NEW y \in Frames, NEW z \in Frames,
         Reaches(c, x, y), Reaches(c, x, z), Ending(y), Ending(z)
  PROVE  y = z
  <1> DEFINE S == {w \in Frames : Reaches(c, w, y)}
  <1>1. ASSUME NEW u \in S, NEW w \in Frames, Follows(c, u, w) PROVE w \in S
    <2>1. u # y
      BY <1>1, EndingStops
    <2>2. Reaches(c, w, y)
      BY <1>1, <2>1, ReachesTail
    <2> QED
      BY <2>2
  <1>2. Closed(c, S) /\ S \in SUBSET Frames /\ x \in S
    BY <1>1 DEF Closed
  <1>3. z \in S
    <2> HIDE DEF S
    <2> QED
      BY <1>2 DEF Reaches
  <1>4. Closed(c, {z})
    BY EndingStops DEF Closed
  <1>5. Reaches(c, z, y)
    BY <1>3
  <1> QED
    BY <1>4, <1>5 DEF Reaches
-----------------------------------------------------------------------------
(* The stack of a thread: every frame has been reached from the start of   *)
(* its call, and its call is the one the frame below, or the seed, waits   *)
(* for.                                                                    *)

Calls(x, f, key) == CodeAt(x).op = "in" /\ CodeAt(x).bus = f /\ CallOf(x) = key
Asks(sd, f, key) == sd # <<>> /\ f = Head(sd)[1] /\ key = Inputs(f, Head(sd)[2])
Wanted(s, sd, f, key) == IF s = <<>> THEN Asks(sd, f, key) ELSE Calls(Last(s), f, key)
Started(c, x) == Reaches(c, Frame(x.fn, KeyOf(x)), x)

StackOK(c, s, sd) ==
    /\ s \in Seq(Frames)
    /\ s # <<>> => Asks(sd, s[1].fn, KeyOf(s[1]))
    /\ \A i \in 1 .. Len(s) - 1 : Calls(s[i], s[i + 1].fn, KeyOf(s[i + 1]))
    /\ \A i \in 1 .. Len(s) : Started(c, s[i])

(* The last element of a sequence and those before it.                     *)
LEMMA FrontLast ==
  ASSUME NEW S, NEW s \in Seq(S), s # <<>>
  PROVE  /\ Last(s) \in S /\ Last(s) = s[Len(s)] /\ Len(s) \in Nat \ {0}
         /\ Front(s) \in Seq(S) /\ Len(Front(s)) = Len(s) - 1
         /\ \A i \in 1 .. Len(s) - 1 : Front(s)[i] = s[i]
  <1>1. Len(s) \in Nat \ {0}
    BY EmptySeq
  <1>2. Last(s) = s[Len(s)] /\ Last(s) \in S
    BY <1>1 DEF Last
  <1>3. Front(s) = SubSeq(s, 1, Len(s) - 1)
    BY DEF Front
  <1>4. PICK n \in Nat : n = Len(s) - 1
    BY <1>1
  <1>5. /\ SubSeq(s, 1, n) \in Seq(S) /\ Len(SubSeq(s, 1, n)) = n
        /\ \A i \in 1 .. n : SubSeq(s, 1, n)[i] = s[i]
    BY <1>4, SubSeqProperties
  <1> QED
    BY <1>1, <1>2, <1>3, <1>4, <1>5

(* A call is pushed on what waits for it.                                  *)
LEMMA Push ==
  ASSUME NEW c, NEW s, NEW sd, StackOK(c, s, sd), NEW x \in Frames, Started(c, x),
         Wanted(s, sd, x.fn, KeyOf(x))
  PROVE  /\ StackOK(c, Append(s, x), sd) /\ Append(s, x) # <<>> /\ Last(Append(s, x)) = x
         /\ Append(s, x) \in Seq(Frames)
  <1>1. s \in Seq(Frames)
    BY DEF StackOK
  <1>2. PICK n \in Nat : n = Len(s)
    BY <1>1
  <1>3. PICK r : r = Append(s, x)
    OBVIOUS
  <1>4. /\ r \in Seq(Frames) /\ Len(r) = n + 1 /\ r[n + 1] = x
        /\ \A i \in 1 .. n : r[i] = s[i]
    BY <1>1, <1>2, <1>3
  <1>5. r # <<>> /\ Last(r) = x
    BY <1>4 DEF Last
  <1>6. Asks(sd, r[1].fn, KeyOf(r[1]))
    <2>1. CASE s = <<>>
      <3>1. r[1] = x
        BY <1>1, <1>3, <2>1
      <3> QED
        BY <2>1, <3>1 DEF Wanted
    <2>2. CASE s # <<>>
      <3>1. 1 \in 1 .. n
        BY <1>1, <1>2, <2>2, EmptySeq
      <3>2. r[1] = s[1]
        BY <3>1, <1>4
      <3> QED
        BY <2>2, <3>2 DEF StackOK
    <2> QED
      BY <2>1, <2>2
  <1>7. ASSUME NEW i \in 1 .. n PROVE Calls(r[i], r[i + 1].fn, KeyOf(r[i + 1]))
    <2>1. CASE i = n
      <3>1. s # <<>> /\ Last(s) = s[n]
        BY <1>2, <1>7, EmptySeq DEF Last
      <3>2. r[i] = Last(s) /\ r[i + 1] = x
        BY <2>1, <3>1, <1>4
      <3> QED
        BY <3>1, <3>2 DEF Wanted
    <2>2. CASE i < n
      <3>1. i \in 1 .. Len(s) - 1 /\ r[i] = s[i] /\ r[i + 1] = s[i + 1]
        BY <1>2, <1>4, <2>2
      <3> QED
        BY <3>1 DEF StackOK
    <2> QED
      BY <2>1, <2>2
  <1>8. ASSUME NEW i \in 1 .. n + 1 PROVE Started(c, r[i])
    <2>1. CASE i = n + 1
      BY <1>4, <2>1
    <2>2. CASE i \in 1 .. n
      BY <1>2, <1>4, <2>2 DEF StackOK
    <2> QED
      BY <2>1, <2>2
  <1>9. StackOK(c, r, sd)
    <2>1. Len(r) = n + 1 /\ Len(r) - 1 = n
      BY <1>4
    <2> QED
      BY <2>1, <1>4, <1>6, <1>7, <1>8 DEF StackOK
  <1> QED
    BY <1>3, <1>4, <1>5, <1>9

(* The call on top of a stack is the one that is wanted below it.          *)
LEMMA Pop ==
  ASSUME NEW c, NEW s, NEW sd, StackOK(c, s, sd), s # <<>>
  PROVE  /\ StackOK(c, Front(s), sd) /\ Last(s) \in Frames /\ Started(c, Last(s))
         /\ Wanted(Front(s), sd, Last(s).fn, KeyOf(Last(s)))
  <1>1. s \in Seq(Frames)
    BY DEF StackOK
  <1>2. PICK n \in Nat : n = Len(s) - 1
    BY <1>1, EmptySeq
  <1>3. PICK r : r = Front(s)
    OBVIOUS
  <1>4. /\ r \in Seq(Frames) /\ Len(r) = n /\ \A i \in 1 .. n : r[i] = s[i]
        /\ Last(s) \in Frames /\ Last(s) = s[n + 1] /\ Len(s) = n + 1
    BY <1>1, <1>2, <1>3, FrontLast
  <1>5. Started(c, Last(s))
    BY <1>4 DEF StackOK
  <1>6. r # <<>> => n >= 1 /\ r[1] = s[1] /\ Last(r) = s[n]
    <2>1. r # <<>> => n >= 1
      BY <1>4, EmptySeq
    <2> QED
      BY <2>1, <1>4 DEF Last
  <1>7. Asks(sd, s[1].fn, KeyOf(s[1]))
    BY DEF StackOK
  <1>8. r = <<>> => n = 0
    BY <1>4
  <1>9. \A i \in 1 .. n : Calls(s[i], s[i + 1].fn, KeyOf(s[i + 1])) /\ Started(c, s[i])
    BY <1>4 DEF StackOK
  <1>a. Wanted(r, sd, Last(s).fn, KeyOf(Last(s)))
    <2>1. CASE r = <<>>
      BY <2>1, <1>4, <1>7, <1>8 DEF Wanted
    <2>2. CASE r # <<>>
      <3>1. n \in 1 .. n
        BY <2>2, <1>6
      <3> QED
        BY <2>2, <3>1, <1>4, <1>6, <1>9 DEF Wanted
    <2> QED
      BY <2>1, <2>2
  <1>b. StackOK(c, r, sd)
    <2>1. \A i \in 1 .. n - 1 : r[i] = s[i] /\ r[i + 1] = s[i + 1] /\ i \in 1 .. n
      BY <1>4
    <2>2. \A i \in 1 .. n - 1 : Calls(r[i], r[i + 1].fn, KeyOf(r[i + 1]))
      BY <2>1, <1>9
    <2>3. \A i \in 1 .. n : Started(c, r[i])
      BY <1>4, <1>9
    <2>4. r # <<>> => Asks(sd, r[1].fn, KeyOf(r[1]))
      BY <1>6, <1>7
    <2> QED
      BY <2>2, <2>3, <2>4, <1>4 DEF StackOK
  <1> QED
    BY <1>3, <1>4, <1>5, <1>a, <1>b

(* A call that nobody has answered is executed.                            *)
LEMMA PushCall ==
  ASSUME ProgramAssumption, NEW c, NEW s, NEW sd, StackOK(c, s, sd),
         NEW f \in Functions, NEW key \in Keys(f), Wanted(s, sd, f, key)
  PROVE  StackOK(c, Append(s, Frame(f, key)), sd) /\ Append(s, Frame(f, key)) # <<>>
  <1>1. PICK x : x = Frame(f, key)
    OBVIOUS
  <1>2. x \in Frames /\ x.fn = f /\ KeyOf(x) = key
    BY <1>1, FrameStarts
  <1>3. Started(c, x)
    BY <1>1, <1>2, ReachesSelf DEF Started
  <1>4. Wanted(s, sd, x.fn, KeyOf(x))
    BY <1>2
  <1> QED
    BY <1>1, <1>2, <1>3, <1>4, Push

(* The frame on top goes on to one that follows it.                        *)
LEMMA StepTop ==
  ASSUME ProgramAssumption, NEW c, Tidy(c), NEW s, NEW sd, StackOK(c, s, sd), s # <<>>,
         NEW y, Follows(c, Last(s), y)
  PROVE  StackOK(c, Append(Front(s), y), sd) /\ Append(Front(s), y) # <<>>
  <1>1. PICK x : x = Last(s)
    OBVIOUS
  <1>2. /\ StackOK(c, Front(s), sd) /\ x \in Frames /\ Started(c, x)
        /\ Wanted(Front(s), sd, x.fn, KeyOf(x))
    BY <1>1, Pop
  <1>3. y \in Frames /\ y.fn = x.fn /\ KeyOf(y) = KeyOf(x)
    BY <1>1, <1>2, FollowsKeeps
  <1>4. Started(c, y)
    <2>1. Reaches(c, Frame(x.fn, KeyOf(x)), x)
      BY <1>2 DEF Started
    <2>2. Reaches(c, Frame(x.fn, KeyOf(x)), y)
      BY <1>1, <1>3, <2>1, ReachesNext
    <2> QED
      BY <1>3, <2>2 DEF Started
  <1>5. Wanted(Front(s), sd, y.fn, KeyOf(y))
    BY <1>2, <1>3
  <1> QED
    BY <1>2, <1>3, <1>4, <1>5, Push
-----------------------------------------------------------------------------
(* The seeds of a thread: those that are done have been recorded, and the  *)
(* errors are those whose outputs are not the recorded ones.               *)

Handled(c, all, n, e) ==
    /\ \A k \in 1 .. n : Recorded(c, all[k])
    /\ e = {all[k] : k \in {j \in 1 .. n : Wrong(c, all[j])}}
SeedsOK(c, all, sd, e) ==
    \E n \in 0 .. Len(all) : sd = SubSeq(all, n + 1, Len(all)) /\ Handled(c, all, n, e)

Grown(c, d) == \A f \in Functions : Range(c[f]) \subseteq Range(d[f])

(* What has been recorded answers a call for good.                         *)
LEMMA WrongStays ==
  ASSUME ProgramAssumption, NEW c, NEW d, Grown(c, d), Tidy(d), NEW s \in Seeds, Recorded(c, s)
  PROVE  Recorded(d, s) /\ (Wrong(c, s) <=> Wrong(d, s))
  <1>1. s[1] \in Functions
    BY DEF Seeds
  <1>2. PICK x \in Range(c[s[1]]) : Inputs(s[1], x) = Inputs(s[1], s[2])
    BY DEF Recorded, Matching
  <1>3. x \in Range(d[s[1]])
    BY <1>1, <1>2 DEF Grown
  <1>4. ASSUME NEW y \in Range(d[s[1]]), Inputs(s[1], y) = Inputs(s[1], s[2]) PROVE y = x
    BY <1>1, <1>2, <1>3, <1>4, OnePerKey
  <1>5. Range(c[s[1]]) \subseteq Range(d[s[1]])
    BY <1>1 DEF Grown
  <1>6. Matching(d, s) = {x} /\ Matching(c, s) = {x}
    BY <1>2, <1>3, <1>4, <1>5 DEF Matching
  <1> QED
    BY <1>6 DEF Recorded, Wrong

(* Seeds that are done stay done while instances are recorded.             *)
LEMMA SeedsGrow ==
  ASSUME ProgramAssumption, NEW c, NEW d, Grown(c, d), Tidy(d), NEW all \in Seq(Seeds), NEW sd, NEW e,
         SeedsOK(c, all, sd, e)
  PROVE  SeedsOK(d, all, sd, e)
  <1>1. PICK n \in 0 .. Len(all) : sd = SubSeq(all, n + 1, Len(all)) /\ Handled(c, all, n, e)
    BY DEF SeedsOK
  <1>2. ASSUME NEW k \in 1 .. n PROVE Recorded(d, all[k]) /\ (Wrong(c, all[k]) <=> Wrong(d, all[k]))
    <2>1. all[k] \in Seeds /\ Recorded(c, all[k])
      BY <1>1 DEF Handled
    <2> QED
      BY <2>1, WrongStays
  <1>3. {j \in 1 .. n : Wrong(c, all[j])} = {j \in 1 .. n : Wrong(d, all[j])}
    BY <1>2
  <1>4. Handled(d, all, n, e)
    BY <1>1, <1>2, <1>3 DEF Handled
  <1> QED
    BY <1>1, <1>4 DEF SeedsOK

(* The seed that is next.                                                  *)
LEMMA NextSeed ==
  ASSUME NEW c, NEW all \in Seq(Seeds), NEW sd, NEW e, SeedsOK(c, all, sd, e), sd # <<>>
  PROVE  Head(sd) \in Seeds
  <1>1. PICK n \in 0 .. Len(all) : sd = SubSeq(all, n + 1, Len(all))
    BY DEF SeedsOK
  <1>2. PICK m \in Nat : m = Len(all)
    OBVIOUS
  <1>3. sd \in Seq(Seeds)
    BY <1>1, <1>2, SubSeqProperties
  <1> QED
    BY <1>3, HeadTailProperties

(* executeAndCheck is through with a seed once its instance is recorded.   *)
LEMMA SeedDone ==
  ASSUME ProgramAssumption, NEW c, Tidy(c), NEW all \in Seq(Seeds), NEW sd, NEW e, SeedsOK(c, all, sd, e),
         sd # <<>>, NEW inst \in Range(c[Head(sd)[1]]),
         Inputs(Head(sd)[1], inst) = Inputs(Head(sd)[1], Head(sd)[2])
  PROVE  SeedsOK(c, all, Tail(sd),
                 IF Outputs(Head(sd)[1], Head(sd)[2]) = Outputs(Head(sd)[1], inst)
                 THEN e ELSE e \cup {Head(sd)})
  <1>1. PICK n \in 0 .. Len(all) : sd = SubSeq(all, n + 1, Len(all)) /\ Handled(c, all, n, e)
    BY DEF SeedsOK
  <1>2. PICK m \in Nat : m = Len(all) /\ n \in 0 .. m
    OBVIOUS
  <1>3. Len(sd) = m - n
    BY <1>1, <1>2, SubSeqProperties
  <1>4. n + 1 \in 1 .. m
    <2>1. sd \in Seq(Seeds)
      BY <1>1, <1>2, SubSeqProperties
    <2>2. Len(sd) # 0
      BY <2>1, EmptySeq
    <2> QED
      BY <1>2, <1>3, <2>2
  <1>5. Head(sd) = all[n + 1] /\ Tail(sd) = SubSeq(all, (n + 1) + 1, m)
    BY <1>1, <1>2, <1>4, HeadTailOfSubSeq
  <1>6. PICK s \in Seeds : s = Head(sd) /\ s = all[n + 1]
    BY <1>2, <1>4, <1>5
  <1>7. s[1] \in Functions /\ inst \in Range(c[s[1]]) /\ Inputs(s[1], inst) = Inputs(s[1], s[2])
    BY <1>6 DEF Seeds
  <1>8. \A y \in Range(c[s[1]]) : Inputs(s[1], y) = Inputs(s[1], s[2]) => y = inst
    BY <1>7, OnePerKey
  <1>9. Matching(c, s) = {inst}
    BY <1>7, <1>8 DEF Matching
  <1>a. Recorded(c, s) /\ (Wrong(c, s) <=> Outputs(s[1], s[2]) # Outputs(s[1], inst))
    BY <1>9 DEF Recorded, Wrong
  <1>b. PICK e2 : e2 = IF Outputs(s[1], s[2]) = Outputs(s[1], inst) THEN e ELSE e \cup {s}
    OBVIOUS
  <1>c. \A k \in 1 .. n + 1 : k \in 1 .. n \/ k = n + 1
    OBVIOUS
  <1>d. \A k \in 1 .. n + 1 : Recorded(c, all[k])
    BY <1>1, <1>6, <1>a, <1>c DEF Handled
  <1>e. e2 = {all[k] : k \in {j \in 1 .. n + 1 : Wrong(c, all[j])}}
    <2>1. e = {all[k] : k \in {j \in 1 .. n : Wrong(c, all[j])}}
      BY <1>1 DEF Handled
    <2>2. CASE Wrong(c, s)
      <3>1. {j \in 1 .. n + 1 : Wrong(c, all[j])} = {j \in 1 .. n : Wrong(c, all[j])} \cup {n + 1}
        BY <1>2, <1>6, <2>2
      <3>2. e2 = e \cup {s}
        BY <1>a, <1>b, <2>2
      <3> QED
        BY <2>1, <3>1, <3>2, <1>6
    <2>3. CASE ~Wrong(c, s)
      <3>1. {j \in 1 .. n + 1 : Wrong(c, all[j])} = {j \in 1 .. n : Wrong(c, all[j])}
        BY <1>2, <1>6, <2>3, <1>c
      <3>2. e2 = e
        BY <1>a, <1>b, <2>3
      <3> QED
        BY <2>1, <3>1, <3>2
    <2> QED
      BY <2>2, <2>3
  <1>f. Handled(c, all, n + 1, e2)
    BY <1>d, <1>e DEF Handled
  <1>g. SeedsOK(c, all, Tail(sd), e2)
    <2>1. PICK k \in 0 .. Len(all) : k = n + 1
      BY <1>2, <1>4
    <2>2. Tail(sd) = SubSeq(all, k + 1, Len(all)) /\ Handled(c, all, k, e2)
      BY <2>1, <1>2, <1>5, <1>f
    <2> QED
      BY <2>2 DEF SeedsOK
  <1> QED
    BY <1>6, <1>b, <1>g
-----------------------------------------------------------------------------
(* The state of one thread, against instances c.                           *)
ThreadOK(c, all, a, g, s, sd, e) ==
    /\ StackOK(c, s, sd)
    /\ SeedsOK(c, all, sd, e)
    /\ a = "idle" => s = <<>>
    /\ a \in {"run", "insert"} => s # <<>>
    /\ a = "find" => /\ g[1] \in Functions /\ g[2] \in Keys(g[1])
                     /\ Wanted(s, sd, g[1], g[2])
    /\ a = "insert" => Ending(Last(s))

AllJustified(c) == \A f \in Functions : \A inst \in Range(c[f]) : Justified(c, f, inst)

(* What another thread records does not disturb a thread.                  *)
LEMMA ThreadGrows ==
  ASSUME ProgramAssumption, NEW c, NEW d, Grown(c, d), Tidy(d), NEW all \in Seq(Seeds),
         NEW a, NEW g, NEW s, NEW sd, NEW e, ThreadOK(c, all, a, g, s, sd, e)
  PROVE  ThreadOK(d, all, a, g, s, sd, e)
  <1>1. StackOK(c, s, sd) /\ SeedsOK(c, all, sd, e)
    BY DEF ThreadOK
  <1>2. \A i \in 1 .. Len(s) : Started(d, s[i])
    BY <1>1, ReachesMore DEF StackOK, Started, Grown
  <1>3. StackOK(d, s, sd)
    BY <1>1, <1>2 DEF StackOK
  <1>4. SeedsOK(d, all, sd, e)
    BY <1>1, SeedsGrow
  <1> QED
    BY <1>3, <1>4 DEF ThreadOK

(* An execution that has ended is recorded, unless another thread has      *)
(* recorded the same call before; then its instance is the same one.       *)
LEMMA RecordInstance ==
  ASSUME ProgramAssumption, NEW c, c = [f \in Functions |-> c[f]], Tidy(c), AllJustified(c),
         NEW x \in Frames, Ending(x), Started(c, x),
         NEW d, d = [c EXCEPT ![x.fn] = Insert(x.fn, c[x.fn], Instance(x))]
  PROVE  /\ d = [f \in Functions |-> d[f]] /\ Grown(c, d) /\ Tidy(d) /\ AllJustified(d)
         /\ Instance(x) \in Range(d[x.fn])
         /\ \A f \in Functions : \A inst \in Range(d[f]) : Justified(c, f, inst)
  <1>1. x.fn \in Functions
    BY FrameParts
  <1>2. PICK inst \in Instances(x.fn) : inst = Instance(x) /\ Inputs(x.fn, inst) = KeyOf(x)
    BY InstanceOfFrame
  <1>3. PICK rows \in Seq(Instances(x.fn)) : rows = c[x.fn] /\ Sorted(x.fn, rows)
    BY <1>1 DEF Tidy
  <1>4. PICK r : r = Insert(x.fn, rows, inst)
    OBVIOUS
  <1>5. /\ r \in Seq(Instances(x.fn)) /\ Sorted(x.fn, r) /\ Range(rows) \subseteq Range(r)
        /\ \/ r = rows /\ \E y \in Range(rows) : Inputs(x.fn, y) = Inputs(x.fn, inst)
           \/ inst \in Range(r) /\ Range(r) \subseteq Range(rows) \cup {inst}
    BY <1>1, <1>3, <1>4, InsertKeepsOrder
  <1>6. d = [f \in Functions |-> IF f = x.fn THEN r ELSE c[f]]
    BY <1>2, <1>3, <1>4
  <1>7. d = [f \in Functions |-> d[f]] /\ d[x.fn] = r /\ \A f \in Functions : f # x.fn => d[f] = c[f]
    BY <1>1, <1>6
  <1>8. Tidy(d) /\ Grown(c, d)
    BY <1>3, <1>5, <1>7 DEF Tidy, Grown
  <1>9. Justified(c, x.fn, inst)
    BY <1>2 DEF Justified, Started
  <1>a. ASSUME NEW y \in Range(rows), Inputs(x.fn, y) = Inputs(x.fn, inst) PROVE y = inst
    <2>1. Justified(c, x.fn, y)
      BY <1>1, <1>3 DEF AllJustified
    <2>2. PICK z \in Frames : /\ z.fn = x.fn /\ Ending(z) /\ Instance(z) = y
                              /\ Reaches(c, Frame(x.fn, KeyOf(x)), z)
      BY <2>1, <1>2, <1>a DEF Justified
    <2>3. Frame(x.fn, KeyOf(x)) \in Frames
      BY <1>1, KeyOfFrame, FrameStarts
    <2>4. z = x
      BY <2>2, <2>3, EndsOnce DEF Started
    <2> QED
      BY <2>2, <2>4, <1>2
  <1>b. inst \in Range(r) /\ Range(r) \subseteq Range(rows) \cup {inst}
    BY <1>5, <1>a
  <1>c. ASSUME NEW f \in Functions, NEW y \in Range(d[f]) PROVE Justified(c, f, y)
    <2>1. CASE f = x.fn
      <3>1. y \in Range(rows) \/ y = inst
        BY <2>1, <1>7, <1>b
      <3> QED
        BY <2>1, <3>1, <1>3, <1>9 DEF AllJustified
    <2>2. CASE f # x.fn
      BY <2>2, <1>7 DEF AllJustified
    <2> QED
      BY <2>1, <2>2
  <1>d. ASSUME NEW f \in Functions, NEW y \in Range(d[f]) PROVE Justified(d, f, y)
    <2>1. PICK z \in Frames : /\ z.fn = f /\ Ending(z) /\ Instance(z) = y
                              /\ Reaches(c, Frame(f, Inputs(f, y)), z)
      BY <1>c DEF Justified
    <2>2. Reaches(d, Frame(f, Inputs(f, y)), z)
      BY <2>1, <1>8, ReachesMore DEF Grown
    <2> QED
      BY <2>1, <2>2 DEF Justified
  <1> QED
    BY <1>2, <1>7, <1>8, <1>b, <1>c, <1>d DEF AllJustified
-----------------------------------------------------------------------------
(* The inductive invariant.                                                *)

Places == {"idle", "find", "run", "insert"}

CacheInv ==
    /\ trace \in [Threads -> Traces]
    /\ cache = [f \in Functions |-> cache[f]] /\ Tidy(cache) /\ AllJustified(cache)
    /\ at \in [Threads -> Places]
    /\ arg = [t \in Threads |-> arg[t]]
    /\ stack = [t \in Threads |-> stack[t]]
    /\ seeds = [t \in Threads |-> seeds[t]]
    /\ errors = [t \in Threads |-> errors[t]]
    /\ \A t \in Threads :
        ThreadOK(cache, SeedsOf(trace[t]), at[t], arg[t], stack[t], seeds[t], errors[t])

(* Thread t comes to a, g, s, sd and e.                                    *)
ComesTo(t, a, g, s, sd, e) ==
    /\ at' = [at EXCEPT ![t] = a] /\ arg' = [arg EXCEPT ![t] = g]
    /\ stack' = [stack EXCEPT ![t] = s] /\ seeds' = [seeds EXCEPT ![t] = sd]
    /\ errors' = [errors EXCEPT ![t] = e]

(* The other threads are undisturbed by what one thread does.              *)
LEMMA OneMoves ==
  ASSUME ProgramAssumption, SeedsAssumption, CacheInv, NEW t \in Threads, trace' = trace,
         cache' = [f \in Functions |-> cache'[f]], Grown(cache, cache'), Tidy(cache'), AllJustified(cache'),
         NEW a \in Places, NEW g, NEW s, NEW sd, NEW e, ComesTo(t, a, g, s, sd, e),
         ThreadOK(cache', SeedsOf(trace[t]), a, g, s, sd, e)
  PROVE  CacheInv'
  <1>1. /\ at' \in [Threads -> Places]
        /\ arg' = [u \in Threads |-> arg'[u]]
        /\ stack' = [u \in Threads |-> stack'[u]]
        /\ seeds' = [u \in Threads |-> seeds'[u]]
        /\ errors' = [u \in Threads |-> errors'[u]]
    BY DEF CacheInv, ComesTo
  <1>2. ASSUME NEW u \in Threads
        PROVE  ThreadOK(cache', SeedsOf(trace'[u]), at'[u], arg'[u], stack'[u], seeds'[u], errors'[u])
    <2>1. CASE u = t
      <3>1. at'[u] = a /\ arg'[u] = g /\ stack'[u] = s /\ seeds'[u] = sd /\ errors'[u] = e
        BY <2>1 DEF CacheInv, ComesTo
      <3> QED
        BY <2>1, <3>1
    <2>2. CASE u # t
      <3>1. /\ at'[u] = at[u] /\ arg'[u] = arg[u] /\ stack'[u] = stack[u] /\ seeds'[u] = seeds[u]
            /\ errors'[u] = errors[u]
        BY <2>2 DEF CacheInv, ComesTo
      <3>2. SeedsOf(trace[u]) \in Seq(Seeds)
        BY DEF CacheInv, SeedsAssumption
      <3>3. ThreadOK(cache, SeedsOf(trace[u]), at[u], arg[u], stack[u], seeds[u], errors[u])
        BY DEF CacheInv
      <3>4. ThreadOK(cache', SeedsOf(trace[u]), at[u], arg[u], stack[u], seeds[u], errors[u])
        BY <3>2, <3>3, ThreadGrows
      <3> QED
        BY <3>1, <3>4
    <2> QED
      BY <2>1, <2>2
  <1> QED
    BY <1>1, <1>2 DEF CacheInv

(* A step that leaves the instances alone.                                 *)
LEMMA QuietMove ==
  ASSUME ProgramAssumption, SeedsAssumption, CacheInv, NEW t \in Threads, trace' = trace, cache' = cache,
         NEW a \in Places, NEW g, NEW s, NEW sd, NEW e, ComesTo(t, a, g, s, sd, e),
         ThreadOK(cache, SeedsOf(trace[t]), a, g, s, sd, e)
  PROVE  CacheInv'
  <1>1. Grown(cache, cache) /\ Tidy(cache) /\ AllJustified(cache) /\ cache = [f \in Functions |-> cache[f]]
    BY DEF CacheInv, Grown
  <1>2. Grown(cache, cache') /\ Tidy(cache') /\ AllJustified(cache') /\ cache' = [f \in Functions |-> cache'[f]]
    BY <1>1
  <1>3. ThreadOK(cache', SeedsOf(trace[t]), a, g, s, sd, e)
    OBVIOUS
  <1> QED
    BY <1>2, <1>3, OneMoves

(* A call that is answered by a recorded instance.                         *)
LEMMA AnswerOK ==
  ASSUME ProgramAssumption, NEW c, Tidy(c), NEW t \in Threads, NEW all \in Seq(Seeds),
         stack = [u \in Threads |-> stack[u]], seeds = [u \in Threads |-> seeds[u]],
         errors = [u \in Threads |-> errors[u]],
         NEW below, StackOK(c, below, seeds[t]), SeedsOK(c, all, seeds[t], errors[t]),
         NEW f \in Functions, NEW inst \in Range(c[f]), Wanted(below, seeds[t], f, Inputs(f, inst)),
         NEW g, arg' = [arg EXCEPT ![t] = g], Answer(t, below, f, inst)
  PROVE  \E a, s, sd, e : a \in Places /\ ComesTo(t, a, g, s, sd, e) /\ ThreadOK(c, all, a, g, s, sd, e)
  <1>1. CASE below = <<>>
    <2>1. PICK sd : sd = seeds[t]
      OBVIOUS
    <2>2. sd # <<>> /\ f = Head(sd)[1] /\ Inputs(f, inst) = Inputs(f, Head(sd)[2])
      BY <1>1, <2>1 DEF Wanted, Asks
    <2>3. PICK e : e = IF Outputs(Head(sd)[1], Head(sd)[2]) = Outputs(Head(sd)[1], inst)
                       THEN errors[t] ELSE errors[t] \cup {Head(sd)}
      OBVIOUS
    <2>4. SeedsOK(c, all, Tail(sd), e)
      BY <2>1, <2>2, <2>3, SeedDone
    <2>5. StackOK(c, <<>>, Tail(sd))
      BY DEF StackOK
    <2>6. ThreadOK(c, all, "idle", g, <<>>, Tail(sd), e)
      BY <2>4, <2>5 DEF ThreadOK
    <2>7. ComesTo(t, "idle", g, <<>>, Tail(sd), e)
      BY <1>1, <2>1, <2>3 DEF Answer, Check, ComesTo
    <2> QED
      BY <2>6, <2>7 DEF Places
  <1>2. CASE below # <<>>
    <2>1. PICK x : x = Last(below)
      OBVIOUS
    <2>2. CodeAt(x).op = "in" /\ CodeAt(x).bus = f /\ CallOf(x) = Inputs(f, inst)
      BY <1>2, <2>1 DEF Wanted, Calls
    <2>3. PICK y : y = Resume(x, Outputs(f, inst))
      OBVIOUS
    <2>4. Follows(c, x, y)
      BY <2>2, <2>3 DEF Follows
    <2>5. PICK s : s = Append(Front(below), y)
      OBVIOUS
    <2>6. StackOK(c, s, seeds[t]) /\ s # <<>>
      BY <1>2, <2>1, <2>4, <2>5, StepTop
    <2>7. ThreadOK(c, all, "run", g, s, seeds[t], errors[t])
      BY <2>6 DEF ThreadOK
    <2>8. s = Append(Front(below), [x EXCEPT !.pc = @ + 1, !.regs = StoreN(x.regs, Program[x.fn].code[x.pc].data, Outputs(f, inst))])
      BY <2>3, <2>5 DEF Resume, CodeAt
    <2>9. ComesTo(t, "run", g, s, seeds[t], errors[t])
      BY <1>2, <2>1, <2>8 DEF Answer, ComesTo
    <2> QED
      BY <2>7, <2>9 DEF Places
  <1> QED
    BY <1>1, <1>2

(* In a table that is in order FindLast finds the one row of a key.        *)
LEMMA RowFound ==
  ASSUME ProgramAssumption, NEW f \in Functions, NEW rows \in Seq(Instances(f)), Sorted(f, rows),
         NEW i \in DOMAIN rows
  PROVE  FindLast(f, rows, Inputs(f, rows[i])) = i
  <1>1. PICK n \in Nat : n = Len(rows) /\ DOMAIN rows = 1 .. n
    OBVIOUS
  <1>2. PICK key \in Keys(f) : key = Inputs(f, rows[i])
    BY InputsAreKey
  <1>3. ~Less(key, key)
    BY LessStrict DEF Keys
  <1>4. \A j \in 1 .. n : Inputs(f, rows[j]) = key => j = i
    <2>1. \A j \in 1 .. n : /\ i < j => Less(key, Inputs(f, rows[j]))
                            /\ j < i => Less(Inputs(f, rows[j]), key)
      BY <1>1, <1>2 DEF Sorted
    <2> QED
      BY <1>1, <1>3, <2>1
  <1>5. PICK k : k = SearchIndex(f, rows, key)
    OBVIOUS
  <1>6. IsAt(f, rows, key, k)
    BY <1>1, <1>2, <1>5, SearchExact
  <1>7. k \in 1 .. n + 1
    BY <1>1, <1>5, SearchSplits
  <1>8. k = i
    BY <1>1, <1>4, <1>6, <1>7 DEF IsAt
  <1> DEFINE T == {j \in k .. n : \A l \in k .. j : Inputs(f, rows[l]) = key}
  <1>9. FindLast(f, rows, key) = Max(T)
    BY <1>1, <1>5, <1>6 DEF FindLast
  <1>a. T = {i}
    <2>1. i \in T
      BY <1>1, <1>2, <1>8
    <2>2. ASSUME NEW j \in T PROVE j = i
      <3>1. j \in k .. n /\ j \in k .. j /\ j \in 1 .. n
        BY <1>1, <1>8
      <3>2. Inputs(f, rows[j]) = key
        BY <2>2, <3>1
      <3> QED
        BY <1>4, <3>1, <3>2
    <2> HIDE DEF T
    <2> QED
      BY <2>1, <2>2
  <1>b. Max({i}) = i
    BY <1>1 DEF Max
  <1> HIDE DEF T
  <1> QED
    BY <1>2, <1>9, <1>a, <1>b

(* A thread that has nothing left has handled all its seeds.               *)
LEMMA AllChecked ==
  ASSUME NEW c, NEW all \in Seq(Seeds), NEW e, SeedsOK(c, all, <<>>, e)
  PROVE  (\A s \in Range(all) : Recorded(c, s)) /\ e = {s \in Range(all) : Wrong(c, s)}
  <1>1. PICK n \in 0 .. Len(all) : <<>> = SubSeq(all, n + 1, Len(all)) /\ Handled(c, all, n, e)
    BY DEF SeedsOK
  <1>2. PICK m \in Nat : m = Len(all) /\ DOMAIN all = 1 .. m /\ n \in 0 .. m
    OBVIOUS
  <1>3. Len(SubSeq(all, n + 1, m)) = m - n
    BY <1>2, SubSeqProperties
  <1>4. n = m
    <2>1. Len(SubSeq(all, n + 1, m)) = 0
      BY <1>1, <1>2
    <2> QED
      BY <1>2, <1>3, <2>1
  <1>5. Range(all) = {all[k] : k \in 1 .. m}
    BY <1>2 DEF Range
  <1> QED
    BY <1>1, <1>2, <1>4, <1>5 DEF Handled

(* The invariant gives what is promised of the tables and of the seeds.    *)
LEMMA InvImplies ==
  ASSUME ProgramAssumption, SeedsAssumption, CacheInv
  PROVE  TypeOK /\ InstancesListed
  <1>1. Tidy(cache) /\ at \in [Threads -> Places] /\ trace \in [Threads -> Traces]
    BY DEF CacheInv
  <1>2. SortedUnique
    BY <1>1 DEF SortedUnique, Tidy
  <1>3. RowsFound
    BY <1>1, RowFound DEF RowsFound, Tidy
  <1>4. ASSUME NEW t \in Threads
        PROVE  /\ StackOK(cache, stack[t], seeds[t]) /\ (at[t] \in {"run", "insert"} => stack[t] # <<>>)
               /\ SeedsOK(cache, SeedsOf(trace[t]), seeds[t], errors[t]) /\ SeedsOf(trace[t]) \in Seq(Seeds)
    <2>1. ThreadOK(cache, SeedsOf(trace[t]), at[t], arg[t], stack[t], seeds[t], errors[t])
      BY DEF CacheInv
    <2> QED
      BY <1>1, <2>1 DEF ThreadOK, SeedsAssumption
  <1>5. SeedsChecked
    <2> SUFFICES ASSUME NEW t \in Threads, seeds[t] = <<>>
                 PROVE  /\ \A s \in Range(SeedsOf(trace[t])) : Recorded(cache, s)
                        /\ errors[t] = {s \in Range(SeedsOf(trace[t])) : Wrong(cache, s)}
      BY DEF SeedsChecked
    <2>1. SeedsOK(cache, SeedsOf(trace[t]), <<>>, errors[t]) /\ SeedsOf(trace[t]) \in Seq(Seeds)
      BY <1>4
    <2> QED
      BY <2>1, AllChecked
  <1>6. TypeOK
    <2>1. ASSUME NEW t \in Threads, NEW x \in Range(stack[t])
          PROVE  x.pc \in DOMAIN Program[x.fn].code /\ x.regs \in Seq(Nat)
      <3>1. x \in Frames
        BY <1>4 DEF StackOK, Range
      <3> QED
        BY <3>1, FrameParts
    <2> QED
      BY <1>1, <1>4, <2>1 DEF TypeOK, Places
  <1> QED
    BY <1>2, <1>3, <1>5, <1>6 DEF InstancesListed

(* A thread takes its next seed.                                           *)
LEMMA BeginKeeps ==
  ASSUME ProgramAssumption, SeedsAssumption, CacheInv, NEW t \in Threads, Begin(t)
  PROVE  CacheInv'
  <1>1. PICK all \in Seq(Seeds) : all = SeedsOf(trace[t])
    BY DEF CacheInv, SeedsAssumption
  <1>2. ThreadOK(cache, all, at[t], arg[t], stack[t], seeds[t], errors[t])
    BY <1>1 DEF CacheInv
  <1>3. /\ StackOK(cache, stack[t], seeds[t]) /\ SeedsOK(cache, all, seeds[t], errors[t])
        /\ stack[t] = <<>> /\ seeds[t] # <<>>
    BY <1>2 DEF ThreadOK, Begin
  <1>4. PICK s \in Seeds : s = Head(seeds[t])
    BY <1>3, NextSeed
  <1>5. PICK g : g = <<s[1], Inputs(s[1], s[2])>>
    OBVIOUS
  <1>6. s[1] \in Functions /\ s[2] \in Instances(s[1])
    BY DEF Seeds
  <1>7. g[1] \in Functions /\ g[2] \in Keys(g[1])
    BY <1>5, <1>6, InputsAreKey
  <1>8. Wanted(stack[t], seeds[t], g[1], g[2])
    BY <1>3, <1>4, <1>5 DEF Wanted, Asks
  <1>9. ThreadOK(cache, all, "find", g, stack[t], seeds[t], errors[t])
    BY <1>3, <1>7, <1>8 DEF ThreadOK
  <1>a. ComesTo(t, "find", g, stack[t], seeds[t], errors[t])
    BY <1>4, <1>5 DEF Begin, ComesTo, CacheInv
  <1>b. trace' = trace /\ cache' = cache /\ "find" \in Places
    BY DEF Begin, Places
  <1> QED
    BY <1>1, <1>9, <1>a, <1>b, QuietMove

(* A call is looked up, under the read lock.                               *)
LEMMA FindKeeps ==
  ASSUME ProgramAssumption, SeedsAssumption, CacheInv, NEW t \in Threads, Find(t)
  PROVE  CacheInv'
  <1>1. PICK all \in Seq(Seeds) : all = SeedsOf(trace[t])
    BY DEF CacheInv, SeedsAssumption
  <1>2. ThreadOK(cache, all, at[t], arg[t], stack[t], seeds[t], errors[t])
    BY <1>1 DEF CacheInv
  <1>3. PICK f, key : f = arg[t][1] /\ key = arg[t][2]
    OBVIOUS
  <1>4. /\ StackOK(cache, stack[t], seeds[t]) /\ SeedsOK(cache, all, seeds[t], errors[t])
        /\ f \in Functions /\ key \in Keys(f) /\ Wanted(stack[t], seeds[t], f, key)
    BY <1>2, <1>3 DEF ThreadOK, Find
  <1>5. trace' = trace /\ cache' = cache /\ arg' = [arg EXCEPT ![t] = <<>>] /\ "run" \in Places
    BY DEF Find, Places
  <1>6. PICK i : i = SearchIndex(f, cache[f], key)
    OBVIOUS
  <1>7. PICK rows \in Seq(Instances(f)) : rows = cache[f]
    BY <1>4 DEF CacheInv, Tidy
  <1>8. CASE IsAt(f, cache[f], key, i)
    <2>1. i \in 1 .. Len(rows) /\ Inputs(f, rows[i]) = key
      <3>1. PICK n \in Nat : n = Len(rows) /\ DOMAIN rows = 1 .. n
        OBVIOUS
      <3>2. i \in 1 .. n + 1
        BY <1>6, <1>7, <3>1, SearchSplits
      <3>3. i <= Len(rows) /\ Inputs(f, rows[i]) = key
        BY <1>7, <1>8 DEF IsAt
      <3> QED
        BY <3>1, <3>2, <3>3
    <2>2. PICK inst \in Range(cache[f]) : inst = cache[f][i] /\ Inputs(f, inst) = key
      BY <1>7, <2>1 DEF Range
    <2>3. Answer(t, stack[t], f, inst)
      BY <1>3, <1>6, <1>8, <2>2 DEF Find
    <2>4. /\ Tidy(cache) /\ stack = [u \in Threads |-> stack[u]] /\ seeds = [u \in Threads |-> seeds[u]]
          /\ errors = [u \in Threads |-> errors[u]]
      BY DEF CacheInv
    <2>5. PICK a, s, sd, e : a \in Places /\
              ComesTo(t, a, <<>>, s, sd, e) /\ ThreadOK(cache, all, a, <<>>, s, sd, e)
      BY <1>4, <1>5, <2>2, <2>3, <2>4, AnswerOK
    <2> QED
      BY <1>1, <1>5, <2>5, QuietMove
  <1>9. CASE ~IsAt(f, cache[f], key, i)
    <2>1. PICK s : s = Append(stack[t], Frame(f, key))
      OBVIOUS
    <2>2. StackOK(cache, s, seeds[t]) /\ s # <<>>
      BY <1>4, <2>1, PushCall
    <2>3. ThreadOK(cache, all, "run", <<>>, s, seeds[t], errors[t])
      BY <1>4, <2>2 DEF ThreadOK
    <2>4. ComesTo(t, "run", <<>>, s, seeds[t], errors[t])
      BY <1>3, <1>6, <1>9, <2>1 DEF Find, ComesTo, CacheInv
    <2> QED
      BY <1>1, <1>5, <2>3, <2>4, QuietMove
  <1> QED
    BY <1>8, <1>9

(* An instruction is executed.                                             *)
LEMMA StepKeeps ==
  ASSUME ProgramAssumption, SeedsAssumption, CacheInv, NEW t \in Threads, Step(t)
  PROVE  CacheInv'
  <1>1. PICK all \in Seq(Seeds) : all = SeedsOf(trace[t])
    BY DEF CacheInv, SeedsAssumption
  <1>2. ThreadOK(cache, all, at[t], arg[t], stack[t], seeds[t], errors[t])
    BY <1>1 DEF CacheInv
  <1>3. /\ StackOK(cache, stack[t], seeds[t]) /\ SeedsOK(cache, all, seeds[t], errors[t])
        /\ stack[t] # <<>>
    BY <1>2 DEF ThreadOK, Step
  <1>4. PICK x : x = Last(stack[t])
    OBVIOUS
  <1>5. x \in Frames /\ Insn(t) = CodeAt(x) /\ Top(t) = x
    BY <1>3, <1>4, Pop DEF Insn, Top, CodeAt
  <1>6. trace' = trace /\ cache' = cache /\ "run" \in Places /\ "find" \in Places /\ "insert" \in Places
        /\ at[t] = "run"
    BY DEF Step, Places
  <1>7. CASE CodeAt(x).op = "in"
    <2>1. PICK g : g = <<CodeAt(x).bus, CallOf(x)>>
      OBVIOUS
    <2>2. g[1] \in Functions /\ g[2] \in Keys(g[1])
      BY <1>5, <1>7, <2>1, CallIsKey
    <2>3. Wanted(stack[t], seeds[t], g[1], g[2])
      BY <1>3, <1>4, <1>7, <2>1 DEF Wanted, Calls
    <2>4. ThreadOK(cache, all, "find", g, stack[t], seeds[t], errors[t])
      BY <1>3, <2>2, <2>3 DEF ThreadOK
    <2>5. ComesTo(t, "find", g, stack[t], seeds[t], errors[t])
      BY <1>5, <1>7, <2>1 DEF Step, ComesTo, CacheInv, CallOf
    <2> QED
      BY <1>1, <1>6, <2>4, <2>5, QuietMove
  <1>8. CASE Ending(x)
    <2>1. ThreadOK(cache, all, "insert", arg[t], stack[t], seeds[t], errors[t])
      BY <1>3, <1>4, <1>8 DEF ThreadOK
    <2>2. Insn(t).op \in {"ret", "fail"}
      BY <1>5, <1>8 DEF Ending
    <2>3. ComesTo(t, "insert", arg[t], stack[t], seeds[t], errors[t])
      BY <2>2 DEF Step, ComesTo, CacheInv
    <2> QED
      BY <1>1, <1>6, <2>1, <2>3, QuietMove
  <1>9. CASE CodeAt(x).op \notin {"in", "ret", "fail"}
    <2>1. PICK y : y = Compute(x, CodeAt(x))
      OBVIOUS
    <2>2. Follows(cache, x, y)
      BY <1>9, <2>1 DEF Follows
    <2>3. PICK s : s = Append(Front(stack[t]), y)
      OBVIOUS
    <2>4. StackOK(cache, s, seeds[t]) /\ s # <<>>
      BY <1>3, <1>4, <2>2, <2>3, StepTop DEF CacheInv
    <2>5. ThreadOK(cache, all, "run", arg[t], s, seeds[t], errors[t])
      BY <1>3, <2>4 DEF ThreadOK
    <2>6. ComesTo(t, "run", arg[t], s, seeds[t], errors[t])
      BY <1>5, <1>6, <1>9, <2>1, <2>3 DEF Step, ComesTo, CacheInv
    <2> QED
      BY <1>1, <1>6, <2>5, <2>6, QuietMove
  <1> QED
    BY <1>7, <1>8, <1>9 DEF Ending

(* An instance is recorded, under the write lock.                          *)
LEMMA RecordKeeps ==
  ASSUME ProgramAssumption, SeedsAssumption, CacheInv, NEW t \in Threads, Record(t)
  PROVE  /\ CacheInv' /\ Grown(cache, cache')
         /\ \A f \in Functions : \A inst \in Range(cache'[f]) : Justified(cache, f, inst)
  <1>1. PICK all \in Seq(Seeds) : all = SeedsOf(trace[t])
    BY DEF CacheInv, SeedsAssumption
  <1>2. ThreadOK(cache, all, at[t], arg[t], stack[t], seeds[t], errors[t])
    BY <1>1 DEF CacheInv
  <1>3. /\ StackOK(cache, stack[t], seeds[t]) /\ stack[t] # <<>> /\ Ending(Last(stack[t]))
    BY <1>2 DEF ThreadOK, Record
  <1>4. PICK x : x = Last(stack[t])
    OBVIOUS
  <1>5. /\ x \in Frames /\ Started(cache, x) /\ Ending(x) /\ StackOK(cache, Front(stack[t]), seeds[t])
        /\ Wanted(Front(stack[t]), seeds[t], x.fn, KeyOf(x))
    BY <1>3, <1>4, Pop
  <1>6. x.fn \in Functions /\ Inputs(x.fn, Instance(x)) = KeyOf(x)
    BY <1>5, FrameParts, InstanceOfFrame
  <1>7. PICK d : d = [cache EXCEPT ![x.fn] = Insert(x.fn, cache[x.fn], Instance(x))]
    OBVIOUS
  <1>8. cache' = d /\ Answer(t, Front(stack[t]), x.fn, Instance(x)) /\ trace' = trace /\ arg' = arg
    BY <1>4, <1>7 DEF Record, Top
  <1>9. cache = [f \in Functions |-> cache[f]] /\ Tidy(cache) /\ AllJustified(cache)
    BY DEF CacheInv
  <1>a. /\ d = [f \in Functions |-> d[f]] /\ Grown(cache, d) /\ Tidy(d) /\ AllJustified(d)
        /\ Instance(x) \in Range(d[x.fn])
        /\ \A f \in Functions : \A inst \in Range(d[f]) : Justified(cache, f, inst)
    BY <1>5, <1>7, <1>9, RecordInstance
  <1>b. ThreadOK(d, all, at[t], arg[t], stack[t], seeds[t], errors[t])
    BY <1>2, <1>a, ThreadGrows
  <1>c. StackOK(d, stack[t], seeds[t]) /\ SeedsOK(d, all, seeds[t], errors[t])
    BY <1>b DEF ThreadOK
  <1>d. StackOK(d, Front(stack[t]), seeds[t])
    BY <1>3, <1>c, Pop
  <1>e. PICK inst \in Range(d[x.fn]) : inst = Instance(x) /\ Inputs(x.fn, inst) = KeyOf(x)
    BY <1>6, <1>a
  <1>f. /\ stack = [u \in Threads |-> stack[u]] /\ seeds = [u \in Threads |-> seeds[u]]
        /\ errors = [u \in Threads |-> errors[u]] /\ arg' = [arg EXCEPT ![t] = arg[t]]
        /\ Wanted(Front(stack[t]), seeds[t], x.fn, Inputs(x.fn, inst))
        /\ Answer(t, Front(stack[t]), x.fn, inst)
    BY <1>5, <1>8, <1>e DEF CacheInv
  <1>g. PICK a, s, sd, e : a \in Places /\
            ComesTo(t, a, arg[t], s, sd, e) /\ ThreadOK(d, all, a, arg[t], s, sd, e)
    BY <1>6, <1>a, <1>c, <1>d, <1>e, <1>f, AnswerOK
  <1>h. /\ cache' = [f \in Functions |-> cache'[f]] /\ Grown(cache, cache') /\ Tidy(cache')
        /\ AllJustified(cache') /\ ThreadOK(cache', SeedsOf(trace[t]), a, arg[t], s, sd, e)
    BY <1>1, <1>8, <1>a, <1>g
  <1>i. CacheInv'
    BY <1>8, <1>g, <1>h, OneMoves
  <1> QED
    BY <1>8, <1>a, <1>i

(* At first nothing is recorded and no seed is done.                       *)
LEMMA InitKeeps ==
  ASSUME ProgramAssumption, SeedsAssumption, Init
  PROVE  CacheInv
  <1>1. trace \in [Threads -> Traces] /\ cache = [f \in Functions |-> <<>>]
    BY DEF Init
  <1>2. \A f \in Functions : cache[f] = <<>>
    BY <1>1
  <1>3. \A f \in Functions : <<>> \in Seq(Instances(f)) /\ Sorted(f, <<>>) /\ Range(<<>>) = {}
    BY DEF Sorted, Range
  <1>4. cache = [f \in Functions |-> cache[f]] /\ Tidy(cache) /\ AllJustified(cache)
    BY <1>1, <1>2, <1>3 DEF Tidy, AllJustified
  <1>5. ASSUME NEW t \in Threads
        PROVE  ThreadOK(cache, SeedsOf(trace[t]), at[t], arg[t], stack[t], seeds[t], errors[t])
    <2>1. PICK all \in Seq(Seeds) : all = SeedsOf(trace[t])
      BY <1>1 DEF SeedsAssumption
    <2>2. /\ at[t] = "idle" /\ stack[t] = <<>> /\ seeds[t] = all /\ errors[t] = {}
      BY <2>1 DEF Init
    <2>3. StackOK(cache, <<>>, all)
      BY DEF StackOK
    <2>4. SubSeq(all, 1, Len(all)) = all /\ 0 \in 0 .. Len(all)
      <3>1. PICK m \in Nat : m = Len(all)
        OBVIOUS
      <3>2. /\ SubSeq(all, 1, m) \in Seq(Seeds) /\ Len(SubSeq(all, 1, m)) = m
            /\ \A k \in 1 .. m : SubSeq(all, 1, m)[k] = all[k]
        BY <3>1, SubSeqProperties
      <3> QED
        BY <3>1, <3>2, SeqEqual
    <2>5. Handled(cache, all, 0, {})
      BY DEF Handled
    <2>6. SeedsOK(cache, all, all, {})
      <3>1. PICK n \in 0 .. Len(all) : n = 0
        BY <2>4
      <3>2. all = SubSeq(all, n + 1, Len(all)) /\ Handled(cache, all, n, {})
        BY <2>4, <2>5, <3>1
      <3> QED
        BY <3>2 DEF SeedsOK
    <2> QED
      BY <2>1, <2>2, <2>3, <2>6 DEF ThreadOK
  <1> QED
    BY <1>1, <1>4, <1>5 DEF Init, CacheInv, Places

(* Every step keeps the invariant, keeps what is recorded and justifies    *)
(* what it records.                                                        *)
LEMMA NextKeeps ==
  ASSUME ProgramAssumption, SeedsAssumption, CacheInv, [Next]_vars
  PROVE  /\ CacheInv' /\ Grown(cache, cache')
         /\ \A f \in Functions : \A inst \in Range(cache'[f]) : Justified(cache, f, inst)
  <1>0. ASSUME cache' = cache
        PROVE  /\ Grown(cache, cache')
               /\ \A f \in Functions : \A inst \in Range(cache'[f]) : Justified(cache, f, inst)
    BY <1>0 DEF CacheInv, AllJustified, Grown
  <1>1. CASE UNCHANGED vars
    <2>1. CacheInv'
      BY <1>1 DEF vars, CacheInv
    <2> QED
      BY <1>0, <1>1, <2>1 DEF vars
  <1>2. CASE Next
    <2>1. PICK t \in Threads : Thread(t)
      BY <1>2 DEF Next
    <2>2. CASE Begin(t)
      BY <1>0, <2>2, BeginKeeps DEF Begin
    <2>3. CASE Find(t)
      BY <1>0, <2>3, FindKeeps DEF Find
    <2>4. CASE Step(t)
      BY <1>0, <2>4, StepKeeps DEF Step
    <2>5. CASE Record(t)
      BY <2>5, RecordKeeps
    <2> QED
      BY <2>1, <2>2, <2>3, <2>4, <2>5 DEF Thread
  <1> QED
    BY <1>1, <1>2

(* For every program, number of threads and choice of traces: the instances*)
(* of a function are in order, each once, FindLast finds every one of them,*)
(* and a thread that is through has recorded all seeds of its trace and    *)
(* reported exactly the wrong ones.                                        *)
THEOREM InstancesAreListed ==
  ASSUME ProgramAssumption, SeedsAssumption
  PROVE  Spec => [](TypeOK /\ InstancesListed)
  <1>1. Init => CacheInv
    BY InitKeeps
  <1>2. CacheInv /\ [Next]_vars => CacheInv'
    BY NextKeeps
  <1>3. CacheInv => TypeOK /\ InstancesListed
    BY InvImplies
  <1> QED
    BY <1>1, <1>2, <1>3, PTL DEF Spec

(* A recorded instance stays, and each is recorded on the strength of an   *)
(* execution whose calls had all been recorded before, whichever threads   *)
(* did so: the cache answers as executing the call would.                  *)
THEOREM InstancesAreJustified ==
  ASSUME ProgramAssumption, SeedsAssumption
  PROVE  Spec => InstancesKept /\ JustifiedBefore
  <1>1. Init => CacheInv
    BY InitKeeps
  <1>2. CacheInv /\ [Next]_vars => CacheInv'
    BY NextKeeps
  <1>3. CacheInv /\ [Next]_vars =>
            [\A f \in Functions : Range(cache[f]) \subseteq Range(cache'[f])]_vars
    BY NextKeeps DEF Grown
  <1>4. CacheInv /\ [Next]_vars =>
            [\A f \in Functions : \A inst \in Range(cache'[f]) : Justified(cache, f, inst)]_vars
    BY NextKeeps
  <1> QED
    BY <1>1, <1>2, <1>3, <1>4, PTL DEF Spec, InstancesKept, JustifiedBefore
=============================================================================
