--------------------------- MODULE RowComputation ---------------------------
(***************************************************************************)
(* How a computed register is filled: the expression of the assignment is   *)
(* evaluated on every row and its value is divided between the target       *)
(* registers (ComputedRegister.Compute).  When the expression does not read  *)
(* a target, and the module is high enough, the rows are divided into chunks *)
(* which goroutines compute side by side; they share the columns being       *)
(* written and the first error.  Otherwise the rows are computed one after    *)
(* another, upwards or downwards, and a recursive expression sees the rows    *)
(* that are already there.                                                    *)
(*                                                                           *)
(* An expression is abstracted to the value source[i] it takes from the       *)
(* other columns of row i, which may be the failure of an evaluation, plus,    *)
(* when it is recursive, the value the targets hold together on the row        *)
(* `shift' away.                                                               *)
(***************************************************************************)
EXTENDS Integers, Sequences, FiniteSetsExt, FiniteSetTheorems, TLAPS

CONSTANTS MaxHeight,          \* heights of the module are 0 .. MaxHeight
          Values,             \* what the expression may evaluate to
          Widths,             \* the bitwidths of the targets, lowest first
          MinParallelHeight,  \* rows from which on goroutines are used
          MinRowsPerWorker,   \* rows that are worth a goroutine
          Processors,         \* runtime.GOMAXPROCS(0)
          WorkerFlags         \* values of the flag that sets INNER_WORKERS

RowAssumption == /\ MaxHeight \in Nat
                 /\ Values \subseteq Nat
                 /\ Widths \in Seq(Nat \ {0}) /\ Widths # <<>>
                 /\ MinParallelHeight \in Nat \ {0}
                 /\ MinRowsPerWorker \in Nat \ {0}
                 /\ Processors \in Nat \ {0}
                 /\ WorkerFlags \subseteq Nat

\* The evaluation of a row failed, and no row has failed.
Failure == -1
NoRow == -1

VARIABLES source,    \* row -> what the other columns contribute
          shift,     \* 0 for an expression that reads no target, else -1 or 1
          compiled,  \* the expression is a PolyFil, compiled beforehand
          forward,   \* the direction of a recursive computation
          flag,      \* INNER_WORKERS
          data,      \* target -> row -> value
          pc,        \* "start", "rows", "spawn", "wait", "done"
          next,      \* the row of the sequential loops, the next worker to start
          workers,   \* the goroutines started: the rows left, and whether it ended
          firstErr,  \* the row whose failure will be reported
          result     \* the columns returned, or <<>>

inputs == <<source, shift, compiled, forward, flag>>
vars == <<source, shift, compiled, forward, flag, data, pc, next, workers, firstErr, result>>

height == Cardinality(DOMAIN source)
Rows == 0 .. height - 1
Targets == DOMAIN Widths

-----------------------------------------------------------------------------
(* Words and limbs. *)

WidthBelow(k) == FoldSet(LAMBDA j, n : n + Widths[j], 0, 1 .. k - 1)
Limit == 2^(WidthBelow(Len(Widths) + 1))

\* The bits of a value that belong to target k.
Limb(v, k) == (v \div 2^WidthBelow(k)) % 2^Widths[k]

\* A value that does not fit is not written: the row keeps its zero.
Write(row, v) ==
  data' = IF v < Limit
          THEN [k \in Targets |-> [data[k] EXCEPT ![row] = Limb(v, k)]]
          ELSE data

\* What a recursive expression sees of a target outside its rows is zero.
Get(cols, k, row) == IF row \in Rows THEN cols[k][row] ELSE 0

\* The value that limbs make up.
Joined(limbs) == FoldSet(LAMBDA k, n : n + limbs[k] * 2^WidthBelow(k), 0, Targets)

TargetValue(cols, row) == Joined([k \in Targets |-> Get(cols, k, row)])

\* Splitting and joining are inverse on values that fit.
LimbsAssumption ==
  /\ Limit \in Nat
  /\ Joined([k \in Targets |-> 0]) = 0
  /\ \A v \in 0 .. Limit - 1 : Joined([k \in Targets |-> Limb(v, k)]) = v

IsRecursive == shift # 0

EvalAt(cols, row) ==
  IF source[row] = Failure THEN Failure
  ELSE source[row] + (IF IsRecursive THEN TargetValue(cols, row + shift) ELSE 0)

-----------------------------------------------------------------------------
(* Chunks. *)

LeastOf(a, b) == IF a < b THEN a ELSE b

innerWorkers ==
  LET asked == IF flag = 0 THEN Processors ELSE flag
      capped == LeastOf(asked, height \div MinRowsPerWorker)
  IN  IF capped < 1 THEN 1 ELSE capped

chunkSize == (height + innerWorkers - 1) \div innerWorkers

\* A faulty chunk that also takes the first row of the next one.
ChunkOverlap(w) == [row |-> w * chunkSize,
                    end |-> LeastOf((w + 1) * chunkSize + 1, height),
                    ended |-> FALSE]

Chunk(w) == [row |-> w * chunkSize,
             end |-> LeastOf((w + 1) * chunkSize, height),
             ended |-> FALSE]

-----------------------------------------------------------------------------

Init ==
  /\ \E h \in 0 .. MaxHeight : source \in [0 .. h - 1 -> Values \cup {Failure}]
  /\ shift \in {-1, 0, 1}
  /\ compiled \in BOOLEAN
  /\ compiled => shift = 0 /\ \A i \in DOMAIN source : source[i] # Failure
  /\ forward \in BOOLEAN
  /\ shift = 0 => forward
  /\ flag \in WorkerFlags
  /\ data = [k \in Targets |-> [i \in Rows |-> 0]]
  /\ pc = "start"
  /\ next = 0
  /\ workers = <<>>
  /\ firstErr = NoRow
  /\ result = <<>>

\* Compute: a recursive computation, and a short one, run in this goroutine.
Compute ==
  /\ pc = "start"
  /\ IF IsRecursive \/ height < MinParallelHeight
     THEN /\ pc' = "rows"
          /\ next' = IF forward THEN 0 ELSE height - 1
     ELSE pc' = "spawn" /\ UNCHANGED next
  /\ UNCHANGED <<inputs, data, workers, firstErr, result>>

\* One row of fwdComputation, fwdComputationDirect, fwdCompiledPolyFil or
\* bwdComputation: the first failure ends the loop.
RowStep ==
  /\ pc = "rows" /\ next \in Rows
  /\ LET v == EvalAt(data, next)
     IN  IF v = Failure
         THEN firstErr' = next /\ pc' = "done" /\ UNCHANGED <<data, next>>
         ELSE /\ Write(next, v)
              /\ next' = IF forward THEN next + 1 ELSE next - 1
              /\ UNCHANGED <<firstErr, pc>>
  /\ UNCHANGED <<inputs, workers, result>>

RowsEnd ==
  /\ pc = "rows" /\ next \notin Rows
  /\ pc' = "done" /\ result' = data
  /\ UNCHANGED <<inputs, data, next, workers, firstErr>>

\* A goroutine is started for every chunk, the empty ones included.
Spawn ==
  /\ pc = "spawn"
  /\ IF next < innerWorkers
     THEN /\ workers' = Append(workers, Chunk(next))
          /\ next' = next + 1
          /\ UNCHANGED pc
     ELSE pc' = "wait" /\ UNCHANGED <<workers, next>>
  /\ UNCHANGED <<inputs, data, firstErr, result>>

\* A faulty goroutine that returns on a failure without telling the wait group.
WorkerStepStuck(w) ==
  LET me == workers[w] IN
  /\ ~ me.ended /\ me.row < me.end
  /\ LET v == EvalAt(data, me.row)
     IN  IF v = Failure
         THEN /\ firstErr' = IF firstErr = NoRow THEN me.row ELSE firstErr
              /\ UNCHANGED <<data, workers>>
         ELSE /\ Write(me.row, v)
              /\ workers' = [workers EXCEPT ![w].row = @ + 1]
              /\ UNCHANGED firstErr
  /\ UNCHANGED <<inputs, pc, next, result>>

\* One row of a goroutine.  Only the first failure is kept, under the mutex, and
\* the goroutine that met it stops; the others go on.
WorkerStep(w) ==
  LET me == workers[w] IN
  /\ ~ me.ended /\ me.row < me.end
  /\ LET v == EvalAt(data, me.row)
     IN  IF v = Failure
         THEN /\ firstErr' = IF firstErr = NoRow THEN me.row ELSE firstErr
              /\ workers' = [workers EXCEPT ![w].ended = TRUE]
              /\ UNCHANGED data
         ELSE /\ Write(me.row, v)
              /\ workers' = [workers EXCEPT ![w].row = @ + 1]
              /\ UNCHANGED firstErr
  /\ UNCHANGED <<inputs, pc, next, result>>

WorkerEnd(w) ==
  /\ ~ workers[w].ended /\ workers[w].row >= workers[w].end
  /\ workers' = [workers EXCEPT ![w].ended = TRUE]
  /\ UNCHANGED <<inputs, data, pc, next, firstErr, result>>

\* wg.Wait(), the error check, and the copy of the columns into the trace.
Wait ==
  /\ pc = "wait" /\ \A w \in DOMAIN workers : workers[w].ended
  /\ pc' = "done"
  /\ result' = IF firstErr = NoRow THEN data ELSE <<>>
  /\ UNCHANGED <<inputs, data, next, workers, firstErr>>

Caller == Compute \/ RowStep \/ RowsEnd \/ Spawn \/ Wait

Goroutine(w) == w \in DOMAIN workers /\ (WorkerStep(w) \/ WorkerEnd(w))

Next == Caller \/ \E w \in 1 .. MaxHeight : Goroutine(w)

\* The scheduler of Go runs every goroutine that can run.
Fairness ==
  WF_vars(Caller) /\ \A w \in 1 .. MaxHeight : WF_vars(Goroutine(w))

Spec == Init /\ [][Next]_vars /\ Fairness

-----------------------------------------------------------------------------

TypeOK ==
  /\ source \in [Rows -> Values \cup {Failure}]
  /\ data \in [Targets -> [Rows -> Nat]]
  /\ pc \in {"start", "rows", "spawn", "wait", "done"}
  /\ next \in -1 .. MaxHeight + Processors
  /\ \A w \in DOMAIN workers :
       workers[w] \in [row : Nat, end : 0 .. MaxHeight, ended : BOOLEAN]
  /\ firstErr \in Rows \cup {NoRow}

\* A computation can only be filled in the direction it depends on:
\* RegistersRead lets recursive definitions through and "this does not guarantee
\* they make sense".
Founded == IsRecursive => (forward <=> shift = -1)

\* When Compute returns columns, on every row the targets hold together what the
\* expression evaluates to in the finished columns, or nothing when that does
\* not fit: no row was left out between two chunks, none was computed from a
\* row that was not there yet, and nothing was written after the columns were
\* copied (fwdComputationParallelDirect, fwdCompiledPolyFilParallel,
\* fwdComputation, bwdComputation).
RowsAgree ==
  pc = "done" /\ firstErr = NoRow /\ Founded =>
    \A i \in Rows : LET v == EvalAt(result, i)
                    IN  TargetValue(result, i) = IF v < Limit THEN v ELSE 0

\* What an expression that reads no target gives for target k on row i.
Filled(i, k) == IF source[i] < Limit THEN Limb(source[i], k) ELSE 0

\* When the expression reads no target, the columns are, row by row, the limbs of
\* its values, however the rows were divided between goroutines.
RowsFilled ==
  pc = "done" /\ firstErr = NoRow /\ ~ IsRecursive =>
    result = [k \in Targets |-> [i \in Rows |-> Filled(i, k)]]

\* Compute reports an error exactly when the expression fails on some row,
\* whichever goroutine met it and whatever the others were doing.
FailureReported ==
  pc = "done" => /\ (firstErr # NoRow) <=> \E i \in Rows : source[i] = Failure
                 /\ firstErr # NoRow => result = <<>>

\* The row that is reported is the first failing one of its chunk, and of the
\* whole column when the rows are computed one after another: only the choice
\* between chunks is left to the scheduler (the mutex around firstErr).
ReportedRow ==
  firstErr # NoRow =>
    /\ source[firstErr] = Failure
    /\ \A i \in Rows : source[i] = Failure =>
         IF workers # <<>>
         THEN i \div chunkSize = firstErr \div chunkSize => firstErr <= i
         ELSE IF forward THEN firstErr <= i ELSE firstErr >= i

\* No two goroutines that are still running have a row in common, although they
\* write the same columns without a lock.
ChunksDisjoint ==
  \A v, w \in DOMAIN workers :
    v # w /\ ~ workers[v].ended /\ ~ workers[w].ended =>
      (workers[v].row .. workers[v].end - 1) \cap (workers[w].row .. workers[w].end - 1) = {}

\* Every computation ends: the goroutine that waits is not left waiting, with a
\* failure as well as without one.
Terminates == <>(pc = "done")
-----------------------------------------------------------------------------
(* The chunks for every height, number of processors and setting.           *)

(* Multiplication is monotonic, and rounding up loses nothing.             *)
LEMMA Monotonic == \A a, b, c \in Nat : a <= b => a * c <= b * c
OBVIOUS

LEMMA RoundedUp ==
    \A h \in Nat, n \in Nat \ {0} :
        (h + n - 1) \div n \in Nat /\ h <= n * ((h + n - 1) \div n)
OBVIOUS

(* A row lies in one of the chunks of c rows.                              *)
LEMMA InSomeChunk ==
    \A c, n, i \in Nat : i < n * c => \E w \in 1..n : (w - 1) * c <= i /\ i < w * c
<1> SUFFICES ASSUME NEW c \in Nat, NEW n \in Nat, NEW i \in Nat, i < n * c
             PROVE  \E w \in 1..n : (w - 1) * c <= i /\ i < w * c
  OBVIOUS
<1>1. c > 0
  OBVIOUS
<1> DEFINE q == i \div c
<1>2. q \in Nat /\ q * c <= i /\ i < (q + 1) * c
  BY <1>1
<1> HIDE DEF q
<1>3. q < n
  <2> SUFFICES ASSUME n <= q PROVE FALSE
    BY <1>2
  <2>1. n * c <= q * c
    BY <1>2, Monotonic
  <2>2. n * c \in Nat /\ q * c \in Nat
    BY <1>2
  <2> QED  BY <1>2, <2>1, <2>2
<1>4. q + 1 \in 1..n /\ (q + 1) - 1 = q
  BY <1>2, <1>3
<1> QED  BY <1>2, <1>4

(* The inputs, and the state of the caller.                                *)
CallerType ==
  /\ \E h \in Nat : source \in [0 .. h - 1 -> Values \cup {Failure}]
  /\ shift \in {-1, 0, 1}
  /\ shift = 0 => forward
  /\ flag \in Nat
  /\ pc \in {"start", "rows", "spawn", "wait", "done"}
  /\ next \in Int
  /\ firstErr # NoRow => firstErr \in Rows /\ (shift = 0 => source[firstErr] = Failure)
  /\ shift = 0 /\ pc = "rows" => next <= height
  /\ shift = 0 => next >= 0
  /\ pc = "start" => next = 0 /\ firstErr = NoRow

WorkerStates == [row : Nat, end : Int, ended : BOOLEAN]

(* Worker w has come to a row of its own chunk, has met no failure before  *)
(* it, and has not ended before the end of the chunk unless it failed.     *)
WorkerInv ==
  /\ workers \in Seq(WorkerStates)
  /\ workers # <<>> => shift = 0 /\ pc \in {"spawn", "wait", "done"}
  /\ pc \in {"start", "rows"} => workers = <<>>
  /\ pc = "spawn" => shift = 0 /\ next = Len(workers) /\ next <= innerWorkers
  /\ pc = "wait" => shift = 0 /\ Len(workers) = innerWorkers
  /\ pc = "done" => \A w \in DOMAIN workers : workers[w].ended
  /\ \A w \in DOMAIN workers :
       /\ workers[w].end = LeastOf(w * chunkSize, height)
       /\ (w - 1) * chunkSize <= workers[w].row
       /\ workers[w].row <= w * chunkSize
       /\ \A i \in Rows : (w - 1) * chunkSize <= i /\ i < workers[w].row => source[i] # Failure
       /\ workers[w].ended /\ workers[w].row < workers[w].end => firstErr # NoRow

(* The rows that have been computed, when the expression reads no target.  *)
Computed ==
  {i \in Rows :
     \/ pc \in {"rows", "done"} /\ workers = <<>> /\ i < next
     \/ \E w \in DOMAIN workers : (w - 1) * chunkSize <= i /\ i < workers[w].row}

(* Columns that hold the limbs of the values of some rows, and zero else.  *)
Columns(S) == [k \in Targets |-> [i \in Rows |-> IF i \in S THEN Filled(i, k) ELSE 0]]

DataInv ==
  shift = 0 =>
    /\ data = Columns(Computed)
    /\ \A i \in Computed : source[i] # Failure
    /\ pc = "done" /\ firstErr = NoRow => result = data /\ Computed = Rows
    /\ pc = "done" /\ firstErr # NoRow => result = <<>>
    /\ pc # "done" => result = <<>>
    /\ pc = "rows" => firstErr = NoRow

RowsInv == CallerType /\ WorkerInv /\ DataInv

(* A goroutine comes to its next row, or ends.                             *)
LEMMA WorkerFields ==
  ASSUME NEW r \in WorkerStates
  PROVE  /\ r.row \in Nat /\ r.end \in Int
         /\ [r EXCEPT !.ended = TRUE] \in WorkerStates
         /\ [r EXCEPT !.ended = TRUE].row = r.row /\ [r EXCEPT !.ended = TRUE].end = r.end
         /\ [r EXCEPT !.row = r.row + 1] \in WorkerStates
         /\ [r EXCEPT !.row = r.row + 1].row = r.row + 1
         /\ [r EXCEPT !.row = r.row + 1].end = r.end
         /\ [r EXCEPT !.row = r.row + 1].ended = r.ended
<1>1. r.row \in Nat /\ r.end \in Int
  BY DEF WorkerStates
<1>2. /\ [r EXCEPT !.ended = TRUE] \in WorkerStates
      /\ [r EXCEPT !.ended = TRUE].row = r.row /\ [r EXCEPT !.ended = TRUE].end = r.end
  BY DEF WorkerStates
<1>3. [r EXCEPT !.row = r.row + 1] \in WorkerStates
  BY <1>1 DEF WorkerStates
<1>4. /\ [r EXCEPT !.row = r.row + 1].row = r.row + 1
      /\ [r EXCEPT !.row = r.row + 1].end = r.end
      /\ [r EXCEPT !.row = r.row + 1].ended = r.ended
  BY DEF WorkerStates
<1> QED  BY <1>1, <1>2, <1>3, <1>4

(* ... and the other goroutines are where they were.                       *)
LEMMA OneWorker ==
  ASSUME NEW s \in Seq(WorkerStates), NEW w \in DOMAIN s, NEW r \in WorkerStates
  PROVE  /\ [s EXCEPT ![w] = r] \in Seq(WorkerStates)
         /\ DOMAIN [s EXCEPT ![w] = r] = DOMAIN s /\ Len([s EXCEPT ![w] = r]) = Len(s)
         /\ [s EXCEPT ![w] = r][w] = r
         /\ \A v \in DOMAIN s : v # w => [s EXCEPT ![w] = r][v] = s[v]
OBVIOUS

(* Goroutines are numbered from one.                                       *)
LEMMA WorkerNumbers ==
  ASSUME NEW s \in Seq(WorkerStates), NEW v \in DOMAIN s
  PROVE  v \in Nat /\ v - 1 \in Nat /\ s[v] \in WorkerStates /\ s[v].row \in Nat /\ s[v].end \in Int
<1>1. v \in Nat /\ v - 1 \in Nat /\ s[v] \in WorkerStates
  OBVIOUS
<1> QED  BY <1>1, WorkerFields

(* The rows are numbered from zero; workers and chunks are positive.       *)
LEMMA Dimensions ==
  ASSUME RowAssumption, CallerType
  PROVE  /\ height \in Nat /\ Rows = DOMAIN source
         /\ innerWorkers \in Nat \ {0}
         /\ chunkSize \in Nat /\ height <= innerWorkers * chunkSize
         /\ \A i \in Rows : i \in Nat /\ (source[i] \in Nat \/ source[i] = Failure)
<1>1. PICK h \in Nat : source \in [0 .. h - 1 -> Values \cup {Failure}]
  BY DEF CallerType
<1>2. Cardinality(0 .. h - 1) = h
  <2>1. Cardinality(0 .. h - 1) = IF 0 > h - 1 THEN 0 ELSE (h - 1) - 0 + 1
    BY FS_Interval
  <2> QED  BY <2>1
<1>3. height = h /\ Rows = 0 .. h - 1 /\ DOMAIN source = 0 .. h - 1
  BY <1>1, <1>2 DEF height, Rows
<1>4. innerWorkers \in Nat \ {0}
  <2>1. height \div MinRowsPerWorker \in Int
    BY <1>3 DEF RowAssumption
  <2> QED  BY <1>3, <2>1 DEF innerWorkers, LeastOf, RowAssumption, CallerType
<1>5. chunkSize \in Nat /\ height <= innerWorkers * chunkSize
  BY <1>3, <1>4, RoundedUp DEF chunkSize
<1> QED  BY <1>1, <1>3, <1>4, <1>5 DEF RowAssumption, Failure

(* At first no row is computed and no worker is there.                     *)
LEMMA RowsInit == ASSUME RowAssumption PROVE Init => RowsInv
<1> SUFFICES ASSUME Init PROVE RowsInv
  OBVIOUS
<1>1. CallerType
  <2>1. PICK h \in 0 .. MaxHeight : source \in [0 .. h - 1 -> Values \cup {Failure}]
    BY DEF Init
  <2>2. h \in Nat
    BY DEF RowAssumption
  <2>3. height \in Nat
    <3>1. IsFiniteSet(0 .. h - 1)
      BY <2>2, FS_Interval
    <3> QED  BY <2>1, <3>1, FS_CardinalityType DEF height
  <2>4. flag \in Nat
    BY DEF Init, RowAssumption
  <2> QED  BY <2>1, <2>2, <2>3, <2>4 DEF CallerType, Init
<1>2. workers = <<>> /\ DOMAIN workers = {} /\ pc = "start" /\ Len(workers) = 0
  BY DEF Init
<1>3. WorkerInv
  BY <1>2 DEF WorkerInv
<1>4. Computed = {}
  BY <1>2 DEF Computed
<1>5. DataInv
  BY <1>2, <1>4 DEF DataInv, Init, Columns
<1> QED  BY <1>1, <1>3, <1>5 DEF RowsInv

(* The inputs do not change, and with them the rows and the chunks.        *)
LEMMA Unmoved ==
  ASSUME UNCHANGED inputs
  PROVE  /\ height' = height /\ Rows' = Rows
         /\ innerWorkers' = innerWorkers /\ chunkSize' = chunkSize
         /\ \A S : Columns(S)' = Columns(S)
BY DEF inputs, height, Rows, innerWorkers, chunkSize, Columns, Filled

(* Computing one more row fills it and leaves the others alone.            *)
LEMMA WriteFills ==
  ASSUME RowAssumption, CallerType, shift = 0,
         NEW S, NEW row \in Rows, row \notin S, data = Columns(S), source[row] # Failure,
         Write(row, EvalAt(data, row))
  PROVE  data' = Columns(S \cup {row})
<1>1. EvalAt(data, row) = source[row]
  BY Dimensions DEF EvalAt, IsRecursive
<1>2. CASE source[row] < Limit
  <2>1. data' = [k \in Targets |-> [data[k] EXCEPT ![row] = Limb(source[row], k)]]
    BY <1>1, <1>2 DEF Write
  <2>2. \A k \in Targets : data[k] = [i \in Rows |-> IF i \in S THEN Filled(i, k) ELSE 0]
    BY DEF Columns
  <2>3. \A k \in Targets : Filled(row, k) = Limb(source[row], k)
    BY <1>2 DEF Filled
  <2>4. \A k \in Targets : [data[k] EXCEPT ![row] = Limb(source[row], k)]
                         = [i \in Rows |-> IF i \in S \cup {row} THEN Filled(i, k) ELSE 0]
    <3> TAKE k \in Targets
    <3> DEFINE f == [i \in Rows |-> IF i \in S THEN Filled(i, k) ELSE 0]
               g == [i \in Rows |-> IF i \in S \cup {row} THEN Filled(i, k) ELSE 0]
    <3>1. [f EXCEPT ![row] = Filled(row, k)] = g
      OBVIOUS
    <3> QED  BY <2>2, <2>3, <3>1
  <2> QED  BY <2>1, <2>4 DEF Columns
<1>3. CASE ~(source[row] < Limit)
  <2>1. data' = data
    BY <1>1, <1>3 DEF Write
  <2>2. \A k \in Targets : Filled(row, k) = 0
    BY <1>3 DEF Filled
  <2>3. Columns(S) = Columns(S \cup {row})
    BY <2>2 DEF Columns
  <2> QED  BY <2>1, <2>3
<1> QED  BY <1>2, <1>3

(* The choice between the loops.                                           *)
LEMMA ComputeKeeps == ASSUME RowAssumption PROVE RowsInv /\ Compute => RowsInv'
<1> SUFFICES ASSUME RowsInv, Compute PROVE RowsInv'
  OBVIOUS
<1>1. CallerType /\ WorkerInv /\ DataInv
  BY DEF RowsInv
<1>2. UNCHANGED <<inputs, data, workers, firstErr, result>> /\ pc = "start"
  BY DEF Compute
<1>3. UNCHANGED <<source, shift, forward, flag>>
  BY <1>2 DEF inputs
<1>4. /\ height' = height /\ Rows' = Rows /\ innerWorkers' = innerWorkers
      /\ chunkSize' = chunkSize /\ \A S : Columns(S)' = Columns(S)
  BY <1>2, Unmoved
<1>5. /\ pc' \in {"rows", "spawn"} /\ (shift # 0 => pc' = "rows")
      /\ next' \in Int /\ (shift = 0 => next' = 0)
  <2>1. height \in Nat /\ next = 0 /\ (shift = 0 => forward)
    BY <1>1, <1>2, Dimensions DEF CallerType
  <2>2. \/ pc' = "rows" /\ next' = IF forward THEN 0 ELSE height - 1
        \/ shift = 0 /\ pc' = "spawn" /\ next' = next
    BY DEF Compute, IsRecursive
  <2>3. height - 1 \in Int /\ 0 \in Int
    BY <2>1
  <2> QED  BY <2>1, <2>2, <2>3, Zenon
<1>6. workers = <<>> /\ DOMAIN workers = {} /\ Len(workers) = 0
  BY <1>1, <1>2 DEF WorkerInv
<1>7. CallerType'
  BY <1>1, <1>2, <1>3, <1>4, <1>5, Dimensions DEF CallerType
<1>8. WorkerInv'
  BY <1>1, <1>2, <1>3, <1>4, <1>5, <1>6, Dimensions DEF WorkerInv
<1>9. DataInv'
  <2> SUFFICES ASSUME shift = 0 PROVE DataInv'
    BY <1>3 DEF DataInv
  <2>1. Computed = {}
    BY <1>2, <1>6 DEF Computed
  <2>2. Computed' = {}
    BY <1>1, <1>2, <1>4, <1>5, <1>6, Dimensions DEF Computed
  <2>3. data' = Columns(Computed)' /\ firstErr' = NoRow /\ result' = <<>>
    BY <1>1, <1>2, <1>4, <2>1, <2>2 DEF DataInv, CallerType
  <2> QED  BY <1>5, <2>2, <2>3 DEF DataInv
<1> QED  BY <1>7, <1>8, <1>9 DEF RowsInv

(* A row of the loops that run in the caller.                              *)
LEMMA RowStepKeeps == ASSUME RowAssumption PROVE RowsInv /\ RowStep => RowsInv'
<1> SUFFICES ASSUME RowsInv, RowStep PROVE RowsInv'
  OBVIOUS
<1>1. CallerType /\ WorkerInv /\ DataInv
  BY DEF RowsInv
<1>2. UNCHANGED <<inputs, workers, result>> /\ pc = "rows" /\ next \in Rows
  BY DEF RowStep
<1>3. UNCHANGED <<source, shift, forward, flag>>
  BY <1>2 DEF inputs
<1>4. /\ height' = height /\ Rows' = Rows /\ innerWorkers' = innerWorkers
      /\ chunkSize' = chunkSize /\ \A S : Columns(S)' = Columns(S)
  BY <1>2, Unmoved
<1>5. workers = <<>> /\ DOMAIN workers = {} /\ workers' = <<>>
  BY <1>1, <1>2 DEF WorkerInv
<1>6. /\ height \in Nat /\ next \in Nat /\ next < height /\ Rows = 0 .. height - 1
      /\ (source[next] \in Nat \/ source[next] = Failure)
  BY <1>1, <1>2, Dimensions DEF Rows
<1>7. shift = 0 => EvalAt(data, next) = source[next]
  BY <1>6 DEF EvalAt, IsRecursive
<1>8. \/ /\ EvalAt(data, next) = Failure
         /\ firstErr' = next /\ pc' = "done" /\ UNCHANGED <<data, next>>
      \/ /\ EvalAt(data, next) # Failure
         /\ Write(next, EvalAt(data, next))
         /\ next' = IF forward THEN next + 1 ELSE next - 1
         /\ UNCHANGED <<firstErr, pc>>
  BY DEF RowStep
<1>9. next' \in Int /\ (shift = 0 => next' = next \/ next' = next + 1)
  <2>1. next + 1 \in Int /\ next - 1 \in Int /\ next \in Int /\ (shift = 0 => forward)
    BY <1>1, <1>6 DEF CallerType
  <2> QED  BY <1>8, <2>1, Zenon
<1>10. pc' \in {"rows", "done"} /\ (firstErr' = firstErr \/ firstErr' = next)
  BY <1>2, <1>8
<1>11. CallerType'
  <2>1. firstErr' # NoRow => firstErr' \in Rows' /\ (shift' = 0 => source'[firstErr'] = Failure)
    BY <1>1, <1>2, <1>3, <1>4, <1>7, <1>8 DEF CallerType
  <2>2. shift = 0 => next' >= 0 /\ next' <= height
    BY <1>6, <1>9
  <2> QED  BY <1>1, <1>3, <1>4, <1>9, <1>10, <2>1, <2>2 DEF CallerType
<1>12. WorkerInv'
  <2>1. Len(<<>>) = 0 /\ <<>> \in Seq(WorkerStates)
    OBVIOUS
  <2> QED  BY <1>5, <1>10, <2>1 DEF WorkerInv
<1>13. DataInv'
  <2> SUFFICES ASSUME shift = 0 PROVE DataInv'
    BY <1>3 DEF DataInv
  <2>1. Computed = {i \in Rows : i < next} /\ Computed' = {i \in Rows : i < next'}
    BY <1>2, <1>4, <1>5, <1>10 DEF Computed
  <2>2. result' = <<>> /\ data = Columns(Computed) /\ firstErr = NoRow
    BY <1>1, <1>2 DEF DataInv
  <2>3. CASE EvalAt(data, next) = Failure
    <3>1. UNCHANGED <<data, next>> /\ pc' = "done" /\ firstErr' # NoRow
      BY <1>6, <1>8, <2>3 DEF NoRow
    <3>2. Computed' = Computed
      BY <2>1, <3>1
    <3> QED  BY <1>1, <1>3, <1>4, <2>2, <3>1, <3>2 DEF DataInv
  <2>4. CASE EvalAt(data, next) # Failure
    <3>1. Write(next, EvalAt(data, next)) /\ UNCHANGED <<firstErr, pc>>
      BY <1>8, <2>4
    <3>2. next' = next + 1
      <4>1. forward
        BY <1>1 DEF CallerType
      <4> QED  BY <1>8, <2>4, <4>1, Zenon
    <3>3. Computed' = Computed \cup {next} /\ next \notin Computed
      BY <1>2, <1>6, <2>1, <3>2
    <3>4. source[next] # Failure
      BY <1>7, <2>4
    <3>5. data' = Columns(Computed \cup {next})
      BY <1>1, <1>2, <2>2, <3>1, <3>3, <3>4, WriteFills
    <3>6. data' = Columns(Computed)'
      BY <1>4, <3>3, <3>5
    <3> QED  BY <1>1, <1>2, <1>3, <2>2, <3>1, <3>3, <3>4, <3>6 DEF DataInv
  <2> QED  BY <2>3, <2>4
<1> QED  BY <1>11, <1>12, <1>13 DEF RowsInv

(* The loops of the caller end behind the last row.                        *)
LEMMA RowsEndKeeps == ASSUME RowAssumption PROVE RowsInv /\ RowsEnd => RowsInv'
<1> SUFFICES ASSUME RowsInv, RowsEnd PROVE RowsInv'
  OBVIOUS
<1>1. CallerType /\ WorkerInv /\ DataInv
  BY DEF RowsInv
<1>2. /\ UNCHANGED <<inputs, data, next, workers, firstErr>> /\ pc = "rows" /\ next \notin Rows
      /\ pc' = "done" /\ result' = data
  BY DEF RowsEnd
<1>3. UNCHANGED <<source, shift, forward, flag>>
  BY <1>2 DEF inputs
<1>4. /\ height' = height /\ Rows' = Rows /\ innerWorkers' = innerWorkers
      /\ chunkSize' = chunkSize /\ \A S : Columns(S)' = Columns(S)
  BY <1>2, Unmoved
<1>5. workers = <<>> /\ DOMAIN workers = {} /\ workers' = <<>>
  BY <1>1, <1>2 DEF WorkerInv
<1>6. CallerType'
  BY <1>1, <1>2, <1>3, <1>4 DEF CallerType
<1>7. WorkerInv'
  <2>1. Len(<<>>) = 0 /\ <<>> \in Seq(WorkerStates)
    OBVIOUS
  <2> QED  BY <1>2, <1>5, <2>1 DEF WorkerInv
<1>8. DataInv'
  <2> SUFFICES ASSUME shift = 0 PROVE DataInv'
    BY <1>3 DEF DataInv
  <2>1. Computed = {i \in Rows : i < next} /\ Computed' = {i \in Rows : i < next}
    BY <1>2, <1>4, <1>5 DEF Computed
  <2>2. \A i \in Rows : i < next
    <3>1. height \in Nat /\ next \in Int /\ next >= 0 /\ next <= height
      BY <1>1, <1>2, Dimensions DEF CallerType
    <3> QED  BY <1>2, <3>1 DEF Rows
  <2>3. Computed' = Computed /\ Computed = Rows
    BY <2>1, <2>2
  <2> QED  BY <1>1, <1>2, <1>3, <1>4, <2>3 DEF DataInv
<1> QED  BY <1>6, <1>7, <1>8 DEF RowsInv

(* A goroutine begins at the first row of its chunk, with nothing computed.*)
LEMMA SpawnKeeps == ASSUME RowAssumption PROVE RowsInv /\ Spawn => RowsInv'
<1> SUFFICES ASSUME RowsInv, Spawn PROVE RowsInv'
  OBVIOUS
<1>1. CallerType /\ WorkerInv /\ DataInv
  BY DEF RowsInv
<1>2. UNCHANGED <<inputs, data, firstErr, result>> /\ pc = "spawn"
  BY DEF Spawn
<1>3. UNCHANGED <<source, shift, forward, flag>>
  BY <1>2 DEF inputs
<1>4. /\ height' = height /\ Rows' = Rows /\ innerWorkers' = innerWorkers
      /\ chunkSize' = chunkSize /\ \A S : Columns(S)' = Columns(S)
  BY <1>2, Unmoved
<1>5. /\ shift = 0 /\ next = Len(workers) /\ next <= innerWorkers
      /\ workers \in Seq(WorkerStates)
  BY <1>1, <1>2 DEF WorkerInv
<1>6. CASE next < innerWorkers
  <2>1. workers' = Append(workers, Chunk(next)) /\ next' = next + 1 /\ pc' = "spawn"
    BY <1>2, <1>6 DEF Spawn
  <2>2. next \in Nat /\ innerWorkers \in Nat /\ chunkSize \in Nat /\ height \in Nat
    BY <1>1, <1>5, Dimensions
  <2>3. next * chunkSize \in Nat /\ (next + 1) * chunkSize \in Nat
    BY <2>2
  <2>4. /\ Chunk(next) \in WorkerStates
        /\ Chunk(next).row = next * chunkSize /\ Chunk(next).ended = FALSE
        /\ Chunk(next).end = LeastOf((next + 1) * chunkSize, height)
    BY <2>2, <2>3 DEF Chunk, LeastOf, WorkerStates
  <2>5. /\ workers' \in Seq(WorkerStates)
        /\ Len(workers') = next + 1 /\ workers'[next + 1] = Chunk(next)
        /\ DOMAIN workers = 1 .. next /\ DOMAIN workers' = 1 .. next + 1
        /\ \A w \in 1 .. next : workers'[w] = workers[w]
    BY <1>5, <2>1, <2>4
  <2>6. workers' # <<>>
    BY <2>2, <2>5
  <2>7. CallerType'
    BY <1>1, <1>2, <1>3, <1>4, <2>1, <2>2 DEF CallerType
  <2>8. next * chunkSize <= (next + 1) * chunkSize /\ (next + 1) - 1 = next
    BY <2>2, Monotonic
  <2>9. \A w \in 1 .. next + 1 : w \in 1 .. next \/ w = next + 1
    BY <2>2
  <2>10. \A i \in Rows : ~(next * chunkSize <= i /\ i < next * chunkSize)
    BY <1>1, <2>3, Dimensions
  <2>11. WorkerInv'
    <3> DEFINE Ok(w) ==
                 /\ workers'[w].end = LeastOf(w * chunkSize, height)
                 /\ (w - 1) * chunkSize <= workers'[w].row
                 /\ workers'[w].row <= w * chunkSize
                 /\ \A i \in Rows : (w - 1) * chunkSize <= i /\ i < workers'[w].row => source[i] # Failure
                 /\ workers'[w].ended /\ workers'[w].row < workers'[w].end => firstErr # NoRow
    <3>1. \A w \in 1 .. next : Ok(w)
      BY <1>1, <2>5 DEF WorkerInv
    <3>2. Ok(next + 1)
      BY <2>3, <2>4, <2>5, <2>8, <2>10
    <3>3. \A w \in 1 .. next + 1 : Ok(w)
      BY <2>9, <3>1, <3>2
    <3>4. next + 1 <= innerWorkers
      BY <1>6, <2>2
    <3> QED  BY <1>2, <1>3, <1>4, <1>5, <2>1, <2>5, <3>3, <3>4 DEF WorkerInv
  <2>12. Computed' = Computed
    <3>1. pc \notin {"rows", "done"} /\ pc' \notin {"rows", "done"}
      BY <1>2, <2>1
    <3>2. \A i \in Rows :
             (\E w \in 1 .. next + 1 : (w - 1) * chunkSize <= i /\ i < workers'[w].row)
          <=> (\E w \in 1 .. next : (w - 1) * chunkSize <= i /\ i < workers[w].row)
      <4>1. \A w \in 1 .. next : w \in 1 .. next + 1
        BY <2>2
      <4> QED  BY <2>4, <2>5, <2>8, <2>9, <2>10, <4>1
    <3> QED  BY <1>4, <2>5, <3>1, <3>2 DEF Computed
  <2>13. DataInv'
    BY <1>1, <1>2, <1>3, <1>4, <2>1, <2>12 DEF DataInv
  <2> QED  BY <2>7, <2>11, <2>13 DEF RowsInv
<1>7. CASE ~(next < innerWorkers)
  <2>1. pc' = "wait" /\ UNCHANGED <<workers, next>>
    BY <1>7 DEF Spawn
  <2>2. Len(workers) = innerWorkers
    BY <1>1, <1>5, <1>7, Dimensions
  <2>3. CallerType'
    BY <1>1, <1>2, <1>3, <1>4, <2>1 DEF CallerType
  <2>4. WorkerInv'
    BY <1>1, <1>2, <1>3, <1>4, <1>5, <2>1, <2>2 DEF WorkerInv
  <2>5. Computed' = Computed
    BY <1>2, <1>4, <2>1 DEF Computed
  <2>6. DataInv'
    BY <1>1, <1>2, <1>3, <1>4, <2>1, <2>5 DEF DataInv
  <2> QED  BY <2>3, <2>4, <2>6 DEF RowsInv
<1> QED  BY <1>6, <1>7

(* The next row of a goroutine is a row of its chunk and of no other, and  *)
(* has not been computed.                                                  *)
LEMMA OwnRow ==
  ASSUME RowAssumption, CallerType, WorkerInv, NEW w \in DOMAIN workers,
         workers[w].row < workers[w].end
  PROVE  /\ workers[w].row \in Rows /\ workers[w].row + 1 <= w * chunkSize
         /\ \A v \in DOMAIN workers : ~((v - 1) * chunkSize <= workers[w].row
                                        /\ workers[w].row < workers[v].row)
<1> DEFINE row == workers[w].row
           c == chunkSize
<1>1. c \in Nat /\ height \in Nat /\ Rows = 0 .. height - 1
  BY Dimensions DEF Rows
<1>2. \A v \in DOMAIN workers : v \in Nat /\ v - 1 \in Nat /\ workers[v].row \in Nat
  BY WorkerNumbers DEF WorkerInv
<1>3. \A v \in DOMAIN workers : v * c \in Nat /\ (v - 1) * c \in Nat
  BY <1>1, <1>2
<1>4. \A v \in DOMAIN workers : (v - 1) * c <= workers[v].row /\ workers[v].row <= v * c
  BY DEF WorkerInv
<1>5. workers[w].end = IF w * c < height THEN w * c ELSE height
  BY DEF WorkerInv, LeastOf
<1>6. row \in Nat /\ row < w * c /\ row < height
  BY <1>1, <1>2, <1>3, <1>5
<1>7. ASSUME NEW v \in DOMAIN workers, (v - 1) * c <= row, row < workers[v].row PROVE FALSE
  <2>1. CASE v < w
    <3>1. v <= w - 1
      BY <1>2, <2>1
    <3>2. v * c <= (w - 1) * c
      BY <1>1, <1>2, <3>1, Monotonic
    <3> QED  BY <1>2, <1>3, <1>4, <1>6, <1>7, <3>2
  <2>2. CASE v = w
    BY <1>6, <1>7, <2>2
  <2>3. CASE w < v
    <3>1. w <= v - 1
      BY <1>2, <2>3
    <3>2. w * c <= (v - 1) * c
      BY <1>1, <1>2, <3>1, Monotonic
    <3> QED  BY <1>2, <1>3, <1>6, <1>7, <3>2
  <2> QED  BY <1>2, <2>1, <2>2, <2>3
<1>8. row \in Rows /\ row + 1 <= w * c
  BY <1>1, <1>3, <1>6
<1> QED  BY <1>7, <1>8

(* A goroutine computes a row, or stops at a failure.                      *)
LEMMA WorkerStepKeeps ==
  ASSUME RowAssumption, NEW w \in DOMAIN workers
  PROVE  RowsInv /\ WorkerStep(w) => RowsInv'
<1> SUFFICES ASSUME RowsInv, WorkerStep(w) PROVE RowsInv'
  OBVIOUS
<1> DEFINE row == workers[w].row
<1>1. CallerType /\ WorkerInv /\ DataInv
  BY DEF RowsInv
<1>2. UNCHANGED <<inputs, pc, next, result>> /\ ~ workers[w].ended /\ row < workers[w].end
  BY DEF WorkerStep
<1>3. UNCHANGED <<source, shift, forward, flag>>
  BY <1>2 DEF inputs
<1>4. /\ height' = height /\ Rows' = Rows /\ innerWorkers' = innerWorkers
      /\ chunkSize' = chunkSize /\ \A S : Columns(S)' = Columns(S)
  BY <1>2, Unmoved
<1>5. /\ workers # <<>> /\ shift = 0 /\ pc \in {"spawn", "wait"}
      /\ workers \in Seq(WorkerStates)
  BY <1>1, <1>2 DEF WorkerInv
<1>6. /\ row \in Rows /\ row + 1 <= w * chunkSize
      /\ \A v \in DOMAIN workers : ~((v - 1) * chunkSize <= row /\ row < workers[v].row)
  BY <1>1, <1>2, OwnRow
<1>7. EvalAt(data, row) = source[row]
  BY <1>1, <1>5, <1>6, Dimensions DEF EvalAt, IsRecursive
<1>8. /\ Computed = {i \in Rows : \E v \in DOMAIN workers : (v - 1) * chunkSize <= i /\ i < workers[v].row}
      /\ Computed' = {i \in Rows : \E v \in DOMAIN workers' : (v - 1) * chunkSize <= i /\ i < workers'[v].row}
  BY <1>2, <1>4, <1>5 DEF Computed
<1>9. CASE source[row] = Failure
  <2>1. /\ firstErr' = (IF firstErr = NoRow THEN row ELSE firstErr) /\ data' = data
        /\ workers' = [workers EXCEPT ![w].ended = TRUE]
    BY <1>7, <1>9 DEF WorkerStep
  <2>2. /\ workers' \in Seq(WorkerStates)
        /\ DOMAIN workers' = DOMAIN workers /\ Len(workers') = Len(workers)
        /\ \A v \in DOMAIN workers :
              workers'[v].row = workers[v].row /\ workers'[v].end = workers[v].end
    <3>1. workers[w] \in WorkerStates
      BY <1>5, WorkerNumbers
    <3> DEFINE r == [workers[w] EXCEPT !.ended = TRUE]
    <3>2. workers' = [workers EXCEPT ![w] = r]
      BY <2>1
    <3>3. r \in WorkerStates /\ r.row = workers[w].row /\ r.end = workers[w].end
      BY <3>1, WorkerFields
    <3> HIDE DEF r
    <3> QED  BY <1>5, <3>2, <3>3, OneWorker
  <2>3. row # NoRow /\ firstErr' # NoRow
    BY <1>1, <1>6, <2>1, Dimensions DEF NoRow
  <2>4. CallerType'
    <3>1. firstErr' \in Rows /\ source[firstErr'] = Failure
      BY <1>1, <1>5, <1>6, <1>9, <2>1 DEF CallerType
    <3>2. pc' # "start" /\ pc' # "rows"
      BY <1>2, <1>5
    <3> QED  BY <1>1, <1>2, <1>3, <1>4, <3>1, <3>2 DEF CallerType
  <2>5. WorkerInv'
    <3>1. workers' # <<>>
      BY <1>5, <2>2
    <3>2. pc' \notin {"start", "rows", "done"}
      BY <1>2, <1>5
    <3> QED  BY <1>1, <1>2, <1>3, <1>4, <1>5, <2>2, <2>3, <3>1, <3>2 DEF WorkerInv
  <2>6. Computed' = Computed
    BY <1>8, <2>2
  <2>7. DataInv'
    BY <1>1, <1>2, <1>3, <1>4, <1>5, <2>1, <2>6 DEF DataInv
  <2> QED  BY <2>4, <2>5, <2>7 DEF RowsInv
<1>10. CASE source[row] # Failure
  <2>1. /\ Write(row, EvalAt(data, row)) /\ firstErr' = firstErr
        /\ workers' = [workers EXCEPT ![w].row = @ + 1]
    BY <1>7, <1>10 DEF WorkerStep
  <2>2. row \in Nat
    BY <1>5, WorkerNumbers
  <2>3. /\ workers' \in Seq(WorkerStates)
        /\ DOMAIN workers' = DOMAIN workers /\ Len(workers') = Len(workers)
        /\ workers'[w].row = row + 1 /\ workers'[w].end = workers[w].end
        /\ workers'[w].ended = workers[w].ended
        /\ \A v \in DOMAIN workers : v # w => workers'[v] = workers[v]
    <3>1. workers[w] \in WorkerStates
      BY <1>5, WorkerNumbers
    <3> DEFINE r == [workers[w] EXCEPT !.row = workers[w].row + 1]
    <3>2. workers' = [workers EXCEPT ![w] = r]
      BY <2>1
    <3>3. r \in WorkerStates /\ r.row = workers[w].row + 1 /\ r.end = workers[w].end /\ r.ended = workers[w].ended
      BY <3>1, WorkerFields
    <3> HIDE DEF r
    <3> QED  BY <1>5, <3>2, <3>3, OneWorker
  <2>4. CallerType'
    BY <1>1, <1>2, <1>3, <1>4, <2>1 DEF CallerType
  <2>5. (w - 1) * chunkSize \in Nat /\ (w - 1) * chunkSize <= row
    <3>1. w - 1 \in Nat /\ chunkSize \in Nat
      BY <1>1, <1>5, Dimensions
    <3> QED  BY <1>1, <3>1 DEF WorkerInv
  <2>6. \A i \in Rows : i < row + 1 <=> i < row \/ i = row
    BY <1>1, <2>2, Dimensions
  <2>7. WorkerInv'
    <3> DEFINE Ok(v) ==
                 /\ workers'[v].end = LeastOf(v * chunkSize, height)
                 /\ (v - 1) * chunkSize <= workers'[v].row
                 /\ workers'[v].row <= v * chunkSize
                 /\ \A i \in Rows : (v - 1) * chunkSize <= i /\ i < workers'[v].row => source[i] # Failure
                 /\ workers'[v].ended /\ workers'[v].row < workers'[v].end => firstErr # NoRow
    <3>1. \A v \in DOMAIN workers : v # w => Ok(v)
      BY <1>1, <2>3 DEF WorkerInv
    <3>2. Ok(w)
      <4>1. workers'[w].end = LeastOf(w * chunkSize, height)
        BY <1>1, <2>3 DEF WorkerInv
      <4>2. (w - 1) * chunkSize <= workers'[w].row /\ workers'[w].row <= w * chunkSize
        BY <1>6, <2>2, <2>3, <2>5
      <4>3. \A i \in Rows : (w - 1) * chunkSize <= i /\ i < workers'[w].row => source[i] # Failure
        BY <1>1, <1>10, <2>3, <2>6 DEF WorkerInv
      <4> QED  BY <1>2, <2>3, <4>1, <4>2, <4>3
    <3>3. \A v \in DOMAIN workers : Ok(v)
      BY <3>1, <3>2
    <3>4. workers' # <<>>
      BY <1>5, <2>3
    <3>5. pc' \notin {"start", "rows", "done"}
      BY <1>2, <1>5
    <3> QED  BY <1>1, <1>2, <1>3, <1>4, <1>5, <2>1, <2>3, <3>3, <3>4, <3>5 DEF WorkerInv
  <2>8. Computed' = Computed \cup {row} /\ row \notin Computed
    <3>1. row \notin Computed
      BY <1>6, <1>8
    <3>2. \A i \in Rows : (\E v \in DOMAIN workers : (v - 1) * chunkSize <= i /\ i < workers'[v].row)
             <=> i = row \/ \E v \in DOMAIN workers : (v - 1) * chunkSize <= i /\ i < workers[v].row
      BY <2>3, <2>5, <2>6
    <3> QED  BY <1>6, <1>8, <2>3, <3>1, <3>2
  <2>9. data' = Columns(Computed \cup {row})
    <3>1. data = Columns(Computed)
      BY <1>1, <1>5 DEF DataInv
    <3> QED  BY <1>1, <1>5, <1>6, <1>10, <2>1, <2>8, <3>1, WriteFills
  <2>10. data' = Columns(Computed)'
    BY <1>4, <2>8, <2>9
  <2>11. DataInv'
    BY <1>1, <1>2, <1>3, <1>4, <1>5, <1>10, <2>1, <2>8, <2>10 DEF DataInv
  <2> QED  BY <2>4, <2>7, <2>11 DEF RowsInv
<1> QED  BY <1>9, <1>10

(* A goroutine ends behind its last row.                                   *)
LEMMA WorkerEndKeeps ==
  ASSUME RowAssumption, NEW w \in DOMAIN workers
  PROVE  RowsInv /\ WorkerEnd(w) => RowsInv'
<1> SUFFICES ASSUME RowsInv, WorkerEnd(w) PROVE RowsInv'
  OBVIOUS
<1>1. CallerType /\ WorkerInv /\ DataInv
  BY DEF RowsInv
<1>2. /\ UNCHANGED <<inputs, data, pc, next, firstErr, result>> /\ ~ workers[w].ended
      /\ workers[w].row >= workers[w].end /\ workers' = [workers EXCEPT ![w].ended = TRUE]
  BY DEF WorkerEnd
<1>3. UNCHANGED <<source, shift, forward, flag>>
  BY <1>2 DEF inputs
<1>4. /\ height' = height /\ Rows' = Rows /\ innerWorkers' = innerWorkers
      /\ chunkSize' = chunkSize /\ \A S : Columns(S)' = Columns(S)
  BY <1>2, Unmoved
<1>5. /\ workers # <<>> /\ pc \in {"spawn", "wait"}
      /\ workers \in Seq(WorkerStates)
  BY <1>1, <1>2 DEF WorkerInv
<1>6. /\ workers' \in Seq(WorkerStates)
      /\ DOMAIN workers' = DOMAIN workers /\ Len(workers') = Len(workers)
      /\ \A v \in DOMAIN workers :
            workers'[v].row = workers[v].row /\ workers'[v].end = workers[v].end
      /\ \A v \in DOMAIN workers : v # w => workers'[v] = workers[v]
  <2>1. workers[w] \in WorkerStates
    BY <1>5, WorkerNumbers
  <2> DEFINE r == [workers[w] EXCEPT !.ended = TRUE]
  <2>2. workers' = [workers EXCEPT ![w] = r]
    BY <1>2
  <2>3. r \in WorkerStates /\ r.row = workers[w].row /\ r.end = workers[w].end
    BY <2>1, WorkerFields
  <2> HIDE DEF r
  <2> QED  BY <1>5, <2>2, <2>3, OneWorker
<1>7. CallerType'
  BY <1>1, <1>2, <1>3, <1>4 DEF CallerType
<1>8. WorkerInv'
  <2>1. workers' # <<>>
    BY <1>5, <1>6
  <2>2. pc' \notin {"start", "rows", "done"}
    BY <1>2, <1>5
  <2>3. ~(workers'[w].row < workers'[w].end)
    <3>1. workers[w].row \in Nat /\ workers[w].end \in Int
      BY <1>5, WorkerNumbers
    <3>2. workers'[w].row = workers[w].row /\ workers'[w].end = workers[w].end
      BY <1>6
    <3>3. ~(workers[w].row < workers[w].end)
      BY <1>2, <3>1
    <3> QED  BY <3>2, <3>3
  <2> QED  BY <1>1, <1>2, <1>3, <1>4, <1>5, <1>6, <2>1, <2>2, <2>3 DEF WorkerInv
<1>9. Computed' = Computed
  BY <1>2, <1>4, <1>5, <1>6 DEF Computed
<1>10. DataInv'
  BY <1>1, <1>2, <1>3, <1>4, <1>9 DEF DataInv
<1> QED  BY <1>7, <1>8, <1>10 DEF RowsInv

(* When every goroutine has ended without a failure, every row is computed.*)
LEMMA WaitKeeps == ASSUME RowAssumption PROVE RowsInv /\ Wait => RowsInv'
<1> SUFFICES ASSUME RowsInv, Wait PROVE RowsInv'
  OBVIOUS
<1>1. CallerType /\ WorkerInv /\ DataInv
  BY DEF RowsInv
<1>2. /\ UNCHANGED <<inputs, data, next, workers, firstErr>> /\ pc = "wait" /\ pc' = "done"
      /\ \A w \in DOMAIN workers : workers[w].ended
      /\ result' = IF firstErr = NoRow THEN data ELSE <<>>
  BY DEF Wait
<1>3. UNCHANGED <<source, shift, forward, flag>>
  BY <1>2 DEF inputs
<1>4. /\ height' = height /\ Rows' = Rows /\ innerWorkers' = innerWorkers
      /\ chunkSize' = chunkSize /\ \A S : Columns(S)' = Columns(S)
  BY <1>2, Unmoved
<1>5. /\ Len(workers) = innerWorkers /\ workers \in Seq(WorkerStates)
      /\ shift = 0
  BY <1>1, <1>2 DEF WorkerInv
<1>6. /\ height \in Nat /\ chunkSize \in Nat /\ innerWorkers \in Nat \ {0}
      /\ height <= innerWorkers * chunkSize /\ \A i \in Rows : i \in Nat /\ i < height
  BY <1>1, Dimensions DEF Rows
<1>7. workers # <<>> /\ DOMAIN workers = 1 .. innerWorkers
  BY <1>5, <1>6
<1>8. CallerType'
  BY <1>1, <1>2, <1>3, <1>4 DEF CallerType
<1>9. WorkerInv'
  BY <1>1, <1>2, <1>3, <1>4, <1>5, <1>7 DEF WorkerInv
<1>10. Computed' = Computed
  BY <1>2, <1>4, <1>7 DEF Computed
<1>11. firstErr = NoRow => Computed = Rows
  <2> SUFFICES ASSUME firstErr = NoRow, NEW i \in Rows PROVE i \in Computed
    BY DEF Computed
  <2>1. i < innerWorkers * chunkSize
    <3>1. innerWorkers * chunkSize \in Nat
      BY <1>6
    <3> QED  BY <1>6, <3>1
  <2>2. PICK w \in 1 .. innerWorkers : (w - 1) * chunkSize <= i /\ i < w * chunkSize
    BY <1>6, <2>1, InSomeChunk
  <2>3. ~(workers[w].row < workers[w].end) /\ workers[w].end = LeastOf(w * chunkSize, height)
    BY <1>1, <1>2, <1>7 DEF WorkerInv
  <2>4. i < workers[w].end
    BY <1>6, <2>2, <2>3 DEF LeastOf
  <2>5. workers[w].row \in Nat /\ workers[w].end \in Int
    BY <1>5, <1>7, WorkerNumbers
  <2>6. i < workers[w].row
    BY <1>6, <2>3, <2>4, <2>5
  <2> QED  BY <1>7, <2>2, <2>6 DEF Computed
<1>12. DataInv'
  BY <1>1, <1>2, <1>3, <1>4, <1>10, <1>11 DEF DataInv
<1> QED  BY <1>8, <1>9, <1>12 DEF RowsInv

(* The invariant says what is claimed of chunks, rows and failures.        *)
LEMMA RowsImplied ==
  ASSUME RowAssumption
  PROVE  RowsInv => ChunksDisjoint /\ RowsFilled /\ (~ IsRecursive => FailureReported)
<1> SUFFICES ASSUME RowsInv PROVE ChunksDisjoint /\ RowsFilled /\ (~ IsRecursive => FailureReported)
  OBVIOUS
<1>1. CallerType /\ WorkerInv /\ DataInv
  BY DEF RowsInv
<1>2. ChunksDisjoint
  <2> SUFFICES ASSUME NEW v \in DOMAIN workers, NEW w \in DOMAIN workers, v # w,
                      NEW i \in workers[v].row .. workers[v].end - 1,
                      i \in workers[w].row .. workers[w].end - 1
               PROVE  FALSE
    BY DEF ChunksDisjoint
  <2>1. chunkSize \in Nat /\ height \in Nat
    BY <1>1, Dimensions
  <2>2. \A u \in DOMAIN workers : u \in Nat /\ u - 1 \in Nat /\ workers[u].row \in Nat
    BY <1>1, WorkerNumbers DEF WorkerInv
  <2>3. \A u \in DOMAIN workers : u * chunkSize \in Nat /\ (u - 1) * chunkSize \in Nat
    BY <2>1, <2>2
  <2>4. \A u \in DOMAIN workers :
           (u - 1) * chunkSize <= workers[u].row /\ workers[u].end = LeastOf(u * chunkSize, height)
    BY <1>1 DEF WorkerInv
  <2>5. \A u \in DOMAIN workers : workers[u].end \in Nat /\ workers[u].end <= u * chunkSize
    BY <2>1, <2>3, <2>4 DEF LeastOf
  <2>6. \A t, u \in DOMAIN workers : t < u => workers[t].end <= workers[u].row
    <3> SUFFICES ASSUME NEW t \in DOMAIN workers, NEW u \in DOMAIN workers, t < u
                 PROVE  workers[t].end <= workers[u].row
      OBVIOUS
    <3>1. t <= u - 1
      BY <2>2
    <3>2. t * chunkSize <= (u - 1) * chunkSize
      BY <2>1, <2>2, <3>1, Monotonic
    <3> QED  BY <2>2, <2>3, <2>4, <2>5, <3>2
  <2>7. v < w \/ w < v
    BY <2>2
  <2> QED  BY <2>2, <2>5, <2>6, <2>7
<1>3. IsRecursive <=> shift # 0
  BY DEF IsRecursive
<1>4. RowsFilled
  BY <1>1, <1>3 DEF RowsFilled, DataInv, Columns
<1>5. ~ IsRecursive => FailureReported
  BY <1>1, <1>3 DEF FailureReported, DataInv, CallerType
<1> QED  BY <1>2, <1>4, <1>5

(* The rows before the one reported, in its chunk, have no failure.        *)
ReportInv ==
  shift = 0 => /\ ReportedRow
               /\ workers = <<>> /\ pc \notin {"rows", "done"} => firstErr = NoRow

(* A row of chunk w divided by the size of a chunk gives w - 1.            *)
LEMMA ChunkOf ==
  \A c, w, i, j \in Nat :
    w >= 1 /\ (w - 1) * c <= i /\ i < w * c /\ j \div c = i \div c => (w - 1) * c <= j
<1> SUFFICES ASSUME NEW c \in Nat, NEW w \in Nat, NEW i \in Nat, NEW j \in Nat,
                    w >= 1, (w - 1) * c <= i, i < w * c, j \div c = i \div c
             PROVE  (w - 1) * c <= j
  OBVIOUS
<1>1. c > 0 /\ w - 1 \in Nat
  OBVIOUS
<1> DEFINE q == i \div c
<1>2. q \in Nat /\ i < (q + 1) * c /\ q * c <= j
  BY <1>1
<1> HIDE DEF q
<1>3. w - 1 <= q
  <2> SUFFICES ASSUME q + 1 <= w - 1 PROVE FALSE
    BY <1>1, <1>2
  <2>1. (q + 1) * c <= (w - 1) * c
    BY <1>1, <1>2, Monotonic
  <2>2. (q + 1) * c \in Nat /\ (w - 1) * c \in Nat
    BY <1>1, <1>2
  <2> QED  BY <1>2, <2>1, <2>2
<1>4. (w - 1) * c <= q * c /\ (w - 1) * c \in Nat /\ q * c \in Nat
  BY <1>1, <1>2, <1>3, Monotonic
<1> QED  BY <1>2, <1>4

(* A failure that is reported stays the first of its chunk.                *)
LEMMA ReportKeeps ==
  ASSUME RowAssumption, RowsInv, ReportInv, Next
  PROVE  ReportInv'
<1> SUFFICES ASSUME shift = 0 PROVE ReportInv'
  BY DEF ReportInv, Next, Caller, Goroutine, Compute, RowStep, RowsEnd, Spawn, Wait,
         WorkerStep, WorkerEnd, inputs
<1>1. CallerType /\ WorkerInv /\ DataInv
  BY DEF RowsInv
<1>2. UNCHANGED inputs
  BY DEF Next, Caller, Goroutine, Compute, RowStep, RowsEnd, Spawn, Wait, WorkerStep, WorkerEnd
<1>3. UNCHANGED <<source, shift, forward>> /\ Rows' = Rows /\ chunkSize' = chunkSize
  BY <1>2, Unmoved DEF inputs
<1>4. forward
  BY <1>1 DEF CallerType
<1>5. ASSUME UNCHANGED firstErr, workers # <<>> <=> workers' # <<>>,
             workers' = <<>> /\ pc' \notin {"rows", "done"} => firstErr = NoRow
      PROVE  ReportInv'
  BY <1>3, <1>5 DEF ReportInv, ReportedRow
<1>6. ASSUME firstErr' = NoRow PROVE ReportInv'
  BY <1>6 DEF ReportInv, ReportedRow
<1>7. CASE Compute
  BY <1>1, <1>6, <1>7 DEF Compute, CallerType
<1>8. CASE RowStep
  <2>1. pc = "rows" /\ firstErr = NoRow /\ workers = <<>> /\ workers' = <<>> /\ next \in Rows
    BY <1>1, <1>8 DEF RowStep, DataInv, WorkerInv
  <2>2. CASE firstErr' # NoRow
    <3>1. firstErr' = next /\ EvalAt(data, next) = Failure /\ pc' = "done"
      BY <1>8, <2>1, <2>2 DEF RowStep
    <3>2. source[next] = Failure
      <4>1. source[next] # Failure => EvalAt(data, next) = source[next]
        BY <1>1, <2>1, Dimensions DEF EvalAt, IsRecursive
      <4> QED  BY <3>1, <4>1
    <3>3. \A i \in Rows : i < next => i \in Computed
      BY <2>1 DEF Computed
    <3>4. \A i \in Rows : source[i] = Failure => next <= i
      BY <1>1, <2>1, <3>3, Dimensions DEF DataInv
    <3>5. /\ ReportedRow' <=> (source[next] = Failure
             /\ \A i \in Rows : source[i] = Failure =>
                  IF forward THEN next <= i ELSE next >= i)
      BY <1>3, <2>1, <2>2, <3>1 DEF ReportedRow
    <3>6. ReportedRow'
      BY <1>4, <3>2, <3>4, <3>5, Zenon
    <3> QED  BY <3>1, <3>6 DEF ReportInv
  <2>3. CASE firstErr' = NoRow
    BY <1>6, <2>3
  <2> QED  BY <2>2, <2>3
<1>9. CASE RowsEnd
  BY <1>5, <1>9 DEF RowsEnd
<1>10. CASE Spawn
  <2>1. UNCHANGED firstErr /\ pc = "spawn" /\ pc' \in {"spawn", "wait"}
    BY <1>10 DEF Spawn
  <2>2. workers' # <<>> \/ UNCHANGED workers
    BY <1>1, <1>10 DEF Spawn, WorkerInv
  <2>3. CASE workers = <<>>
    BY <1>6, <2>1, <2>3 DEF ReportInv
  <2>4. CASE workers # <<>>
    BY <1>5, <2>1, <2>2, <2>4
  <2> QED  BY <2>3, <2>4
<1>11. CASE Wait
  BY <1>5, <1>11 DEF Wait
<1>12. ASSUME NEW w \in DOMAIN workers, WorkerStep(w) \/ WorkerEnd(w)
       PROVE  ReportInv'
  <2>1. workers # <<>> /\ workers' # <<>>
    <3>1. DOMAIN workers' = DOMAIN workers
      BY <1>12 DEF WorkerStep, WorkerEnd
    <3> QED  BY <1>1, <3>1 DEF WorkerInv
  <2>2. CASE UNCHANGED firstErr
    BY <1>5, <2>1, <2>2
  <2>3. CASE firstErr' # firstErr
    <3> DEFINE row == workers[w].row
    <3>1. /\ WorkerStep(w) /\ EvalAt(data, row) = Failure /\ firstErr' = row
          /\ row < workers[w].end
      BY <1>12, <2>3 DEF WorkerStep, WorkerEnd
    <3>2. row \in Rows /\ row + 1 <= w * chunkSize
      BY <1>1, <3>1, OwnRow
    <3>3. source[row] = Failure
      <4>1. source[row] # Failure => EvalAt(data, row) = source[row]
        BY <1>1, <3>2, Dimensions DEF EvalAt, IsRecursive
      <4> QED  BY <3>1, <4>1
    <3>4. /\ chunkSize \in Nat /\ w \in Nat /\ w >= 1 /\ row \in Nat
          /\ \A i \in Rows : i \in Nat
      <4>1. w \in Nat /\ w - 1 \in Nat /\ row \in Nat
        BY <1>1, WorkerNumbers DEF WorkerInv
      <4> QED  BY <1>1, <4>1, Dimensions
    <3>5. /\ (w - 1) * chunkSize <= row
          /\ \A i \in Rows : (w - 1) * chunkSize <= i /\ i < row => source[i] # Failure
      BY <1>1 DEF WorkerInv
    <3>6. row < w * chunkSize
      BY <3>2, <3>4
    <3> HIDE DEF row
    <3>7. \A i \in Rows : source[i] = Failure /\ i \div chunkSize = row \div chunkSize => row <= i
      <4> SUFFICES ASSUME NEW i \in Rows, source[i] = Failure,
                          i \div chunkSize = row \div chunkSize
                   PROVE  row <= i
        OBVIOUS
      <4>1. (w - 1) * chunkSize <= i
        BY <3>4, <3>5, <3>6, ChunkOf
      <4>2. ~(i < row)
        BY <3>5, <4>1
      <4> QED  BY <3>4, <4>2
    <3> QED  BY <1>3, <2>1, <3>1, <3>3, <3>7 DEF ReportInv, ReportedRow
  <2> QED  BY <2>2, <2>3
<1> QED  BY <1>7, <1>8, <1>9, <1>10, <1>11, <1>12 DEF Next, Caller, Goroutine

(* Every step keeps what is known of the rows.                             *)
LEMMA RowsKept == ASSUME RowAssumption PROVE RowsInv /\ [Next]_vars => RowsInv'
<1> SUFFICES ASSUME RowsInv, [Next]_vars PROVE RowsInv'
  OBVIOUS
<1>1. CASE Next
  BY <1>1, ComputeKeeps, RowStepKeeps, RowsEndKeeps, SpawnKeeps, WaitKeeps,
     WorkerStepKeeps, WorkerEndKeeps DEF Next, Caller, Goroutine
<1>2. CASE UNCHANGED vars
  <2>1. UNCHANGED <<inputs, data, pc, next, workers, firstErr, result>>
    BY <1>2 DEF vars, inputs
  <2>2. UNCHANGED <<source, shift, forward, flag>>
    BY <2>1 DEF inputs
  <2>3. /\ height' = height /\ Rows' = Rows /\ innerWorkers' = innerWorkers
        /\ chunkSize' = chunkSize /\ \A S : Columns(S)' = Columns(S)
    BY <2>1, Unmoved
  <2>4. Computed' = Computed
    BY <2>1, <2>3 DEF Computed
  <2>5. CallerType'
    BY <2>1, <2>2, <2>3 DEF RowsInv, CallerType
  <2>6. WorkerInv'
    BY <2>1, <2>2, <2>3 DEF RowsInv, WorkerInv
  <2>7. DataInv'
    BY <2>1, <2>2, <2>3, <2>4 DEF RowsInv, DataInv
  <2> QED  BY <2>5, <2>6, <2>7 DEF RowsInv
<1> QED  BY <1>1, <1>2

(* ... and of the row that is reported.                                    *)
LEMMA ReportKept ==
  ASSUME RowAssumption PROVE RowsInv /\ ReportInv /\ [Next]_vars => ReportInv'
<1>1. UNCHANGED vars /\ ReportInv => ReportInv'
  <2> SUFFICES ASSUME UNCHANGED vars, ReportInv PROVE ReportInv'
    OBVIOUS
  <2>1. UNCHANGED <<inputs, source, shift, forward, pc, workers, firstErr>>
    BY DEF vars, inputs
  <2>2. Rows' = Rows /\ chunkSize' = chunkSize
    BY <2>1, Unmoved
  <2> QED  BY <2>1, <2>2 DEF ReportInv, ReportedRow
<1> QED  BY <1>1, ReportKeeps

(* Goroutines that compute a column share no row, fill every row with what *)
(* the expression gives for it, and report a failure exactly when a row    *)
(* has one, the first of its chunk: for every height, number of            *)
(* processors, setting of the flag and interleaving.                       *)
THEOREM RowsAreShared ==
  ASSUME RowAssumption
  PROVE  Spec => [](/\ ChunksDisjoint /\ RowsFilled
                    /\ ~ IsRecursive => FailureReported /\ ReportedRow)
<1>1. Init => RowsInv /\ ReportInv
  BY RowsInit DEF Init, ReportInv, ReportedRow
<1>2. RowsInv /\ [Next]_vars => RowsInv'
  BY RowsKept
<1>3. RowsInv /\ ReportInv /\ [Next]_vars => ReportInv'
  BY ReportKept
<1>4. RowsInv /\ ReportInv => /\ ChunksDisjoint /\ RowsFilled
                              /\ ~ IsRecursive => FailureReported /\ ReportedRow
  BY RowsImplied DEF ReportInv, IsRecursive
<1> QED  BY <1>1, <1>2, <1>3, <1>4, PTL DEF Spec
-----------------------------------------------------------------------------
(* Recursive expressions, whose rows are computed one after another.       *)

(* The rows that the loop has passed.                                      *)
Passed ==
  {i \in Rows : pc \in {"rows", "done"} /\ IF forward THEN i < next ELSE i > next}

(* What is left of a value in columns of this width.                       *)
Kept(v) == IF v < Limit THEN v ELSE 0

(* The rows not passed are still zero; a row that was passed holds what    *)
(* the expression gives for it, if the row it depends on was passed        *)
(* before it.                                                              *)
PassedInv ==
  /\ data = [k \in Targets |-> [i \in Rows |-> data[k][i]]]
  /\ \A i \in Rows : TargetValue(data, i) \in Nat
  /\ \A i \in Rows \ Passed : \A k \in Targets : data[k][i] = 0
  /\ \A i \in Passed : source[i] # Failure
  /\ Founded => \A i \in Passed : TargetValue(data, i) = Kept(EvalAt(data, i))

(* The loop stops behind the last row or at the first failure.             *)
LoopInv ==
  /\ pc \in {"start", "rows", "done"} /\ workers = <<>>
  /\ pc \in {"rows", "done"} => IF forward THEN next \in 0 .. height ELSE next \in -1 .. height - 1
  /\ pc # "done" => firstErr = NoRow /\ result = <<>>
  /\ pc = "done" /\ firstErr = NoRow => result = data /\ Passed = Rows
  /\ pc = "done" /\ firstErr # NoRow =>
       result = <<>> /\ firstErr = next /\ next \in Rows /\ source[next] = Failure

RecursiveInv == IsRecursive => PassedInv /\ LoopInv

(* What the targets hold together on a row, and outside the rows.          *)
LEMMA TargetRow ==
  ASSUME NEW cols, NEW row
  PROVE  /\ row \in Rows => TargetValue(cols, row) = Joined([k \in Targets |-> cols[k][row]])
         /\ row \notin Rows => TargetValue(cols, row) = Joined([k \in Targets |-> 0])
<1>1. ASSUME row \in Rows PROVE [k \in Targets |-> Get(cols, k, row)] = [k \in Targets |-> cols[k][row]]
  BY <1>1 DEF Get
<1>2. ASSUME row \notin Rows PROVE [k \in Targets |-> Get(cols, k, row)] = [k \in Targets |-> 0]
  BY <1>2 DEF Get
<1> QED  BY <1>1, <1>2 DEF TargetValue

(* Limbs that a value was split into make it up again.                     *)
LEMMA JoinLimbs ==
  ASSUME LimbsAssumption
  PROVE  /\ Limit \in Nat /\ Joined([k \in Targets |-> 0]) = 0
         /\ \A v \in Nat : v < Limit => Joined([k \in Targets |-> Limb(v, k)]) = v
<1> DEFINE J(v) == Joined([k \in Targets |-> Limb(v, k)])
<1>1. Limit \in Nat /\ Joined([k \in Targets |-> 0]) = 0 /\ \A v \in 0 .. Limit - 1 : J(v) = v
  BY DEF LimbsAssumption
<1> HIDE DEF J
<1>2. \A v \in Nat : v < Limit => J(v) = v
  BY <1>1
<1> QED  BY <1>1, <1>2 DEF J

(* Computing a row that is zero so far puts there what fits of the value,  *)
(* and leaves the others alone.                                            *)
LEMMA WriteRow ==
  ASSUME LimbsAssumption, data = [k \in Targets |-> [i \in Rows |-> data[k][i]]],
         NEW row \in Rows, \A k \in Targets : data[k][row] = 0,
         NEW v \in Nat, Write(row, v)
  PROVE  /\ data' = [k \in Targets |-> [i \in Rows |-> data'[k][i]]]
         /\ \A i \in Rows : i # row => \A k \in Targets : data'[k][i] = data[k][i]
         /\ Joined([k \in Targets |-> data'[k][row]]) = Kept(v)
<1>1. CASE v < Limit
  <2>1. data' = [k \in Targets |-> [data[k] EXCEPT ![row] = Limb(v, k)]]
    BY <1>1 DEF Write
  <2>2. ASSUME NEW k \in Targets
        PROVE  data'[k] = [i \in Rows |-> IF i = row THEN Limb(v, k) ELSE data[k][i]]
    <3> DEFINE f == data[k]
    <3>1. f = [i \in Rows |-> f[i]] /\ data'[k] = [f EXCEPT ![row] = Limb(v, k)]
      BY <2>1
    <3> HIDE DEF f
    <3>2. [f EXCEPT ![row] = Limb(v, k)] = [i \in Rows |-> IF i = row THEN Limb(v, k) ELSE f[i]]
      BY <3>1
    <3> QED  BY <3>1, <3>2 DEF f
  <2>3. \A k \in Targets : data'[k] = [i \in Rows |-> data'[k][i]] /\ data'[k][row] = Limb(v, k)
    BY <2>2
  <2>4. [k \in Targets |-> data'[k][row]] = [k \in Targets |-> Limb(v, k)]
    BY <2>3
  <2>5. Joined([k \in Targets |-> data'[k][row]]) = v
    BY <1>1, <2>4, JoinLimbs
  <2>6. \A i \in Rows : i # row => \A k \in Targets : data'[k][i] = data[k][i]
    BY <2>2
  <2>7. data' = [k \in Targets |-> data'[k]]
    BY <2>1
  <2>8. data' = [k \in Targets |-> [i \in Rows |-> data'[k][i]]]
    BY <2>3, <2>7
  <2> QED  BY <1>1, <2>5, <2>6, <2>8 DEF Kept
<1>2. CASE ~(v < Limit)
  <2>1. data' = data
    BY <1>2 DEF Write
  <2>2. [k \in Targets |-> data'[k][row]] = [k \in Targets |-> 0]
    BY <2>1
  <2> QED  BY <1>2, <2>1, <2>2, JoinLimbs DEF Kept
<1> QED  BY <1>1, <1>2

(* The loop begins with columns of zeros.                                  *)
LEMMA RecursiveInit ==
  ASSUME RowAssumption, LimbsAssumption PROVE Init => RecursiveInv
<1> SUFFICES ASSUME Init PROVE PassedInv /\ LoopInv
  BY DEF RecursiveInv
<1>1. /\ data = [k \in Targets |-> [i \in Rows |-> 0]] /\ pc = "start"
      /\ workers = <<>> /\ firstErr = NoRow /\ result = <<>>
  BY DEF Init
<1>2. Passed = {}
  BY <1>1 DEF Passed
<1>3. \A i \in Rows : TargetValue(data, i) \in Nat
  <2> TAKE i \in Rows
  <2>1. [k \in Targets |-> data[k][i]] = [k \in Targets |-> 0]
    BY <1>1
  <2> QED  BY <2>1, TargetRow, JoinLimbs
<1>4. PassedInv
  BY <1>1, <1>2, <1>3 DEF PassedInv
<1> QED  BY <1>1, <1>4 DEF LoopInv

(* The inputs keep their place, and with the columns what the rows hold.   *)
LEMMA UnmovedRows ==
  ASSUME UNCHANGED inputs
  PROVE  /\ IsRecursive' = IsRecursive /\ Founded' = Founded
         /\ \A i : TargetValue(data, i)' = TargetValue(data', i)
         /\ \A i : EvalAt(data, i)' = EvalAt(data', i)
<1>1. Rows' = Rows /\ UNCHANGED <<source, shift, forward>>
  BY Unmoved DEF inputs
<1>2. \A i : TargetValue(data, i)' = TargetValue(data', i)
  BY <1>1 DEF TargetValue, Get
<1> QED  BY <1>1, <1>2 DEF IsRecursive, Founded, EvalAt

(* A row fails exactly when the other columns make it fail.                *)
LEMMA EvalRow ==
  ASSUME RowAssumption, LimbsAssumption, CallerType, IsRecursive,
         \A i \in Rows : TargetValue(data, i) \in Nat, NEW row \in Rows
  PROVE  IF source[row] = Failure THEN EvalAt(data, row) = Failure
         ELSE EvalAt(data, row) \in Nat /\ EvalAt(data, row) # Failure
<1>1. TargetValue(data, row + shift) \in Nat
  <2>1. CASE row + shift \in Rows
    BY <2>1
  <2>2. CASE row + shift \notin Rows
    <3>1. TargetValue(data, row + shift) = Joined([k \in Targets |-> 0])
      BY <2>2, TargetRow
    <3>2. Joined([k \in Targets |-> 0]) = 0
      BY JoinLimbs
    <3> QED  BY <3>1, <3>2
  <2> QED  BY <2>1, <2>2
<1>2. source[row] = Failure \/ source[row] \in Nat
  BY Dimensions
<1>3. source[row] # Failure => EvalAt(data, row) = source[row] + TargetValue(data, row + shift)
  BY DEF EvalAt
<1>4. source[row] = Failure => EvalAt(data, row) = Failure
  BY DEF EvalAt
<1> QED  BY <1>1, <1>2, <1>3, <1>4 DEF Failure

(* The loop begins at the row that depends on no other.                    *)
LEMMA ComputeRecursive ==
  ASSUME RowAssumption, RowsInv, PassedInv, LoopInv, IsRecursive, Compute
  PROVE  PassedInv' /\ LoopInv'
<1>1. /\ UNCHANGED inputs /\ UNCHANGED <<data, workers, firstErr, result>> /\ pc = "start" /\ pc' = "rows"
      /\ next' = IF forward THEN 0 ELSE height - 1
  BY DEF Compute
<1>2. /\ Rows' = Rows /\ height' = height /\ UNCHANGED <<source, forward>> /\ Founded' = Founded
      /\ \A i : TargetValue(data, i)' = TargetValue(data, i)
  BY <1>1, Unmoved, UnmovedRows DEF inputs
<1>3. height \in Nat /\ Rows = 0 .. height - 1
  BY Dimensions DEF Rows, RowsInv
<1>4. Passed = {}
  BY <1>1 DEF Passed
<1>5. Passed' = {}
  BY <1>1, <1>2, <1>3 DEF Passed
<1>6. PassedInv'
  BY <1>1, <1>2, <1>4, <1>5 DEF PassedInv
<1>7. IF forward THEN next' \in 0 .. height ELSE next' \in -1 .. height - 1
  BY <1>1, <1>3
<1> QED  BY <1>1, <1>2, <1>6, <1>7 DEF LoopInv

(* A row of the loop: the row it depends on was passed just before.        *)
LEMMA RowStepRecursive ==
  ASSUME RowAssumption, LimbsAssumption, RowsInv, PassedInv, LoopInv, IsRecursive, RowStep
  PROVE  PassedInv' /\ LoopInv'
<1>1. /\ UNCHANGED inputs /\ UNCHANGED <<workers, result>> /\ pc = "rows" /\ next \in Rows
      /\ firstErr = NoRow /\ result = <<>> /\ workers = <<>>
  BY DEF RowStep, LoopInv
<1>2. /\ Rows' = Rows /\ height' = height /\ UNCHANGED <<source, forward, shift>>
      /\ Founded' = Founded
      /\ \A i : TargetValue(data, i)' = TargetValue(data', i)
      /\ \A i : EvalAt(data, i)' = EvalAt(data', i)
  BY <1>1, Unmoved, UnmovedRows DEF inputs
<1>3. height \in Nat /\ Rows = 0 .. height - 1
  BY Dimensions DEF Rows, RowsInv
<1>4. Passed = {i \in Rows : IF forward THEN i < next ELSE i > next}
  BY <1>1 DEF Passed
<1>5. \A i \in Rows : TargetValue(data, i) \in Nat
  BY DEF PassedInv
<1>6. IF source[next] = Failure THEN EvalAt(data, next) = Failure
      ELSE EvalAt(data, next) \in Nat /\ EvalAt(data, next) # Failure
  BY <1>1, <1>5, EvalRow DEF RowsInv
<1>7. CASE source[next] = Failure
  <2>1. firstErr' = next /\ pc' = "done" /\ UNCHANGED <<data, next>>
    BY <1>6, <1>7 DEF RowStep
  <2>2. Passed' = Passed
    BY <1>2, <1>4, <2>1 DEF Passed
  <2>3. PassedInv'
    BY <1>2, <2>1, <2>2 DEF PassedInv
  <2>4. next # NoRow
    BY <1>1, <1>3 DEF NoRow
  <2>5. IF forward THEN next \in 0 .. height ELSE next \in -1 .. height - 1
    BY <1>1, <1>3
  <2> QED  BY <1>1, <1>2, <1>7, <2>1, <2>3, <2>4, <2>5 DEF LoopInv
<1>8. CASE source[next] # Failure
  <2>1. PICK v \in Nat : v = EvalAt(data, next)
    BY <1>6, <1>8
  <2>2. Write(next, v) /\ next' = (IF forward THEN next + 1 ELSE next - 1) /\ UNCHANGED <<firstErr, pc>>
    BY <1>6, <1>8, <2>1 DEF RowStep
  <2>3. next \notin Passed /\ Passed' = Passed \cup {next}
    <3>1. Passed' = {i \in Rows : IF forward THEN i < next' ELSE i > next'}
      BY <1>1, <1>2, <2>2 DEF Passed
    <3> QED  BY <1>1, <1>3, <1>4, <2>2, <3>1
  <2>4. /\ data = [k \in Targets |-> [i \in Rows |-> data[k][i]]]
        /\ \A k \in Targets : data[k][next] = 0
    BY <1>1, <2>3 DEF PassedInv
  <2>5. /\ data' = [k \in Targets |-> [i \in Rows |-> data'[k][i]]]
        /\ \A i \in Rows : i # next => \A k \in Targets : data'[k][i] = data[k][i]
        /\ Joined([k \in Targets |-> data'[k][next]]) = Kept(v)
    BY <1>1, <2>2, <2>4, WriteRow
  <2>6. \A i : i # next => TargetValue(data', i) = TargetValue(data, i)
    <3>1. ASSUME NEW i, i # next PROVE TargetValue(data', i) = TargetValue(data, i)
      <4>1. CASE i \in Rows
        <5>1. [k \in Targets |-> data'[k][i]] = [k \in Targets |-> data[k][i]]
          BY <2>5, <3>1, <4>1
        <5> QED  BY <4>1, <5>1, TargetRow
      <4>2. CASE i \notin Rows
        BY <4>2, TargetRow
      <4> QED  BY <4>1, <4>2
    <3> QED  BY <3>1
  <2>7. TargetValue(data', next) = Kept(v) /\ Kept(v) \in Nat
    BY <1>1, <2>1, <2>5, TargetRow DEF Kept
  <2>8. ASSUME Founded PROVE \A i \in Passed' : TargetValue(data', i) = Kept(EvalAt(data', i))
    <3>1. \A i \in Passed' : i \in Int /\ i + shift # next
      <4>1. shift \in {-1, 1} /\ (forward <=> shift = -1)
        BY <2>8 DEF Founded, IsRecursive, RowsInv, CallerType
      <4> QED  BY <1>1, <1>3, <1>4, <2>3, <4>1
    <3>2. \A i \in Passed' : EvalAt(data', i) = EvalAt(data, i)
      BY <2>6, <3>1 DEF EvalAt
    <3>3. \A i \in Passed : TargetValue(data, i) = Kept(EvalAt(data, i))
      BY <2>8 DEF PassedInv
    <3> QED  BY <2>1, <2>3, <2>6, <2>7, <3>2, <3>3
  <2>9. PassedInv'
    <3>1. \A i \in Rows : TargetValue(data', i) \in Nat
      BY <1>5, <2>6, <2>7
    <3>2. \A i \in Rows \ Passed' : \A k \in Targets : data'[k][i] = 0
      BY <2>3, <2>5 DEF PassedInv
    <3>3. \A i \in Passed' : source[i] # Failure
      BY <1>8, <2>3 DEF PassedInv
    <3> QED  BY <1>2, <2>5, <2>8, <3>1, <3>2, <3>3 DEF PassedInv
  <2>10. IF forward THEN next' \in 0 .. height ELSE next' \in -1 .. height - 1
    BY <1>1, <1>3, <2>2
  <2> QED  BY <1>1, <1>2, <2>2, <2>9, <2>10 DEF LoopInv
<1> QED  BY <1>7, <1>8

(* Behind the last row all are passed.                                     *)
LEMMA RowsEndRecursive ==
  ASSUME RowAssumption, RowsInv, PassedInv, LoopInv, IsRecursive, RowsEnd
  PROVE  PassedInv' /\ LoopInv'
<1>1. /\ UNCHANGED inputs /\ UNCHANGED <<data, next, workers, firstErr>> /\ pc = "rows"
      /\ next \notin Rows /\ pc' = "done" /\ result' = data
  BY DEF RowsEnd
<1>2. /\ Rows' = Rows /\ height' = height /\ UNCHANGED <<source, forward>> /\ Founded' = Founded
      /\ \A i : TargetValue(data, i)' = TargetValue(data, i)
      /\ \A i : EvalAt(data, i)' = EvalAt(data, i)
  BY <1>1, Unmoved, UnmovedRows DEF inputs
<1>3. height \in Nat /\ Rows = 0 .. height - 1
  BY Dimensions DEF Rows, RowsInv
<1>4. Passed = {i \in Rows : IF forward THEN i < next ELSE i > next} /\ Passed' = Passed
  BY <1>1, <1>2 DEF Passed
<1>5. IF forward THEN next \in 0 .. height ELSE next \in -1 .. height - 1
  BY <1>1 DEF LoopInv
<1>6. Passed' = Rows
  BY <1>1, <1>3, <1>4, <1>5
<1>7. PassedInv'
  BY <1>1, <1>2, <1>4 DEF PassedInv
<1> QED  BY <1>1, <1>2, <1>5, <1>6, <1>7 DEF LoopInv

(* A recursive expression starts no goroutines.                            *)
LEMMA RecursiveKept ==
  ASSUME RowAssumption, LimbsAssumption
  PROVE  RowsInv /\ RecursiveInv /\ [Next]_vars => RecursiveInv'
<1> SUFFICES ASSUME RowsInv, RecursiveInv, [Next]_vars, IsRecursive'
             PROVE  PassedInv' /\ LoopInv'
  BY DEF RecursiveInv
<1>1. UNCHANGED inputs
  BY DEF Next, Caller, Goroutine, Compute, RowStep, RowsEnd, Spawn, Wait, WorkerStep, WorkerEnd, vars, inputs
<1>2. IsRecursive /\ PassedInv /\ LoopInv
  BY <1>1, UnmovedRows DEF RecursiveInv
<1>3. workers = <<>> /\ pc \notin {"spawn", "wait"}
  BY <1>2 DEF LoopInv
<1>4. \/ Compute \/ RowStep \/ RowsEnd \/ UNCHANGED vars
  BY <1>3 DEF Next, Caller, Goroutine, Spawn, Wait
<1>5. CASE UNCHANGED vars
  <2>1. UNCHANGED <<data, pc, next, workers, firstErr, result>>
    BY <1>5 DEF vars
  <2>2. /\ Rows' = Rows /\ height' = height /\ UNCHANGED <<source, forward>> /\ Founded' = Founded
        /\ \A i : TargetValue(data, i)' = TargetValue(data, i)
        /\ \A i : EvalAt(data, i)' = EvalAt(data, i)
    BY <1>1, <2>1, Unmoved, UnmovedRows DEF inputs
  <2>3. Passed' = Passed
    BY <2>1, <2>2 DEF Passed
  <2>4. PassedInv'
    BY <1>2, <2>1, <2>2, <2>3 DEF PassedInv
  <2> QED  BY <1>2, <2>1, <2>2, <2>3, <2>4 DEF LoopInv
<1> QED  BY <1>2, <1>4, <1>5, ComputeRecursive, RowStepRecursive, RowsEndRecursive

(* In columns that are returned the targets agree with the expression.     *)
LEMMA Agreement ==
  ASSUME RowAssumption, LimbsAssumption, RowsInv, RecursiveInv
  PROVE  RowsAgree
<1> SUFFICES ASSUME pc = "done", firstErr = NoRow, Founded, NEW i \in Rows
             PROVE  TargetValue(result, i) = Kept(EvalAt(result, i))
  BY DEF RowsAgree, Kept
<1>1. CASE IsRecursive
  <2>1. result = data /\ i \in Passed
    BY <1>1 DEF RecursiveInv, LoopInv
  <2> QED  BY <1>1, <2>1 DEF RecursiveInv, PassedInv
<1>2. CASE ~ IsRecursive
  <2>1. result = Columns(Rows) /\ source[i] # Failure
    BY <1>2 DEF RowsInv, DataInv, IsRecursive
  <2>2. source[i] \in Nat /\ EvalAt(result, i) = source[i]
    <3>1. source[i] \in Nat
      BY <2>1, Dimensions DEF RowsInv
    <3> QED  BY <1>2, <2>1, <3>1 DEF EvalAt
  <2>3. TargetValue(result, i) = Joined([k \in Targets |-> Filled(i, k)])
    <3>1. [k \in Targets |-> result[k][i]] = [k \in Targets |-> Filled(i, k)]
      BY <2>1 DEF Columns
    <3> QED  BY <3>1, TargetRow
  <2>4. CASE source[i] < Limit
    <3>1. [k \in Targets |-> Filled(i, k)] = [k \in Targets |-> Limb(source[i], k)]
      BY <2>4 DEF Filled
    <3> QED  BY <2>2, <2>3, <2>4, <3>1, JoinLimbs DEF Kept
  <2>5. CASE ~(source[i] < Limit)
    <3>1. [k \in Targets |-> Filled(i, k)] = [k \in Targets |-> 0]
      BY <2>5 DEF Filled
    <3> QED  BY <2>2, <2>3, <2>5, <3>1, JoinLimbs DEF Kept
  <2> QED  BY <2>4, <2>5
<1> QED  BY <1>1, <1>2

(* The loop reports its first failure.                                     *)
LEMMA LoopReport ==
  ASSUME RowAssumption, RowsInv, RecursiveInv, IsRecursive
  PROVE  FailureReported /\ ReportedRow
<1>1. PassedInv /\ LoopInv /\ workers = <<>>
  BY DEF RecursiveInv, LoopInv
<1>2. height \in Nat /\ Rows = 0 .. height - 1
  BY Dimensions DEF Rows, RowsInv
<1>3. ASSUME firstErr # NoRow
      PROVE  /\ firstErr \in Rows /\ source[firstErr] = Failure
             /\ \A i \in Rows : source[i] = Failure => IF forward THEN firstErr <= i ELSE firstErr >= i
  <2>1. /\ pc = "done" /\ firstErr = next /\ next \in Rows /\ source[next] = Failure
    BY <1>1, <1>3 DEF LoopInv
  <2>2. \A i \in Rows : (IF forward THEN i < next ELSE i > next) => source[i] # Failure
    BY <1>1, <2>1 DEF PassedInv, Passed
  <2> QED  BY <1>2, <2>1, <2>2
<1>4. ReportedRow
  BY <1>1, <1>3 DEF ReportedRow
<1>5. FailureReported
  <2>1. pc = "done" /\ firstErr = NoRow => \A i \in Rows : source[i] # Failure
    BY <1>1 DEF LoopInv, PassedInv
  <2>2. pc = "done" /\ firstErr # NoRow => result = <<>>
    BY <1>1 DEF LoopInv
  <2> QED  BY <1>3, <2>1, <2>2 DEF FailureReported
<1> QED  BY <1>4, <1>5

(* A computed register is right whatever its expression: computed side by  *)
(* side or one after another, upwards or downwards, the targets hold on    *)
(* every row what the expression evaluates to in the finished columns, no  *)
(* two goroutines share a row, and a failure is reported exactly when a    *)
(* row has one, the first that the loop or the chunk meets.                *)
THEOREM RowsAreRight ==
  ASSUME RowAssumption, LimbsAssumption
  PROVE  Spec => [](/\ RowsAgree /\ RowsFilled /\ FailureReported /\ ReportedRow
                    /\ ChunksDisjoint)
<1>1. Init => RowsInv /\ ReportInv /\ RecursiveInv
  BY RowsInit, RecursiveInit DEF Init, ReportInv, ReportedRow
<1>2. RowsInv /\ [Next]_vars => RowsInv'
  BY RowsKept
<1>3. RowsInv /\ ReportInv /\ [Next]_vars => ReportInv'
  BY ReportKept
<1>4. RowsInv /\ RecursiveInv /\ [Next]_vars => RecursiveInv'
  BY RecursiveKept
<1>5. RowsInv /\ ReportInv /\ RecursiveInv =>
        RowsAgree /\ RowsFilled /\ FailureReported /\ ReportedRow /\ ChunksDisjoint
  BY RowsImplied, Agreement, LoopReport DEF ReportInv, IsRecursive
<1> QED  BY <1>1, <1>2, <1>3, <1>4, <1>5, PTL DEF Spec
=============================================================================
