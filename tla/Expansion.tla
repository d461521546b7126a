------------------------------ MODULE Expansion ------------------------------
(***************************************************************************)
(* TraceExpansion: the Expander picks the assignments that are ready, in   *)
(* batches; ParallelTraceExpansion computes each batch in goroutines that  *)
(* answer on a buffered channel, and fills the trace once the batch is     *)
(* complete; SequentialTraceExpansion computes and fills one at a time.    *)
(***************************************************************************)
EXTENDS ArrayTrace

CONSTANTS
    InitialTraces,  \* the traces expansion starts from
    Orders,         \* the orders in which the schema lists its assignments
    BatchSizes,
    FaultySets      \* the sets of assignments whose Compute may return an error

ASSUME OrdersAssumption ==
    \A o \in Orders : /\ o \in Seq(Assignments)
                      /\ Range(o) = Assignments
                      /\ \A i, j \in DOMAIN o : o[i] = o[j] => i = j

ASSUME BatchAssumption == BatchSizes \subseteq Nat \ {0}

VARIABLES
    conf,       \* [parallel, size, faulty]: fixed by the caller and the data
    pc,         \* of the expanding thread
    worklist,   \* assignments not yet taken
    notReady,   \* registers whose assignment is not yet taken
    scan,       \* [i, m, n]: the indices of the scan of the worklist
    batch,      \* assignments of the current batch
    job,        \* per assignment: what its goroutine is doing
    result,     \* per assignment: what its goroutine computed
    ch,         \* the channel: assignments that have answered, in order
    got,        \* answers collected and not yet filled
    tr,         \* the trace
    runs        \* history: how often each assignment was computed

vars == <<conf, pc, worklist, notReady, scan, batch, job, result, ch, got, tr, runs>>

Expander == <<worklist, notReady, scan, batch>>
Goroutines == <<job, result, ch>>

NoResult == [cols |-> <<>>, err |-> FALSE]

-----------------------------------------------------------------------------
(* The Expander.                                                           *)

NewExpander(order) ==
    /\ worklist = order
    /\ notReady = UNION {RegistersWritten(a) : a \in Range(order)}
    /\ scan = [i |-> 1, m |-> Len(order), n |-> 0]
    /\ batch = <<>>

IsExpandedBy(r, a) == r \in RegistersExpanded(a)

(* Faulty isReady: registers the assignment itself expands block it.       *)
IsReadyStrict(a) == RegistersRead(a) \cap notReady = {}

IsReady(a) == \A r \in RegistersRead(a) : r \in notReady => IsExpandedBy(r, a)

(* Expander.Next, entered.                                                 *)
NextStart ==
    /\ pc = "loop"
    /\ worklist # <<>>
    /\ pc' = "scan"
    /\ scan' = [i |-> 1, m |-> Len(worklist), n |-> IF conf.parallel THEN conf.size ELSE 1]
    /\ batch' = <<>>
    /\ UNCHANGED <<conf, worklist, notReady, Goroutines, got, tr, runs>>

Scanning == pc = "scan" /\ scan.i <= scan.m /\ scan.n > 0

(* Faulty Next: the taken entry is not replaced in the worklist.           *)
NextTakeNoSwap ==
    /\ Scanning
    /\ IsReady(worklist[scan.i])
    /\ batch' = Append(batch, worklist[scan.i])
    /\ scan' = [scan EXCEPT !.m = @ - 1, !.n = @ - 1]
    /\ UNCHANGED <<conf, pc, worklist, notReady, Goroutines, got, tr, runs>>

(* Faulty Next: registers become ready when taken, not after the batch.    *)
NextTakeMarks ==
    /\ Scanning
    /\ IsReady(worklist[scan.i])
    /\ batch' = Append(batch, worklist[scan.i])
    /\ worklist' = [worklist EXCEPT ![scan.i] = worklist[scan.m]]
    /\ scan' = [scan EXCEPT !.m = @ - 1, !.n = @ - 1]
    /\ notReady' = notReady \ RegistersWritten(worklist[scan.i])
    /\ UNCHANGED <<conf, pc, Goroutines, got, tr, runs>>

(* A ready assignment joins the batch; the last of the scanned prefix      *)
(* takes its place, and is examined next.                                  *)
NextTake ==
    /\ Scanning
    /\ IsReady(worklist[scan.i])
    /\ batch' = Append(batch, worklist[scan.i])
    /\ worklist' = [worklist EXCEPT ![scan.i] = worklist[scan.m]]
    /\ scan' = [scan EXCEPT !.m = @ - 1, !.n = @ - 1]
    /\ UNCHANGED <<conf, pc, notReady, Goroutines, got, tr, runs>>

NextSkip ==
    /\ Scanning
    /\ ~IsReady(worklist[scan.i])
    /\ scan' = [scan EXCEPT !.i = @ + 1]
    /\ UNCHANGED <<conf, pc, worklist, notReady, batch, Goroutines, got, tr, runs>>

(* The scan is over.  An empty batch is a panic: no assignment can go.     *)
NextReturn ==
    /\ pc = "scan"
    /\ ~Scanning
    /\ worklist' = SubSeq(worklist, 1, scan.m)
    /\ notReady' = notReady \ UNION {RegistersWritten(a) : a \in Range(batch)}
    /\ pc' = CASE batch = <<>> -> "panic"
               [] batch # <<>> /\ conf.parallel -> "dispatch"
               [] OTHER -> "compute"
    /\ UNCHANGED <<conf, scan, batch, Goroutines, got, tr, runs>>

-----------------------------------------------------------------------------
(* ParallelTraceExpansion.                                                 *)

ChannelCapacity == conf.size

Dispatch ==
    /\ pc = "dispatch"
    /\ job' = [a \in Assignments |-> IF a \in Range(batch) THEN "computing" ELSE job[a]]
    /\ pc' = "collect"
    /\ UNCHANGED <<conf, Expander, result, ch, got, tr, runs>>

(* The goroutine of a computes its columns.  A panic ends the program.     *)
JobCompute(a) ==
    /\ job[a] = "computing"
    /\ runs' = [runs EXCEPT ![a] = @ + 1]
    /\ IF a \notin conf.faulty /\ Panics(tr, a)
       THEN pc' = "panic" /\ UNCHANGED <<job, result>>
       ELSE /\ job' = [job EXCEPT ![a] = "sending"]
            /\ result' = [result EXCEPT ![a] =
                             IF a \in conf.faulty THEN [NoResult EXCEPT !.err = TRUE]
                             ELSE [cols |-> Compute(tr, a), err |-> FALSE]]
            /\ UNCHANGED pc
    /\ UNCHANGED <<conf, Expander, ch, got, tr>>

JobSend(a) ==
    /\ job[a] = "sending"
    /\ Len(ch) < ChannelCapacity
    /\ ch' = Append(ch, a)
    /\ job' = [job EXCEPT ![a] = "ended"]
    /\ UNCHANGED <<conf, pc, Expander, result, got, tr, runs>>

(* Faulty collection: stops one answer short of the batch.                 *)
CollectHasty ==
    /\ pc = "collect"
    /\ ch # <<>>
    /\ ch' = Tail(ch)
    /\ IF result[Head(ch)].err
       THEN pc' = "failed" /\ UNCHANGED got
       ELSE /\ got' = Append(got, Head(ch))
            /\ pc' = IF Len(got') + 1 >= Len(batch) THEN "fill" ELSE "collect"
    /\ UNCHANGED <<conf, Expander, job, result, tr, runs>>

(* The first error is returned at once, whoever is still computing.        *)
Collect ==
    /\ pc = "collect"
    /\ ch # <<>>
    /\ ch' = Tail(ch)
    /\ IF result[Head(ch)].err
       THEN pc' = "failed" /\ UNCHANGED got
       ELSE /\ got' = Append(got, Head(ch))
            /\ pc' = IF Len(got') = Len(batch) THEN "fill" ELSE "collect"
    /\ UNCHANGED <<conf, Expander, job, result, tr, runs>>

(* The columns of one answer, in the order the answers came.               *)
Fill ==
    /\ pc = "fill"
    /\ got # <<>>
    /\ LET filled == FillComputedColumns(tr, Head(got), result[Head(got)].cols)
       IN  IF filled.ok THEN tr' = filled.t /\ UNCHANGED pc
                        ELSE pc' = "panic" /\ UNCHANGED tr
    /\ got' = Tail(got)
    /\ UNCHANGED <<conf, Expander, Goroutines, runs>>

FillEnd ==
    /\ pc = "fill"
    /\ got = <<>>
    /\ pc' = "loop"
    /\ batch' = <<>>
    /\ UNCHANGED <<conf, worklist, notReady, scan, Goroutines, got, tr, runs>>

-----------------------------------------------------------------------------
(* SequentialTraceExpansion: compute and fill the one assignment.          *)
ComputeOne ==
    /\ pc = "compute"
    /\ LET a == batch[1]
           filled == FillComputedColumns(tr, a, Compute(tr, a))
       IN  /\ runs' = [runs EXCEPT ![a] = @ + 1]
           /\ \/ a \in conf.faulty /\ pc' = "failed" /\ UNCHANGED <<tr, batch>>
              \/ a \notin conf.faulty /\ Panics(tr, a) /\ pc' = "panic" /\ UNCHANGED <<tr, batch>>
              \/ /\ a \notin conf.faulty /\ ~Panics(tr, a)
                 /\ IF filled.ok THEN tr' = filled.t /\ pc' = "loop" /\ batch' = <<>>
                                 ELSE pc' = "panic" /\ UNCHANGED <<tr, batch>>
    /\ UNCHANGED <<conf, worklist, notReady, scan, Goroutines, got>>

Finish ==
    /\ pc = "loop"
    /\ worklist = <<>>
    /\ pc' = "done"
    /\ UNCHANGED <<conf, Expander, Goroutines, got, tr, runs>>

-----------------------------------------------------------------------------
Main ==
    \/ NextStart \/ NextTake \/ NextSkip \/ NextReturn
    \/ Dispatch \/ Collect \/ Fill \/ FillEnd
    \/ ComputeOne \/ Finish

Goroutine(a) == pc # "panic" /\ (JobCompute(a) \/ JobSend(a))

Next == Main \/ \E a \in Assignments : Goroutine(a)

Init ==
    /\ \E size \in BatchSizes, parallel \in BOOLEAN, faulty \in FaultySets :
          conf = [parallel |-> parallel, size |-> size, faulty |-> faulty]
    /\ \E order \in Orders : NewExpander(order)
    /\ pc = "loop"
    /\ job = [a \in Assignments |-> "none"]
    /\ result = [a \in Assignments |-> NoResult]
    /\ ch = <<>>
    /\ got = <<>>
    /\ tr \in InitialTraces
    /\ runs = [a \in Assignments |-> 0]

Spec == Init /\ [][Next]_vars

(* The scheduler runs every thread that can go on.                         *)
FairSpec == Spec /\ WF_vars(Main) /\ \A a \in Assignments : WF_vars(Goroutine(a))

-----------------------------------------------------------------------------
(* Properties.                                                             *)

Live == {a \in Assignments : job[a] \in {"computing", "sending"}}

(* Assignments of the batch whose columns are not in the trace yet.        *)
Unfilled == IF pc = "fill" THEN Range(got) ELSE Range(batch)

(* Assignments still to be taken: during a scan, only those of the prefix. *)
Untaken == IF pc = "scan" THEN {worklist[i] : i \in 1..scan.m} ELSE Range(worklist)

FilledIn == Assignments \ (Unfilled \cup Untaken)

(* The state of the expansion is well typed.                               *)
TypeOK ==
    /\ conf \in [parallel : BOOLEAN, size : BatchSizes, faulty : FaultySets]
    /\ pc \in {"loop", "scan", "dispatch", "collect", "fill", "compute",
               "done", "failed", "panic"}
    /\ worklist \in Seq(Assignments)
    /\ notReady \subseteq Registers
    /\ scan \in [i : Nat \ {0}, m : 0..Len(worklist), n : Nat]
    /\ batch \in Seq(Assignments)
    /\ job \in [Assignments -> {"none", "computing", "sending", "ended"}]
    /\ \A a \in Assignments :
          result[a].err \in BOOLEAN /\ result[a].cols \in Seq(Seq(Int))
    /\ ch \in Seq(Assignments)
    /\ got \in Seq(Assignments)
    /\ \A r \in Registers : tr.data[r] = NoData \/ tr.data[r] \in Seq(Int)
    /\ tr.height \in [Modules -> Nat]
    /\ runs \in [Assignments -> Nat]

(* "Each assignment will only be run exactly once" (Expander): none is     *)
(* lost or doubled by the swapping scan, whatever the batch size.          *)
ExactlyOnce ==
    /\ \A a \in Assignments : runs[a] <= 1
    /\ pc = "done" => \A a \in Assignments : runs[a] = 1

(* An assignment computes only once everything it reads, and does not      *)
(* itself expand, has been filled by the assignment that writes it: being  *)
(* in an earlier place of the same batch is not enough.                    *)
InputsFinal ==
    \A a \in Live \cup (IF pc = "compute" THEN Range(batch) ELSE {}) :
        \A r \in RegistersRead(a) \ RegistersExpanded(a) :
            \A b \in Assignments : r \in RegistersWritten(b) => b \in FilledIn

(* Columns are filled without locks: no goroutine is computing meanwhile.  *)
QuietFill == pc \in {"loop", "scan", "dispatch", "fill"} => Live = {}

(* The expansion of a sound schema ends, and without a panic; and no       *)
(* goroutine is left blocked on the channel, even when the expansion       *)
(* returned on the error of another.                                       *)
Terminates == <>(pc \in {"done", "failed"}) /\ []<>(Live = {})

(* The schemas that the compilers produce.  A function reads and writes    *)
(* the registers of its own module, which has none but those and columns   *)
(* computed from them; no assignment needs, however indirectly, what it    *)
(* computes itself.                                                        *)
Needs(a) == RegistersRead(a) \ RegistersExpanded(a)

FunctionSound(f) ==
    /\ Len(Writes[f]) = 3 /\ IsInjective(Writes[f])
    /\ \A r \in RegistersWritten(f) : ModuleOf[r] = ModuleOf[ArgumentOf(f)]
    /\ Needs(f) = {}
    /\ Callee[f] \in FunctionAssignments \cup {None}
    /\ Multiplier[ModuleOf[ArgumentOf(f)]] = 1
    /\ \A r \in Registers \ RegistersWritten(f) :
          ModuleOf[r] = ModuleOf[ArgumentOf(f)] =>
              \E a \in Assignments \ FunctionAssignments :
                  r \in RegistersWritten(a) /\ Needs(a) \cap RegistersWritten(f) # {}

SoundSchema ==
    /\ \A f \in FunctionAssignments : FunctionSound(f)
    /\ \A a \in Assignments \ FunctionAssignments : Len(Writes[a]) = 1 /\ RegistersExpanded(a) = {}
    /\ None \notin FunctionAssignments
    /\ \A S \in SUBSET Assignments : S # {} =>
          \E a \in S : \A b \in S : Needs(a) \cap RegistersWritten(b) = {}

(* The traces that alignment and propagation produce: columns as long as   *)
(* their module, none for a computed register, and for every function its  *)
(* instances, in order, with the results that running it gives.            *)
InstancesSound(t, f) ==
    LET args == t.data[ArgumentOf(f)]
        results == t.data[ResultOf(f)]
    IN  /\ args \in Seq(Int) /\ results \in Seq(Int)
        /\ \A i, j \in DOMAIN args : i < j => args[i] < args[j]
        /\ \A i \in DOMAIN args : Steps(f, args[i]) \in Nat \ {0}
        /\ ~FunctionPanics(t, f)

Column(c, height) == c \in Seq(Range(c)) /\ Len(c) = height

SoundTrace(t) ==
    /\ t.height \in [Modules -> Nat]
    /\ \A r \in Registers :
          IF t.data[r] = NoData THEN \E a \in Assignments : r \in RegistersWritten(a)
          ELSE Column(t.data[r], t.height[ModuleOf[r]])
    /\ \A a \in Assignments \ FunctionAssignments : \A r \in RegistersWritten(a) : t.data[r] = NoData
    /\ \A f \in FunctionAssignments :
          t.data[ArgumentOf(f)] # NoData /\ t.data[ResultOf(f)] # NoData /\ InstancesSound(t, f)

(* A column is a sequence, and NoData is none.                             *)
NoDataAssumption == \A S : NoData \notin Seq(S)

Serial == INSTANCE SerialExpansion WITH
    done <- FilledIn,
    faulty <- conf.faulty,
    outcome <- IF pc \in {"done", "failed", "panic"} THEN pc ELSE "running"

(* In parallel or not, whatever the order of the answers, the trace evolves*)
(* as if the assignments had run one after the other, each computing on    *)
(* the trace it then changes; in particular functions may look up their    *)
(* callees' results before or after the callees were expanded.             *)
Serialised == Serial!Spec

=============================================================================
