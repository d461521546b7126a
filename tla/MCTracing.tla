------------------------------ MODULE MCTracing ------------------------------
(***************************************************************************)
(* Four stations of a trace on its way from a file to a verdict: its heap, *)
(* the propagation of function instances, the computation of a column and  *)
(* the check of the constraints.  A behaviour is one of some station on    *)
(* its own: they hand on finished data and share no state.                 *)
(***************************************************************************)
EXTENDS ConstraintCheck, SequencesExt

CONSTANTS Traces         \* the traces to propagate

VARIABLES
    part,                      \* the station; those of the check are its own
    h, cells, narrow, room, file, want,
    source, shift, compiled, forward, flag, data, workers, firstErr, result,
    rowsPc, rowsNext,
    trace, cache, seeds, at, arg, stack, seedErrors

ofHeap == <<h, cells, narrow, room, file, want>>
ofRows == <<source, shift, compiled, forward, flag, data, workers, firstErr, result,
            rowsPc, rowsNext>>
ofCache == <<trace, cache, seeds, at, arg, stack, seedErrors>>
allVars == <<part, ofHeap, ofRows, ofCache, vars>>

-----------------------------------------------------------------------------
(* The heap: five words, which with the zero word overload the initial     *)
(* table; one is long enough to need both bytes of a length.               *)

HeapWords == {<<>>, <<1>>, <<2>>, <<1, 2>>, <<2, 1, 1>>}
HeapHash(w) == FoldLeft(LAMBDA acc, c : (3 * (acc + c)) % 11, 7, w)

H == INSTANCE TraceHeap WITH
    Words <- HeapWords, Hash <- HeapHash, Narrow <- <<7, 8>>,
    InitBuckets <- 5, Loading <- 3, Percent <- 4, ByteBase <- 2, MaxCells <- 4

-----------------------------------------------------------------------------
(* The computation of a column: two targets of three bits together, which  *)
(* the value 9 does not fit.  Four processors divide five rows into chunks *)
(* of two, so that one goroutine starts past the last row.                 *)

R == INSTANCE RowComputation WITH
    MaxHeight <- 5, Values <- {3, 9}, Widths <- <<1, 2>>, MinParallelHeight <- 3,
    MinRowsPerWorker <- 1, Processors <- 4, WorkerFlags <- {0, 2},
    pc <- rowsPc, next <- rowsNext

-----------------------------------------------------------------------------
(* Propagation by two threads: f calls itself on a smaller argument and g; *)
(* g has two inputs; h fails on 0.                                         *)

In(bus, addr, lines) == [op |-> "in", bus |-> bus, addr |-> addr, data |-> lines]
Add(dst, src, by, mod) == [op |-> "add", dst |-> dst, src |-> src, by |-> by, mod |-> mod]
Jz(src, to) == [op |-> "jz", src |-> src, to |-> to]
Ret == [op |-> "ret"]
Fail == [op |-> "fail"]

MCProgram ==
    <<[ins |-> 1, outs |-> 1, pad |-> <<0, 0>>, internals |-> <<0, 1>>,
       code |-> <<Jz(1, 6), Add(3, 1, 3, 4), In(1, <<3>>, <<2>>), In(2, <<2, 4>>, <<2>>), Ret, Ret>>],
      [ins |-> 2, outs |-> 1, pad |-> <<0, 1, 1>>, internals |-> <<0>>,
       code |-> <<Add(3, 1, 1, 4), Jz(2, 4), Ret, In(3, <<2>>, <<4>>), Add(3, 4, 0, 2), Ret>>],
      [ins |-> 1, outs |-> 1, pad |-> <<1, 1>>, internals |-> <<>>,
       code |-> <<Jz(1, 4), Add(2, 1, 0, 2), Ret, Fail>>]>>

NoRows == <<<<>>, <<>>, <<>>>>
Extern(g, rows) == [callee |-> g, rows |-> rows]
On(inst) == [enabled |-> TRUE, inst |-> inst]
Off(inst) == [enabled |-> FALSE, inst |-> inst]

MCTraces ==
    {[rows |-> [NoRows EXCEPT ![1] = <<<<2, 2>>>>], externs |-> <<>>],
     [rows |-> [NoRows EXCEPT ![1] = <<<<1, 1>>, <<2, 3>>>>], externs |-> <<>>],
     [rows |-> [NoRows EXCEPT ![2] = <<<<1, 0, 0>>, <<0, 1, 1>>>>],
      externs |-> <<Extern(3, <<On(<<0, 0>>), Off(<<1, 0>>)>>), Extern(1, <<On(<<1, 1>>)>>)>>],
     [rows |-> NoRows, externs |-> <<Extern(2, <<On(<<2, 0, 0>>), On(<<0, 0, 1>>)>>)>>]}

Threads == {"a", "b"}
F == INSTANCE FunctionCache WITH Program <- MCProgram, errors <- seedErrors

(* The reference: what a function computes, without a cache, and the calls *)
(* it makes on the way.                                                    *)
RECURSIVE Run(_, _, _)
Run(f, at0, regs) ==
    LET insn == MCProgram[f].code[at0]
    IN  CASE insn.op \in {"ret", "fail"} ->
                [inst |-> SubSeq(regs, 1, MCProgram[f].ins + MCProgram[f].outs), calls |-> {}]
          [] insn.op = "in" ->
                LET key == F!Load(regs, insn.addr)
                    callee == Run(insn.bus, 1, F!InitialRegisters(insn.bus, key))
                    rest == Run(f, at0 + 1, F!StoreN(regs, insn.data, F!Outputs(insn.bus, callee.inst)))
                IN  [rest EXCEPT !.calls = @ \cup {<<insn.bus, key>>}]
          [] OTHER ->
                LET after == F!Compute([fn |-> f, pc |-> at0, regs |-> regs], insn)
                IN  Run(f, after.pc, after.regs)

RefCall(f, key) == Run(f, 1, F!InitialRegisters(f, key))

-----------------------------------------------------------------------------
ASSUME StationAssumptions ==
    /\ H!ByteBaseAssumption /\ H!WidthAssumption /\ H!NarrowAssumption
    /\ R!RowAssumption /\ R!LimbsAssumption /\ F!ProgramAssumption /\ F!SeedsAssumption

Idle == "idle"

NoHeap == /\ h = Idle /\ cells = Idle /\ narrow = Idle /\ room = Idle /\ file = Idle
          /\ want = Idle
NoComputation == /\ source = Idle /\ shift = Idle /\ compiled = Idle /\ forward = Idle
                 /\ flag = Idle /\ data = Idle /\ workers = Idle /\ firstErr = Idle
                 /\ result = Idle /\ rowsPc = Idle /\ rowsNext = Idle
NoPropagation == /\ trace = Idle /\ cache = Idle /\ seeds = Idle /\ at = Idle /\ arg = Idle
                 /\ stack = Idle /\ seedErrors = Idle
NoCheck == /\ verdict = Idle /\ parallel = Idle /\ launched = Idle /\ received = Idle
           /\ running = Idle /\ recovering = Idle /\ channel = Idle
           /\ pc = Idle /\ next = Idle /\ errors = Idle

MCInit ==
    \/ part = "heap" /\ H!Init /\ NoComputation /\ NoPropagation /\ NoCheck
    \/ part = "cache" /\ F!Init /\ NoHeap /\ NoComputation /\ NoCheck
    \/ part = "rows" /\ R!Init /\ NoHeap /\ NoPropagation /\ NoCheck
    \/ part = "check" /\ Init /\ NoHeap /\ NoComputation /\ NoPropagation

MCNext ==
    \/ part = "heap" /\ H!Next /\ UNCHANGED <<part, ofRows, ofCache, vars>>
    \/ part = "cache" /\ F!Next /\ UNCHANGED <<part, ofHeap, ofRows, vars>>
    \/ part = "rows" /\ R!Next /\ UNCHANGED <<part, ofHeap, ofCache, vars>>
    \/ part = "check" /\ Next /\ UNCHANGED <<part, ofHeap, ofRows, ofCache>>

(* The scheduler of Go runs what can run: see the stations.                *)
MCFairness ==
    /\ WF_(R!vars)(part = "rows" /\ R!Caller)
    /\ \A w \in 1..4 : WF_(R!vars)(part = "rows" /\ R!Goroutine(w))
    /\ \A t \in Threads : WF_(F!vars)(part = "cache" /\ F!Thread(t))
    /\ WF_vars(part = "check" /\ Checker)
    /\ \A c \in Constraints : WF_vars(part = "check" /\ Goroutine(c))

MCSpec == MCInit /\ [][MCNext]_allVars /\ MCFairness

-----------------------------------------------------------------------------
(* Properties.                                                             *)

(* A trace heap that is filled, written, read back and propagated in any   *)
(* order gives back every cell, keeps one index per word and never         *)
(* disturbs the column that shares the buffer of the file.                 *)
HeapKept == part = "heap" => H!HeapKept

(* The goroutines that compute a column share no row, leave none out, and  *)
(* report a failure exactly when a row has one.                            *)
RowsComputed ==
    part = "rows" =>
        /\ R!RowsAgree /\ R!RowsFilled /\ R!FailureReported /\ R!ReportedRow
        /\ R!ChunksDisjoint

(* Every recorded instance is the one the function computes, whichever     *)
(* thread computed it and with whichever other instances at hand; each is  *)
(* recorded once, in order, with the calls it makes, so that FindLast      *)
(* succeeds when the trace is expanded.  A thread that is through has      *)
(* recorded every instance of its trace, the padding instances included,   *)
(* and has reported exactly those whose outputs are not the function's.    *)
InstancesSound ==
    part = "cache" =>
        /\ F!TypeOK /\ F!InstancesListed
        /\ \A f \in F!Functions : \A inst \in Range(cache[f]) :
              LET ref == RefCall(f, F!Inputs(f, inst))
              IN  /\ ref.inst = inst
                  /\ \A c \in ref.calls :
                        LET row == F!FindLast(c[1], cache[c[1]], c[2])
                        IN  row # 0 /\ F!Inputs(c[1], cache[c[1]][row]) = c[2]
        /\ \A t \in Threads : seeds[t] = <<>> =>
              seedErrors[t] = {s \in Range(F!SeedsOf(trace[t])) :
                                  RefCall(s[1], F!Inputs(s[1], s[2])).inst # s[2]}

(* Every computation, propagation and check ends: nobody waits for a       *)
(* goroutine that has nothing to send.                                     *)
Ends ==
    <>(\/ part = "heap"
       \/ part = "rows" /\ rowsPc = "done"
       \/ part = "cache" /\ \A t \in Threads : seeds[t] = <<>>
       \/ part = "check" /\ pc \in {"done", "crashed"})
=============================================================================
