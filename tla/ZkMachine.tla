------------------------------ MODULE ZkMachine ------------------------------
(***************************************************************************)
(* The zkc word machine: functions made of vectors of micro-instructions,  *)
(* a call stack, memories, and the host that boots it and executes it,     *)
(* with or without the observer that extracts a trace.                     *)
(*                                                                         *)
(* Positions count from 1.  A micro-instruction is a record whose field op *)
(* is "call" (fn, args, returns), "fail", "jump" (to), "return", "read"    *)
(* and "write" (mem, at, reg), "skip" (by), "skipif" (left, right, by) or  *)
(* "add" (to, from, by), which stands for the straight-line instructions   *)
(* of the executor: it computes on registers and may fail, by overflow.    *)
(***************************************************************************)
EXTENDS Integers, Sequences, FiniteSets, SequencesExt

CONSTANTS
    Functions, Main,
    Programs,       \* each: [Functions -> Seq of vectors of micro-instructions]
    Registers,      \* registers per function: a number
    Roms, Statics, Rams, Woms,  \* the memories
    StaticData,     \* contents of the static memories
    Inputs,         \* set of [Roms -> Seq(Words)]
    MaxWord,        \* registers hold 0..MaxWord
    MaxSteps,       \* bound: steps executed after one Boot
    MaxBoots,       \* bound: times the machine is booted
    RebootAfterFailure

Memories == Roms \cup Statics \cup Rams \cup Woms

MemoriesAssumption ==
    \A m \in Memories : Cardinality({K \in {Roms, Statics, Rams, Woms} : m \in K}) = 1
MainAssumption == Main \in Functions
BoundsAssumption ==
    {MaxWord, MaxSteps, MaxBoots, Registers} \subseteq Nat /\ RebootAfterFailure \in BOOLEAN

VARIABLES
    prog,       \* the program, chosen once
    callstack,  \* frames, the root first
    memory,     \* per memory: its words
    status,     \* of the execution the host last asked for
    observed,   \* whether that execution is being observed
    obs,        \* the observer: [stack, trace]
    steps, boots,
    input,      \* history: what the machine was booted with
    bundles     \* history: per function, the bundles it executed, in the
                \*   order of the invocations that completed them

machine == <<callstack, memory>>
vars == <<prog, callstack, memory, status, observed, obs, steps, boots, input, bundles>>

Words == 0..MaxWord

-----------------------------------------------------------------------------
(* Frames and program counters.                                            *)

(* rows and boot are history: the bundles this invocation has completed,   *)
(* and the Boot under which it was entered.                                *)
NewFrame(f, args, returns, boot) ==
    [fn |-> f, macro |-> 1, micro |-> 1,
     regs |-> [r \in 1..Registers |-> IF r <= Len(args) THEN args[r] ELSE 0],
     args |-> Len(args), returns |-> returns, rows |-> <<>>, boot |-> boot]

Frame == callstack[Len(callstack)]
Vector(f) == prog[f.fn][f.macro]
Insn == Vector(Frame)[Frame.micro]
Width(f) == Len(Vector(f))

Row(f, terminal) == [pc |-> f.macro, terminal |-> terminal, regs |-> f.regs]

(* A faulty one that stays in the vector when it skips to its end.         *)
NextPcAtEnd(f, n, width) ==
    IF f.micro + n <= width THEN [f EXCEPT !.micro = @ + n + 1]
    ELSE [f EXCEPT !.macro = @ + 1, !.micro = 1, !.rows = Append(@, Row(f, FALSE))]

(* The frame after skipping n micro-instructions and the current one: past *)
(* the end of the vector lies the start of the next.                       *)
NextPc(f, n, width) ==
    IF f.micro + n < width THEN [f EXCEPT !.micro = @ + n + 1]
    ELSE [f EXCEPT !.macro = @ + 1, !.micro = 1, !.rows = Append(@, Row(f, FALSE))]

SetTop(f) == callstack' = [callstack EXCEPT ![Len(callstack)] = f]

Advance(f) == SetTop(NextPc(f, 0, Width(f)))

-----------------------------------------------------------------------------
(* Memories.                                                               *)

(* Boot resets every memory to what the caller gives, or to nothing; only  *)
(* static memories keep their contents.                                    *)
Initialise(in) ==
    memory' = [m \in Memories |-> CASE m \in Roms -> in[m]
                                    [] m \in Statics -> memory[m]
                                    [] OTHER -> <<>>]

InBounds(m, at) == at < Len(memory[m])

(* Random access memory reads as zero where it was never written.          *)
ReadWord(m, at) == IF InBounds(m, at) THEN memory[m][at + 1] ELSE 0

Expand(s, n) == [i \in 1..(IF n > Len(s) THEN n ELSE Len(s)) |-> IF i <= Len(s) THEN s[i] ELSE 0]

WriteWord(m, at, w) == memory' = [memory EXCEPT ![m] = [Expand(@, at + 1) EXCEPT ![at + 1] = w]]

-----------------------------------------------------------------------------
(* The observer.                                                           *)

IsTerminal(insn) == insn.op \in {"jump", "return", "fail"}
Ends(insn) == insn.op \in {"return", "fail"}

NewObserver == [stack |-> <<>>, trace |-> [f \in Functions |-> <<>>]]

(* PreExecution: follow the machine into or out of a function, or else     *)
(* record a row when a vector is about to end.                             *)
PreExecution ==
    LET n == Len(obs.stack)
    IN  CASE Len(callstack) > n ->
               [obs EXCEPT !.stack = Append(@, [fn |-> callstack[n + 1].fn, rows |-> <<>>])]
          [] Len(callstack) < n ->
               [obs EXCEPT !.stack = Front(@),
                           !.trace[obs.stack[n].fn] = @ \o obs.stack[n].rows]
          [] Len(callstack) = n /\ n > 0 /\ IsTerminal(Insn) ->
               [obs EXCEPT !.stack[n].rows = Append(@, Row(Frame, Ends(Insn)))]
          [] OTHER -> obs

(* "incorrect machine depth": the observer panics when it is out of step.  *)
ObserverPanics == observed /\ Len(PreExecution.stack) # Len(callstack)

Observe == obs' = IF observed THEN PreExecution ELSE obs

-----------------------------------------------------------------------------
(* The micro-instructions.  A step observes, then executes; nothing more   *)
(* happens once the observer has panicked.                                 *)

Executing(op) ==
    /\ status = "running"
    /\ callstack # <<>>
    /\ steps < MaxSteps
    /\ ~ObserverPanics
    /\ Insn.op = op

Stepped ==
    /\ Observe
    /\ steps' = steps + 1
    /\ UNCHANGED <<prog, status, observed, boots, input>>

Failed ==
    /\ Observe
    /\ status' = "failed"
    /\ UNCHANGED <<prog, observed, boots, input, steps, bundles, machine>>

(* The callee's frame gets the arguments; the caller stays at the call.    *)
Call ==
    /\ Executing("call")
    /\ callstack' = Append(callstack, NewFrame(Insn.fn,
                        [i \in DOMAIN Insn.args |-> Frame.regs[Insn.args[i]]],
                        Insn.returns, boots))
    /\ Stepped
    /\ UNCHANGED <<memory, bundles>>

Fail ==
    /\ Executing("fail")
    /\ Failed

Jump ==
    /\ Executing("jump")
    /\ SetTop([Frame EXCEPT !.macro = Insn.to, !.micro = 1,
                            !.rows = Append(@, Row(Frame, FALSE))])
    /\ Stepped
    /\ UNCHANGED <<memory, bundles>>

(* What the caller's frame is once the callee's results are in it.         *)
Resumed ==
    LET caller == callstack[Len(callstack) - 1]
        Result(r) == LET i == CHOOSE j \in DOMAIN Frame.returns : Frame.returns[j] = r
                     IN  Frame.regs[Frame.args + i]
    IN  [caller EXCEPT !.regs = [r \in DOMAIN @ |-> IF r \in Range(Frame.returns)
                                                    THEN Result(r) ELSE @[r]]]

(* The width is that of the caller's vector: decoded again.                *)
CallerWidth == Width(callstack[Len(callstack) - 1])

(* Leave; unless it was the last frame, the caller moves past its call.    *)
Return ==
    /\ Executing("return")
    /\ callstack' = IF Len(callstack) = 1 THEN <<>>
                    ELSE Append(SubSeq(callstack, 1, Len(callstack) - 2),
                                NextPc(Resumed, 0, CallerWidth))
    /\ bundles' = [bundles EXCEPT ![Frame.fn] = @ \o Append(Frame.rows, Row(Frame, TRUE))]
    /\ Stepped
    /\ UNCHANGED memory

MemRead ==
    /\ Executing("read")
    /\ Insn.mem \in Rams \/ InBounds(Insn.mem, Frame.regs[Insn.at])
    /\ Advance([Frame EXCEPT !.regs[Insn.reg] = ReadWord(Insn.mem, Frame.regs[Insn.at])])
    /\ Stepped
    /\ UNCHANGED <<memory, bundles>>

(* Reading past the end of an array is a panic of the host program.        *)
MemReadPanics ==
    /\ Executing("read")
    /\ Insn.mem \notin Rams /\ ~InBounds(Insn.mem, Frame.regs[Insn.at])
    /\ Observe
    /\ status' = "panicked"
    /\ UNCHANGED <<prog, observed, boots, input, steps, bundles, machine>>

MemWrite ==
    /\ Executing("write")
    /\ WriteWord(Insn.mem, Frame.regs[Insn.at], Frame.regs[Insn.reg])
    /\ Advance(Frame)
    /\ Stepped
    /\ UNCHANGED bundles

Skip ==
    /\ Executing("skip")
    /\ SetTop(NextPc(Frame, Insn.by, Width(Frame)))
    /\ Stepped
    /\ UNCHANGED <<memory, bundles>>

SkipIf ==
    /\ Executing("skipif")
    /\ LET taken == Frame.regs[Insn.left] # Frame.regs[Insn.right]
       IN  SetTop(NextPc(Frame, IF taken THEN Insn.by ELSE 0, Width(Frame)))
    /\ Stepped
    /\ UNCHANGED <<memory, bundles>>

Add ==
    /\ Executing("add")
    /\ Frame.regs[Insn.from] + Insn.by <= MaxWord
    /\ Advance([Frame EXCEPT !.regs[Insn.to] = Frame.regs[Insn.from] + Insn.by])
    /\ Stepped
    /\ UNCHANGED <<memory, bundles>>

AddOverflows ==
    /\ Executing("add")
    /\ Frame.regs[Insn.from] + Insn.by > MaxWord
    /\ Failed

-----------------------------------------------------------------------------
(* The host.                                                               *)

(* Boot resets the memories and pushes the frame of the main function.     *)
Boot ==
    /\ status \in {"idle", "halted"} \cup (IF RebootAfterFailure THEN {"failed"} ELSE {})
    /\ boots < MaxBoots
    /\ boots' = boots + 1
    /\ input' \in Inputs
    /\ Initialise(input')
    /\ callstack' = Append(callstack, NewFrame(Main, <<>>, <<>>, boots'))
    /\ status' = "running"
    /\ observed' \in BOOLEAN
    /\ obs' = NewObserver
    /\ steps' = 0
    /\ bundles' = [f \in Functions |-> <<>>]
    /\ UNCHANGED prog

(* ExecuteAll and ExecuteAndObserve return once Execute has nothing to do. *)
Halt ==
    /\ status = "running"
    /\ callstack = <<>>
    /\ ~ObserverPanics
    /\ Observe
    /\ status' = "halted"
    /\ UNCHANGED <<prog, machine, observed, boots, input, steps, bundles>>

Next ==
    \/ Call \/ Fail \/ Jump \/ Return \/ MemRead \/ MemReadPanics \/ MemWrite
    \/ Skip \/ SkipIf \/ Add \/ AddOverflows
    \/ Boot \/ Halt

Init ==
    /\ prog \in Programs
    /\ callstack = <<>>
    /\ memory = [m \in Memories |-> IF m \in Statics THEN StaticData[m] ELSE <<>>]
    /\ status = "idle"
    /\ observed = FALSE
    /\ obs = NewObserver
    /\ steps = 0
    /\ boots = 0
    /\ input \in Inputs
    /\ bundles = [f \in Functions |-> <<>>]

Spec == Init /\ [][Next]_vars

-----------------------------------------------------------------------------
(* Properties.                                                             *)

(* The machine, its host and its observer are well typed; in particular    *)
(* every frame is at a micro-instruction that exists.                      *)
TypeOK ==
    /\ status \in {"idle", "running", "halted", "failed", "panicked"}
    /\ \A i \in DOMAIN callstack :
          LET f == callstack[i]
          IN  /\ f.fn \in Functions
              /\ f.macro \in DOMAIN prog[f.fn]
              /\ f.micro \in DOMAIN Vector(f)
              /\ f.regs \in [1..Registers -> Words]
    /\ \A m \in Memories : memory[m] \in Seq(Words)
    /\ steps \in 0..MaxSteps /\ boots \in 0..MaxBoots
    /\ input \in Inputs

(* The observer is never out of step with the call stack it mirrors, and   *)
(* so never panics, when it is consulted before every single step.         *)
ObserverInStep ==
    /\ status = "running" => ~ObserverPanics
    /\ status = "halted" /\ observed => obs.stack = <<>>

(* s is t with some of its elements left out.                              *)
Embeds(s, t) ==
    \E D \in SUBSET DOMAIN t :
        LET kept == SetToSortSeq(D, <)
        IN  Len(s) = Len(kept) /\ \A i \in DOMAIN s : s[i] = t[kept[i]]

(* Every row of the extracted trace is a bundle that the function really   *)
(* executed, with the registers it had then, and in that order: none is    *)
(* made up, recorded twice or attributed to another invocation.            *)
RowsAreBundles ==
    status = "halted" /\ observed =>
        \A f \in Functions : Embeds(obs.trace[f], bundles[f])

=============================================================================
