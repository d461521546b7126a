--------------------------- MODULE AssignmentSplit ---------------------------
(***************************************************************************)
(* Splitting an assignment x, y, ... := polynomial over registers into     *)
(* assignments that can be evaluated within the bandwidth of a field       *)
(* (pkg/schema/agnostic/assignment.go, micro.Assign.Split).  Registers are *)
(* first replaced by their limbs.  The left-hand side is then cut into     *)
(* chunks, and the right-hand side shifted down chunk by chunk; what does  *)
(* not fit in a chunk goes to a fresh carry register, and to a fresh       *)
(* borrow bit once a chunk may be negative.  Where a chunk needs more bits *)
(* than the bandwidth, the registers it reads are split in two and all is  *)
(* tried again.                                                            *)
(*                                                                         *)
(* The allocator is the sequence of the widths of all registers, fresh     *)
(* ones last.                                                              *)
(***************************************************************************)
EXTENDS AssignmentChunks

CONSTANTS Assignments   \* the assignments of the program: [lhs, rhs]

FieldAssumption == /\ RegisterWidth \in Nat \ {0}
                          /\ BandWidth > RegisterWidth
                          /\ Modulus > 2^BandWidth /\ Modulus < 2^(BandWidth + 1)

VARIABLES source,     \* the assignment of the program
          target,     \* it over limbs
          regs,       \* the allocator
          divisions,  \* the parts into which each limb is split
          last,       \* the right-hand side of the last attempt
          iteration,
          codes,      \* the assignments it is split into
          phase
vars == <<source, target, regs, divisions, last, iteration, codes, phase>>
-----------------------------------------------------------------------------
Init ==
    /\ source \in Assignments
    /\ target = NewAssignment(ApplyLimbsMap(source.lhs), SplitPolynomial(source.rhs))
    /\ regs = AllLimbs
    /\ divisions = [r \in DOMAIN AllLimbs |-> 1]
    /\ last = ZeroPoly /\ iteration = 0 /\ codes = <<>> /\ phase = "split"

(* Assignment.Split, when the assignment fits as it is.                    *)
KeepWhole ==
    /\ phase = "split" /\ iteration = 0
    /\ FitsBandWidth(AssignmentWidth(target, regs).bits)
    /\ codes' = <<target>> /\ phase' = "done"
    /\ UNCHANGED <<source, target, regs, divisions, last, iteration>>

(* Every attempt starts again from the limbs of the program.               *)
AttemptOn(s, right) ==
    LET Chunked(chunks) == [split |-> s, right |-> right, chunked |-> DetermineRhsChunks(right, chunks, s.regs)]
    IN  Chunked(InitialiseLhsChunks(target.lhs, AssignmentWidth(target, AllLimbs).signed, AllLimbs))
AttemptWith(s) == AttemptOn(s, Substitute(target.rhs, s.sub))
Attempt == AttemptWith(SplitRegisters(divisions, AllLimbs))

ChunkUp ==
    /\ phase = "split"
    /\ ~FitsBandWidth(AssignmentWidth(target, AllLimbs).bits)
    /\ \E a \in {Attempt} :
          \/ /\ a.chunked.reads = {}
             /\ codes' = a.split.codes \o a.chunked.out
             /\ regs' = a.chunked.regs /\ phase' = "done"
             /\ UNCHANGED <<source, target, divisions, last, iteration>>
          \/ /\ a.chunked.reads # {} /\ iteration > 1 /\ a.right = last
             /\ phase' = "panic"
             /\ UNCHANGED <<source, target, regs, divisions, last, iteration, codes>>
          \/ /\ a.chunked.reads # {} /\ ~(iteration > 1 /\ a.right = last)
             /\ divisions' = Subdivide(divisions, a.split, a.chunked.reads)
             /\ last' = a.right /\ iteration' = iteration + 1
             /\ UNCHANGED <<source, target, regs, codes, phase>>

Next == KeepWhole \/ ChunkUp
Spec == Init /\ [][Next]_vars
-----------------------------------------------------------------------------
(* Values of the limbs that the assignment reads; all others are zero.     *)
InputStates ==
    LET reads == RegistersRead(target.rhs)
    IN  {f @@ [r \in DOMAIN regs |-> 0] :
            f \in [reads -> 0..(2^RegisterWidth - 1)]}
Legal(st) == \A r \in DOMAIN regs : st[r] < 2^regs[r]

Run(cs, st) == FoldLeft(LAMBDA acc, a : MicroExecute(a, acc, regs), st, cs)

TypeOK ==
    /\ phase \in {"split", "done", "panic"} /\ iteration \in Nat
    /\ \A i \in DOMAIN codes : /\ Range(codes[i].lhs) \cup RegistersRead(codes[i].rhs) \subseteq DOMAIN regs
                              /\ \A v \in DOMAIN codes[i].rhs : codes[i].rhs[v] # 0
    /\ \A r \in DOMAIN regs : regs[r] \in 1..(BandWidth + 1)

(* Dividing registers always gets on: the fall-back of chunkUp against an  *)
(* infinite loop is not reached.                                           *)
SplittingGetsOn == phase # "panic"

(* Assignment.Split: one after the other, the assignments leave in the     *)
(* targets what the assignment of the program would have, for all values.  *)
Implements ==
    phase = "done" =>
        \A st \in InputStates : Legal(st) =>
            LET once == MicroExecute(target, st, regs)
                split == Run(codes, st)
            IN  \A r \in Range(target.lhs) : split[r] = once[r]

(* A difference ends in the sign bit that its constraint needs; the        *)
(* compiler stops at one that does not.                                    *)
SignBitsKept ==
    phase = "done" =>
        \A i \in DOMAIN codes :
            WidthOfPolynomial(codes[i].rhs, regs).signed => HasSignBit(codes[i].lhs, regs)

(* States in which the constraints of the first codes hold in the field.   *)
RECURSIVE FieldStates(_, _)
FieldStates(n, st) ==
    IF n = 0 THEN {st}
    ELSE LET a == codes[n]
             room == 2^CombinedWidth(a.lhs, regs)
         IN  UNION {LET value == Eval(a.rhs, read)
                    IN  {StoreAcross(read, sum, a.lhs, regs) :
                            sum \in {v \in 0..(room - 1) : TranslateAssign(a, v, value, regs)}} :
                    read \in FieldStates(n - 1, st)}

(* In the field, the constraints of the split assignments have one         *)
(* solution for the targets: what the assignment of the program stores.    *)
FieldSound ==
    phase = "done" =>
        \A st \in InputStates : Legal(st) =>
            LET once == MicroExecute(target, st, regs)
                solved == FieldStates(Len(codes), st)
            IN  /\ solved # {}
                /\ \A t \in solved : \A r \in Range(target.lhs) : t[r] = once[r]
=============================================================================
