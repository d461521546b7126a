----------------------------- MODULE AsmCompile -----------------------------
(***************************************************************************)
(* From the instructions of a function to constraints and rows             *)
(* (pkg/asm/lower.go, pkg/asm/compiler, pkg/asm/program), in four parts:   *)
(* propositions in disjunctive normal form, for the conditions of branches *)
(* (pkg/util/logical); lowering and vectorisation to micro code; the       *)
(* execution of a function, at each stage; constraints and rows.           *)
(*                                                                         *)
(* A variable of a proposition is a tuple of integers.  An atom says that  *)
(* a variable equals (sign) or does not equal a variable or a constant.  A *)
(* conjunction is a sorted sequence of atoms, a proposition a sorted       *)
(* sequence of conjunctions.  The proposition without conjunctions is      *)
(* true, the one with only the empty conjunction is false.                 *)
(***************************************************************************)
EXTENDS AsmCode

ToVar(v) == [const |-> FALSE, var |-> v, val |-> 0]
ToConst(c) == [const |-> TRUE, var |-> <<>>, val |-> c]
-----------------------------------------------------------------------------
(* The orders on variables, atoms and conjunctions.                        *)

LexLess(s, t) ==
    \E i \in DOMAIN s \cap DOMAIN t : s[i] < t[i] /\ \A k \in 1..(i - 1) : s[k] = t[k]

(* Equalities first, then by the left and by the right-hand side, where    *)
(* variables come before constants.                                        *)
AtomKey(a) ==
    <<IF a.sign THEN 0 ELSE 1>> \o a.left
      \o (IF a.right.const THEN <<1, a.right.val>> ELSE <<0>> \o a.right.var)
AtomLess(a, b) == LexLess(AtomKey(a), AtomKey(b))

ConjunctionLess(c, d) ==
    \/ Len(c) < Len(d)
    \/ Len(c) = Len(d) /\ \E i \in DOMAIN c : AtomLess(c[i], d[i]) /\ \A k \in 1..(i - 1) : c[k] = d[k]

(* Sorted, without duplicates.                                             *)
Distinct(s) == FoldLeft(LAMBDA acc, x : IF \E i \in DOMAIN acc : acc[i] = x THEN acc ELSE Append(acc, x), <<>>, s)
SortedAtoms(s) == SortSeq(Distinct(s), AtomLess)
SortedConjunctions(s) == SortSeq(Distinct(s), ConjunctionLess)
-----------------------------------------------------------------------------
(* Atoms.  The lower of two variables is on the left.                      *)

Relate(sign, l, r) ==
    IF LexLess(r, l) THEN [sign |-> sign, left |-> r, right |-> ToVar(l)]
    ELSE [sign |-> sign, left |-> l, right |-> ToVar(r)]
RelateConst(sign, l, c) == [sign |-> sign, left |-> l, right |-> ToConst(c)]

EqualsVar(l, r) == Relate(TRUE, l, r)
NotEqualsVar(l, r) == Relate(FALSE, l, r)
EqualsConst(l, c) == RelateConst(TRUE, l, c)
NotEqualsConst(l, c) == RelateConst(FALSE, l, c)

NegateAtom(a) == [sign |-> ~a.sign, left |-> a.left, right |-> a.right]

(* x = x is true and x # x is false.                                       *)
AtomIs(a, truth) == a.sign = truth /\ ~a.right.const /\ a.left = a.right.var

(* What follows for l and r when v is equal to both.                       *)
Equate(l, r, v) ==
    CASE ~l.const /\ ~r.const -> EqualsVar(l.var, r.var)
      [] ~l.const /\ r.const -> EqualsConst(l.var, r.val)
      [] l.const /\ ~r.const -> EqualsConst(r.var, l.val)
      [] OTHER -> IF l.val = r.val THEN EqualsVar(v, v) ELSE NotEqualsVar(v, v)

(* ... and when v differs from l and is equal to r.                        *)
Unequate(l, r, v) ==
    CASE ~l.const /\ ~r.const -> NotEqualsVar(l.var, r.var)
      [] ~l.const /\ r.const -> NotEqualsConst(l.var, r.val)
      [] l.const /\ ~r.const -> NotEqualsConst(r.var, l.val)
      [] OTHER -> IF l.val # r.val THEN EqualsVar(v, v) ELSE NotEqualsVar(v, v)

(* p, given o.                                                             *)
CloseOver(p, o) ==
    IF p = o THEN p
    ELSE IF p.left = o.left /\ o.sign
    THEN IF p.sign THEN Equate(p.right, o.right, p.left) ELSE Unequate(p.right, o.right, p.left)
    ELSE IF p.right.const \/ ~o.sign THEN p
    ELSE IF p.right.var = o.left THEN [sign |-> p.sign, left |-> p.left, right |-> o.right]
    ELSE p
-----------------------------------------------------------------------------
(* Conjunctions.                                                           *)

Put(s, i, x) == [k \in DOMAIN s |-> IF k = i THEN x ELSE s[k]] \o <<>>
Indices(s) == [i \in DOMAIN s |-> i]

(* One round of closing every atom, as it is when its turn comes, over all *)
(* atoms as they then are: [atoms, false].                                 *)
CloseRound(atoms) ==
    LET closed(in, i, ci, cij) ==
            IF in.false \/ AtomIs(cij, FALSE) THEN [atoms |-> in.atoms, false |-> TRUE]
            ELSE IF cij # ci THEN [atoms |-> Put(in.atoms, i, cij), false |-> FALSE]
            ELSE in
    IN  FoldLeft(LAMBDA acc, i :
                    FoldLeft(LAMBDA in, j : closed(in, i, acc.atoms[i], CloseOver(acc.atoms[i], in.atoms[j])),
                             acc, Indices(atoms)),
                 [atoms |-> atoms, false |-> FALSE], Indices(atoms))

(* Rounds until nothing changes; then what is true is dropped.             *)
RECURSIVE CloseFrom(_, _)
CloseFrom(atoms, changed) ==
    LET After(round) ==
            IF round.false THEN round
            ELSE IF round.atoms # atoms THEN CloseFrom(round.atoms, TRUE)
            ELSE IF changed
            THEN [atoms |-> SortedAtoms(SelectSeq(atoms, LAMBDA a : ~AtomIs(a, TRUE))), false |-> FALSE]
            ELSE round
    IN  After(CloseRound(atoms))
SimplifyConjunction(atoms) == CloseFrom(atoms, FALSE)

RemoveAtom(c, a) == SelectSeq(c, LAMBDA b : b # a)

(* Every atom of c is one of d.                                            *)
Implies(c, d) == \A i \in DOMAIN c : \E k \in DOMAIN d : d[k] = c[i]
-----------------------------------------------------------------------------
(* Propositions.                                                           *)

Truth(val) == IF val THEN <<>> ELSE <<<<>>>>
IsTrue(p) == p = <<>>
IsFalse(p) == p = <<<<>>>>

NewProposition(a) ==
    IF AtomIs(a, TRUE) THEN Truth(TRUE)
    ELSE IF AtomIs(a, FALSE) THEN Truth(FALSE)
    ELSE <<<<a>>>>

(* P or not P is true, and P or (not P and C) is P or C:                   *)
(* [p, changed, tautology].                                                *)
UnitPropagation(p, i, j) ==
    LET unit == IF Len(p[i]) > Len(p[j]) THEN j ELSE i
        other == IF unit = i THEN j ELSE i
        neg == NegateAtom(p[unit][1])
        same == [p |-> p, changed |-> FALSE, tautology |-> FALSE]
    IN  IF Len(p[i]) = 1 /\ Len(p[j]) = 1 THEN [p |-> p, changed |-> FALSE, tautology |-> p[i][1] = NegateAtom(p[j][1])]
        ELSE IF (Len(p[i]) # 1 /\ Len(p[j]) # 1) \/ p[i] = <<>> \/ p[j] = <<>> THEN same
        ELSE IF \E k \in DOMAIN p[other] : p[other][k] = neg
        THEN [p |-> Put(p, other, RemoveAtom(p[other], neg)), changed |-> TRUE, tautology |-> FALSE]
        ELSE same

(* A conjunction with more atoms than another one is absorbed by it.       *)
SimplifyConjuncts(p, i, j) ==
    LET Absorb(q, ij, ji) == IF ij /\ ~ji THEN Put(q, j, q[i]) ELSE IF ji /\ ~ij THEN Put(q, i, q[j]) ELSE q
        After(unit) ==
            IF unit.tautology THEN unit
            ELSE [p |-> Absorb(unit.p, Implies(unit.p[i], unit.p[j]), Implies(unit.p[j], unit.p[i])),
                  changed |-> unit.changed, tautology |-> FALSE]
    IN  After(UnitPropagation(p, i, j))

(* One round over all pairs of conjunctions.                               *)
SimplifyRound(p) ==
    LET joined(in, s) == [p |-> s.p, changed |-> in.changed \/ s.changed, tautology |-> s.tautology]
    IN  FoldLeft(LAMBDA acc, i :
                    FoldLeft(LAMBDA in, j : IF in.tautology \/ j <= i THEN in
                                            ELSE joined(in, SimplifyConjuncts(in.p, i, j)),
                             acc, Indices(p)),
                 [p |-> p, changed |-> FALSE, tautology |-> FALSE], Indices(p))

(* Rounds until no atom is removed; what changed is sorted again.          *)
RECURSIVE SimplifyPairs(_)
SimplifyPairs(p) ==
    LET After(round) == IF round.tautology THEN Truth(TRUE)
                        ELSE IF round.changed THEN SimplifyPairs(round.p)
                        ELSE SortedConjunctions(round.p)
    IN  After(SimplifyRound(p))

PropOr(p, q) ==
    IF IsTrue(p) \/ IsTrue(q) THEN Truth(TRUE)
    ELSE IF IsFalse(p) THEN q
    ELSE IF IsFalse(q) THEN p
    ELSE SimplifyPairs(SortedConjunctions(p \o q))

(* A conjunction and every conjunction of a proposition.                   *)
AndConjunctProposition(c, o) ==
    LET Kept(acc, both) == IF both.false THEN acc ELSE Append(acc, both.atoms)
        Sorted(left) == IF left = <<>> THEN Truth(FALSE) ELSE SortedConjunctions(left)
    IN  Sorted(FoldLeft(LAMBDA acc, d : Kept(acc, SimplifyConjunction(SortedAtoms(c \o d))), <<>>, o))

PropAnd(p, q) ==
    IF IsFalse(p) \/ IsFalse(q) THEN Truth(FALSE)
    ELSE IF IsTrue(p) THEN q
    ELSE IF IsTrue(q) THEN p
    ELSE FoldLeft(LAMBDA acc, c : PropOr(acc, AndConjunctProposition(c, q)), Truth(FALSE), p)

NegateConjunct(c) ==
    FoldLeft(LAMBDA acc, a : PropOr(acc, NewProposition(NegateAtom(a))), Truth(FALSE), c)

PropNegate(p) ==
    IF IsTrue(p) THEN Truth(FALSE)
    ELSE IF IsFalse(p) THEN Truth(TRUE)
    ELSE FoldLeft(LAMBDA acc, c : PropAnd(acc, NegateConjunct(c)), NegateConjunct(Head(p)), Tail(p))
-----------------------------------------------------------------------------
(* From the source of a function to the micro code that is traced and      *)
(* compiled (pkg/asm/lower.go, pkg/asm/concretize.go): every macro         *)
(* instruction is lowered, vectorisation merges instructions by replacing  *)
(* jumps with the codes of their target, what is left unreachable is       *)
(* pruned, and registers are split into limbs.                             *)

CONSTANTS Functions,  \* the functions of the program, as they are accepted
          MaxSteps    \* of an execution

VARIABLES fn,         \* the function
          vectorize,  \* whether vectorisation is enabled
          stage,
          insns,      \* the micro instructions of the function
          merged,     \* those that have been vectorised, <<>> for the others
          visited, worklist,
          regs        \* the widths of its registers
vars == <<fn, vectorize, stage, insns, merged, visited, worklist, regs>>
-----------------------------------------------------------------------------
(* Vectorisation.                                                          *)

NoOffset == 1000

IsJmp(code) == code.op = "jmp"
Jumps(codes) == {i \in DOMAIN codes : IsJmp(codes[i])}

(* A jump to codes that are already inlined further down becomes a skip.   *)
ReplaceJump(codes, index, offset) == [codes EXCEPT ![index] = Skip(offset - (index + 1))]

(* A faulty inlining that leaves skips over the jump as they are.          *)
InlineJumpOnly(codes, index, target) ==
    SubSeq(codes, 1, index - 1) \o target \o SubSeq(codes, index + 1, Len(codes))

(* The codes of the target take the place of the jump; skips over it get   *)
(* longer.                                                                 *)
InlineJump(codes, index, target) ==
    LET grown == Len(target) - 1
        moved(i) == IF /\ codes[i].op \in {"skip", "skip_if"}
                       /\ i < index /\ i + 1 + codes[i].skip > index
                    THEN [codes[i] EXCEPT !.skip = @ + grown]
                    ELSE codes[i]
    IN  [i \in 1..(index - 1) |-> moved(i)] \o target \o SubSeq(codes, index + 1, Len(codes))

(* Where instructions have been inlined.                                   *)
UpdateMicroMap(externs, index, target, ncodes) ==
    [pc \in DOMAIN externs |->
        IF pc = target THEN index
        ELSE IF externs[pc] # NoOffset /\ externs[pc] > index THEN externs[pc] + ncodes - 1
        ELSE externs[pc]]

(* One attempt to merge, at a jump: [codes, externs].                      *)
MergeAt(code, s, index) ==
    LET target == s.codes[index].target
        offset == s.externs[target]
    IN  IF offset # NoOffset
        THEN [codes |-> ReplaceJump(s.codes, index, offset), externs |-> s.externs]
        ELSE [codes |-> InlineJump(s.codes, index, code[target]),
              externs |-> UpdateMicroMap(s.externs, index, target, Len(code[target]))]

(* Not backwards, not into the instruction itself, and without conflict.   *)
CanMerge(pc, code, s, index, w, inputs) ==
    LET target == s.codes[index].target
    IN  /\ s.externs[target] > index /\ target # pc
        /\ ValidInstruction(MergeAt(code, s, index).codes, w, inputs)

(* The rightmost jump that can be merged is, until none can.               *)
RECURSIVE VectorizeFrom(_, _, _, _, _)
VectorizeFrom(pc, code, s, w, inputs) ==
    LET Merge(can) == IF can = {} THEN s.codes
                      ELSE VectorizeFrom(pc, code, MergeAt(code, s, Max(can)), w, inputs)
    IN  Merge({i \in Jumps(s.codes) : CanMerge(pc, code, s, i, w, inputs)})

VectorizeInstruction(pc, code, w, inputs) ==
    VectorizeFrom(pc, code, [codes |-> code[pc], externs |-> [k \in DOMAIN code |-> NoOffset]], w, inputs)

(* The jump targets that have not been visited, from the last jump on.     *)
MarkJumpTargets(codes, seen) ==
    FoldLeft(LAMBDA acc, k :
                LET i == Len(codes) + 1 - k
                IN  IF IsJmp(codes[i]) /\ codes[i].target \notin seen \cup Range(acc)
                    THEN Append(acc, codes[i].target) ELSE acc,
             <<>>, [k \in DOMAIN codes |-> k])

PruneUnreachableInstructions(code) ==
    LET index(pc) == Cardinality({k \in 1..pc : code[k] # <<>>})
        rebound(codes) == [i \in DOMAIN codes |-> IF IsJmp(codes[i]) THEN Jmp(index(codes[i].target)) ELSE codes[i]]
        all == [pc \in DOMAIN code |-> rebound(code[pc])]
    IN  SelectSeq(all, LAMBDA codes : codes # <<>>)
-----------------------------------------------------------------------------
Inputs == RegsOf(fn, "in")

Init ==
    /\ fn \in Functions /\ vectorize \in BOOLEAN
    /\ stage = "macro" /\ insns = <<>> /\ merged = <<>>
    /\ visited = {} /\ worklist = <<>> /\ regs = RegWidths(fn)

(* lowerFunction.                                                          *)
LowerFunction ==
    /\ stage = "macro"
    /\ IF \A pc \in DOMAIN fn.code : Lowers(fn.code[pc])
       THEN /\ insns' = [pc \in DOMAIN fn.code |-> Lower(fn.code[pc], pc)]
            /\ stage' = IF vectorize THEN "vectorize" ELSE "lowered"
       ELSE stage' = "panic" /\ UNCHANGED insns
    /\ merged' = [pc \in DOMAIN fn.code |-> <<>>]
    /\ visited' = {} /\ worklist' = <<1>>
    /\ UNCHANGED <<fn, vectorize, regs>>

(* vectorizeFunction: one instruction of the worklist.                     *)
VectorizeNext ==
    /\ stage = "vectorize" /\ worklist # <<>>
    /\ \E codes \in {VectorizeInstruction(Last(worklist), insns, regs, Inputs)} :
         LET found == MarkJumpTargets(codes, visited)
         IN  /\ merged' = [merged EXCEPT ![Last(worklist)] = codes]
             /\ worklist' = Front(worklist) \o found
             /\ visited' = visited \cup Range(found)
    /\ UNCHANGED <<fn, vectorize, stage, insns, regs>>

Prune ==
    /\ stage = "vectorize" /\ worklist = <<>>
    /\ insns' = PruneUnreachableInstructions(merged)
    /\ merged' = <<>> /\ stage' = "lowered"
    /\ UNCHANGED <<fn, vectorize, visited, worklist, regs>>

(* ValidateMicro panics when an instruction is not valid.                  *)
ValidateMicro ==
    /\ stage = "lowered"
    /\ stage' = IF \A pc \in DOMAIN insns : ValidInstruction(insns[pc], regs, Inputs) THEN "micro" ELSE "panic"
    /\ UNCHANGED <<fn, vectorize, insns, merged, visited, worklist, regs>>

(* subdivideFunction.                                                      *)
Subdivide ==
    /\ stage = "micro"
    /\ LET Joined(acc, s) == [insns |-> Append(acc.insns, s.codes), alloc |-> s.alloc]
       IN  \E split \in {FoldLeft(LAMBDA acc, codes : Joined(acc, SplitRegisters(codes, regs, acc.alloc)),
                                  [insns |-> <<>>, alloc |-> Splits(regs)!AllLimbs], insns)} :
             insns' = split.insns /\ regs' = split.alloc
    /\ stage' = "split"
    /\ UNCHANGED <<fn, vectorize, merged, visited, worklist>>

Next == LowerFunction \/ VectorizeNext \/ Prune \/ ValidateMicro \/ Subdivide
Spec == Init /\ [][Next]_vars
-----------------------------------------------------------------------------
(* Execution of a whole function.  The lines of a bus start with the       *)
(* padding of the function they lead to.                                   *)

InitialState(f, inputs) ==
    [r \in DOMAIN f.regs |->
        IF f.regs[r].kind = "in" THEN inputs[r]
        ELSE IF \E b \in Range(f.buses) : r \in Range(b.address) \cup Range(b.data) THEN f.regs[r].padding
        ELSE 0]

Outputs(f, st) == [r \in RegsOf(f, "out") |-> st[r]]

RECURSIVE RunMacro(_, _, _, _)
RunMacro(f, pc, st, n) ==
    IF pc \in Ends \/ n = 0 THEN [pc |-> pc, st |-> st]
    ELSE LET After(next) == RunMacro(f, next.pc, next.st, n - 1) IN After(Execute(f.code[pc], st, pc, RegWidths(f)))

RECURSIVE RunMicro(_, _, _, _, _)
RunMicro(code, w, pc, st, n) ==
    IF pc \in Ends \/ n = 0 THEN [pc |-> pc, st |-> st]
    ELSE LET After(next) == RunMicro(code, w, next.pc, next.st, n - 1) IN After(ExecuteFrom(code[pc], 1, st, w))

InputValues(f) ==
    LET ins == RegsOf(f, "in")
    IN  {v \in [ins -> 0..(2^Max({f.regs[r].width : r \in ins}) - 1)] : \A r \in ins : v[r] < 2^f.regs[r].width}

(* What a run ends with, and what it returns.                              *)
Outcome(f, end) == [pc |-> end.pc, outputs |-> IF end.pc = RETURN THEN Outputs(f, end.st) ELSE <<>>]

(* The limbs of a state, zero for registers that were allocated.           *)
SplitState(f, st) ==
    LET limbs == SplitValues([r \in DOMAIN f.regs |-> st[r]], RegWidths(f))
    IN  [r \in DOMAIN regs |-> IF r <= Len(limbs) THEN limbs[r] ELSE 0] @@ <<>>
JoinState(f, st) == JoinValues(st, RegWidths(f))

Terminates(f) == \A v \in InputValues(f) : RunMacro(f, 1, InitialState(f, v), MaxSteps).pc \in Ends

(* The instructions as they stand: vectorised ones have replaced others.   *)
Current == IF stage = "vectorize"
           THEN [pc \in DOMAIN insns |-> IF merged[pc] = <<>> THEN insns[pc] ELSE merged[pc]]
           ELSE insns
-----------------------------------------------------------------------------
TypeOK ==
    /\ stage \in {"macro", "vectorize", "lowered", "micro", "split", "panic"}
    /\ visited \subseteq DOMAIN fn.code /\ Range(worklist) \subseteq DOMAIN fn.code
    /\ \A r \in DOMAIN regs : regs[r] >= 1
    /\ stage # "macro" =>
        \A pc \in DOMAIN insns : \A i \in DOMAIN insns[pc] :
            insns[pc][i].op \in {"skip", "skip_if"} => i + insns[pc][i].skip < Len(insns[pc])

(* A function that Validate accepts can be lowered and compiled: the       *)
(* panics of Lower, ValidateMicro, translateAssign,                        *)
(* TranslateBranchCondition, splitConstant and Goto are not reached.       *)
AcceptedLowers == Accepted(fn) => stage # "panic"

(* At every stage the function returns what its source does, for all       *)
(* arguments, or fails as it does; Assignment.trace relies on it.          *)
SameOutcome ==
    stage \in {"vectorize", "lowered", "micro", "split"} =>
        \A v \in InputValues(fn) :
            LET st == InitialState(fn, v)
                Joined(end) == Outcome(fn, [end EXCEPT !.st = IF stage = "split" THEN JoinState(fn, @) ELSE @])
            IN  Joined(RunMicro(Current, regs, 1, IF stage = "split" THEN SplitState(fn, st) ELSE st, MaxSteps))
                    = Outcome(fn, RunMacro(fn, 1, st, MaxSteps))

(* In a vectorised instruction a register is written once on every path,   *)
(* and never read where only some paths have written it: one row of the    *)
(* trace holds all the values it has while the instruction executes.       *)
OneValuePerRow ==
    stage = "micro" =>
        \A pc \in DOMAIN insns :
            LET paths == Writes(insns[pc])
            IN  \A i \in DOMAIN paths : Uses(insns[pc][i]).writes \cap paths[i].maybe = {}

(* pruneUnreachableInstructions: what remains is entered at the first      *)
(* instruction or by a jump, and every jump leads to an instruction.       *)
JumpsLand ==
    stage \in {"lowered", "micro", "split"} =>
        LET targets == UNION {{insns[pc][i].target : i \in Jumps(insns[pc])} : pc \in DOMAIN insns}
        IN  targets \subseteq DOMAIN insns /\ (vectorize => DOMAIN insns \subseteq targets \cup {1})
-----------------------------------------------------------------------------
(* From micro code to constraints (pkg/asm/compiler) and to the rows of a  *)
(* trace (pkg/asm/program).  Every instruction gives one constraint over   *)
(* the current row, the row before and the program counter of the row      *)
(* after it; the column of the program counter is zero in padding.  Then a *)
(* prover fills in rows: whatever satisfies the constraints.               *)

CONSTANT Proving  \* the functions of which all rows are tried

VARIABLES table,  \* the constraint of every instruction
          row,    \* the last row that has been filled in and checked
          next    \* where its jumps lead: the program counter of the row after it
compiled == <<table, row, next>>

-----------------------------------------------------------------------------
(* The function after the split.                                           *)

SourceOf(r) == {k \in DOMAIN fn.regs : r \in Range(Splits(RegWidths(fn))!LimbIds(k))}
IsInput(r) == \E k \in SourceOf(r) : fn.regs[k].kind = "in"
SplitBuses == [i \in DOMAIN fn.buses |-> SplitBus(fn.buses[i], RegWidths(fn))]
IoLines == UNION {Range(b.address) \cup Range(b.data) : b \in Range(SplitBuses)}
Atomic == Len(insns) = 1
-----------------------------------------------------------------------------
(* Branch tables: the condition under which control reaches each code.  A  *)
(* variable is a group of consecutive registers, with a mark when it is    *)
(* read from the current row.                                              *)

NewBranchId(rids, written) == <<IF Range(rids) \cap written # {} THEN 1 ELSE 0, Head(rids), Len(rids)>>
Member(v, i) == <<v[1], v[2] + i - 1, 1>>

(* The skip is taken when the two sides differ.                            *)
ExtendSkipIf(cond, taken, code, written) ==
    LET left == NewBranchId(code.left, written)
    IN  PropAnd(cond, NewProposition(IF code.right.const THEN RelateConst(~taken, left, code.right.val)
                                     ELSE Relate(~taken, left, NewBranchId(code.right.regs, written))))

BranchTableTransfer(i, code, cond, written) ==
    CASE code.op \in {"fail", "ret", "jmp"} -> <<>>
      [] code.op = "skip" -> <<<<i + code.skip + 1, cond>>>>
      [] code.op = "skip_if" -> [n \in 1..2 |-> <<IF n = 1 THEN i + code.skip + 1 ELSE i + 1,
                                                  ExtendSkipIf(cond, n = 1, code, written)>>]
      [] OTHER -> <<<<i + 1, cond>>>>

JoinBranch(states, arc) ==
    (arc[1] :> (IF arc[1] \in DOMAIN states THEN PropOr(arc[2], states[arc[1]]) ELSE arc[2])) @@ states

(* Nothing is known of a code that no path reaches.                        *)
BranchTable(codes, writes) ==
    LET from(states, i) == IF i \in DOMAIN states THEN states[i] ELSE Truth(TRUE)
        entries(states) == [i \in DOMAIN codes |-> from(states, i)]
    IN  entries(FoldLeft(LAMBDA states, i :
                            FoldLeft(JoinBranch, states,
                                     BranchTableTransfer(i, codes[i], from(states, i), writes[i].maybe)),
                         1 :> Truth(TRUE), [i \in DOMAIN codes |-> i]))

WritesOf(codes) ==
    LET w == Writes(codes)
    IN  [i \in DOMAIN codes |-> IF i \in DOMAIN w THEN w[i] ELSE [maybe |-> {}, surely |-> {}]]
-----------------------------------------------------------------------------
(* Conditions are expanded to equalities of single registers before they   *)
(* are translated.                                                         *)

(* What is left of the constant beyond the registers must be zero.         *)
SplitConstant(c, v) ==
    LET below(i) == SumFunctionOnSet([k \in 1..v[3] |-> regs[v[2] + k - 1]], 1..(i - 1))
    IN  [panic |-> c >= 2^below(v[3] + 1),
         limbs |-> [i \in 1..v[3] |-> (c \div 2^below(i)) % 2^regs[v[2] + i - 1]]]

AllOf(atoms) == FoldLeft(LAMBDA p, a : PropAnd(p, NewProposition(a)), Truth(TRUE), atoms)
AnyOf(atoms) == FoldLeft(LAMBDA p, a : PropOr(p, NewProposition(a)), Truth(FALSE), atoms)

ExpandRegConst(sign, v, limbs) ==
    [i \in 1..v[3] |-> RelateConst(sign, Member(v, i), limbs[i])]

(* The registers of the wider group beyond the other one are zero.         *)
ExpandRegReg(sign, v, o) ==
    LET n == Min({v[3], o[3]})
        zeros(u) == [i \in 1..(u[3] - n) |-> RelateConst(sign, Member(u, n + i), 0)]
    IN  [i \in 1..n |-> Relate(sign, Member(v, i), Member(o, i))] \o zeros(v) \o zeros(o)

ExpandBranchEquality(a) ==
    LET split == SplitConstant(a.right.val, a.left)
        Joined(atoms) == IF a.sign THEN AllOf(atoms) ELSE AnyOf(atoms)
    IN  [panic |-> a.right.const /\ split.panic,
         cond |-> Joined(IF a.right.const THEN ExpandRegConst(a.sign, a.left, split.limbs)
                         ELSE ExpandRegReg(a.sign, a.left, a.right.var))]

BothHold(p, e) == [panic |-> p.panic \/ e.panic, cond |-> PropAnd(p.cond, e.cond)]
OneHolds(p, e) == [panic |-> p.panic \/ e.panic, cond |-> PropOr(p.cond, e.cond)]

ExpandBranchConjunct(c) ==
    FoldLeft(LAMBDA p, a : BothHold(p, ExpandBranchEquality(a)), [panic |-> FALSE, cond |-> Truth(TRUE)], c)

ExpandBranchCondition(p) ==
    FoldLeft(LAMBDA acc, c : OneHolds(acc, ExpandBranchConjunct(c)), [panic |-> FALSE, cond |-> Truth(FALSE)], p)

(* True needs no expansion and false must not occur; an expansion that     *)
(* comes to true or to false has no translation.                           *)
TranslateBranchCondition(p) ==
    LET Expanded(e) == [panic |-> e.panic \/ IsTrue(e.cond) \/ IsFalse(e.cond), cond |-> e.cond]
    IN  IF IsTrue(p) THEN [panic |-> FALSE, cond |-> p]
        ELSE IF IsFalse(p) THEN [panic |-> TRUE, cond |-> p]
        ELSE Expanded(ExpandBranchCondition(p))
-----------------------------------------------------------------------------
(* Constraints.                                                            *)

Translated(code) == code.op \in {"assign", "fail", "jmp", "ret"}

(* A cast has become assignments and checks when registers were split.     *)
TranslatePanics(code) ==
    \/ code.op = "cast"
    \/ code.op = "jmp" /\ Atomic
    \/ /\ code.op = "assign" /\ WidthOfPolynomial(code.source, regs).signed
       /\ ~Splits(regs)!HasSignBit(code.targets, regs)

TranslateCode(code, branch, written) ==
    LET Under(t) == [code |-> code, written |-> written, cond |-> t.cond, panic |-> t.panic \/ TranslatePanics(code)]
    IN  Under(TranslateBranchCondition(branch))

(* The writes at the codes that end the instruction, unless it fails.      *)
JoinAssignments(codes, writes) ==
    LET ends == {i \in DOMAIN codes : codes[i].op \in {"jmp", "ret"}}
    IN  [none |-> ends = {}, maybe |-> UNION {writes[i].maybe : i \in ends},
         surely |-> {r \in DOMAIN regs : \A i \in ends : r \in writes[i].surely}]

DetermineWriteConditions(r, codes, branches) ==
    FoldLeft(LAMBDA p, i : IF r \in Uses(codes[i]).writes THEN PropOr(p, branches[i]) ELSE p,
             Truth(FALSE), [i \in DOMAIN codes |-> i])

(* Registers keep their value where the instruction does not write them;   *)
(* the lines of buses need not.                                            *)
WithConstancyConstraints(codes, writes, branches) ==
    LET joined == JoinAssignments(codes, writes)
        kept == {r \in DOMAIN regs : ~IsInput(r) /\ r \notin IoLines \cup joined.surely}
        Constancies(when) == [panic |-> joined.none \/ \E r \in kept : when[r].panic,
                              when |-> [r \in kept |-> when[r].cond]]
    IN  Constancies([r \in kept |->
            TranslateBranchCondition(IF r \in joined.maybe
                                     THEN PropNegate(DetermineWriteConditions(r, codes, branches))
                                     ELSE Truth(TRUE))])

(* Translator.Translate: the first instruction has no constancies.         *)
TranslateUnder(pc, codes, writes, branches) ==
    LET casts == \E i \in DOMAIN codes : codes[i].op = "cast"
        Constraint(locals, keeps) ==
            [panic |-> casts \/ keeps.panic \/ \E i \in DOMAIN locals : locals[i].panic,
             locals |-> locals, keeps |-> keeps.when]
    IN  Constraint(SelectSeq([i \in DOMAIN codes |-> TranslateCode(codes[i], branches[i], writes[i].maybe)],
                             LAMBDA l : Translated(l.code)),
                   IF pc = 1 THEN [panic |-> FALSE, when |-> <<>>]
                   ELSE WithConstancyConstraints(codes, writes, branches))
TranslateWriting(pc, codes, writes) == TranslateUnder(pc, codes, writes, BranchTable(codes, writes))
Translate(pc, codes) == TranslateWriting(pc, codes, WritesOf(codes))
-----------------------------------------------------------------------------
(* Rows, and what the constraints say of them.  A row has the values of    *)
(* the registers and the two control columns.                              *)

NewRow(st, pc, ret) == [st |-> st, pc |-> pc, ret |-> ret]

(* ReadRegister: inputs and forwarded registers are read from this row.    *)
Reads(r, forwarding, prev, cur) == IF IsInput(r) \/ forwarding THEN cur.st[r] ELSE prev.st[r]
CondHolds(p, prev, cur) ==
    LET value(v) == Reads(v[2], v[1] = 1, prev, cur)
        right(a) == IF a.right.const THEN a.right.val ELSE value(a.right.var)
    IN  IsTrue(p) \/ \E i \in DOMAIN p : \A k \in DOMAIN p[i] :
            (value(p[i][k].left) = right(p[i][k])) = p[i][k].sign

AssignHolds(l, prev, cur) ==
    LET a == [lhs |-> l.code.targets, rhs |-> l.code.source]
        env == [r \in DOMAIN regs |-> Reads(r, r \in l.written, prev, cur)]
    IN  Splits(regs)!TranslateAssign(a, VectorValue(a.lhs, cur.st, regs), Eval(a.rhs, env), regs)

(* The framing of functions with several instructions.                     *)
Goto(target, cur, npc) == npc = target /\ cur.ret = 0
Return(cur) == Atomic \/ cur.ret = 1

LocalHolds(l, prev, cur, npc) ==
    CondHolds(l.cond, prev, cur) =>
        CASE l.code.op = "assign" -> AssignHolds(l, prev, cur)
          [] l.code.op = "fail" -> FALSE
          [] l.code.op = "jmp" -> Goto(l.code.target, cur, npc)
          [] l.code.op = "ret" -> Return(cur)

Guard(pc, cur) == Atomic \/ cur.pc = pc

InsnHolds(pc, prev, cur, npc) ==
    Guard(pc, cur) =>
        /\ \A i \in DOMAIN table[pc].locals : LocalHolds(table[pc].locals[i], prev, cur, npc)
        /\ \A r \in DOMAIN table[pc].keeps :
            CondHolds(table[pc].keeps[r], prev, cur) => cur.st[r] = prev.st[r]

(* The constraints "padding", "first", "init" and "reset".                 *)
FramingHolds(first, prev, cur) ==
    /\ cur.pc = 0 => cur.ret = 0
    /\ (first \/ prev.pc = 0) => cur.pc \in {0, 1}
    /\ (~first /\ prev.ret # 0) => cur.pc = 1

(* Arguments change with the first instruction only.                       *)
InputConstancies(first, prev, cur) ==
    (~first /\ cur.pc \notin {0, 1}) => \A r \in DOMAIN regs : IsInput(r) => cur.st[r] = prev.st[r]

(* The lookup of a bus: on every row its lines are a call that has been    *)
(* made, as the function that is called has itself been checked.           *)
LookupHolds(bus, cur) == ReadBus(bus, LoadN(cur.st, bus.address)) = LoadN(cur.st, bus.data)

(* A constraint is not checked where it would refer to a row beyond the    *)
(* ends of the trace.                                                      *)
LooksBack(pc) ==
    LET variables(p) == UNION {UNION {{a.left} \cup {a.right.var} : a \in Range(c)} : c \in Range(p)} \ {<<>>}
        back(l) == \/ \E v \in variables(l.cond) : v[1] = 0 /\ ~IsInput(v[2])
                   \/ /\ l.code.op = "assign"
                      /\ \E r \in RegistersRead(l.code.source) : ~IsInput(r) /\ r \notin l.written
    IN  DOMAIN table[pc].keeps # {} \/ \E l \in Range(table[pc].locals) : back(l)
LooksForward(pc) == \E l \in Range(table[pc].locals) : l.code.op = "jmp"

RowHolds(first, last, prev, cur, npc) ==
    /\ Atomic \/ (FramingHolds(first, prev, cur) /\ InputConstancies(first, prev, cur))
    /\ \A bus \in Range(SplitBuses) : LookupHolds(bus, cur)
    /\ \A pc \in DOMAIN table :
            (first /\ LooksBack(pc)) \/ (last /\ LooksForward(pc)) \/ InsnHolds(pc, prev, cur, npc)

TraceHolds(rows) ==
    \A i \in DOMAIN rows :
        LET prev == IF i = 1 THEN rows[i] ELSE rows[i - 1]
            npc == IF i = Len(rows) THEN 0 ELSE rows[i + 1].pc
        IN  RowHolds(i = 1, i = Len(rows), prev, rows[i], npc)
-----------------------------------------------------------------------------
(* The rows that tracing gives.                                            *)

RECURSIVE TraceFrom(_, _, _)
TraceFrom(pc, st, n) ==
    LET Row(end) == IF Atomic THEN NewRow(end.st, 0, 0)
                    ELSE NewRow(end.st, pc, IF end.pc = RETURN THEN 1 ELSE 0)
        Rows(end) == <<Row(end)>> \o (IF end.pc \in Ends \/ n = 0 THEN <<>> ELSE TraceFrom(end.pc, end.st, n - 1))
    IN  Rows(ExecuteFrom(insns[pc], 1, st, regs))
Trace(inputs) == TraceFrom(1, SplitState(fn, InitialState(fn, inputs)), MaxSteps)

Paddings == [r \in DOMAIN fn.regs |-> fn.regs[r].padding]

(* A function of one instruction is executed for its padding, whatever the *)
(* instruction ends with.                                                  *)
InferPadding == ExecuteFrom(insns[1], 1, SplitState(fn, InitialState(fn, Paddings)), regs)
PaddingRow == NewRow(IF Atomic THEN InferPadding.st ELSE SplitState(fn, Paddings), 0, 0)

Returning == {v \in InputValues(fn) : RunMacro(fn, 1, InitialState(fn, v), MaxSteps).pc = RETURN}
-----------------------------------------------------------------------------
NoRow == NewRow(<<>>, 0, 0)

CompileInit == Init /\ table = <<>> /\ row = NoRow /\ next = {}

Lowering == Next /\ UNCHANGED compiled

(* compileFunction.                                                        *)
CompileFunction ==
    /\ stage = "split"
    /\ table' = [pc \in DOMAIN insns |-> Translate(pc, insns[pc])]
    /\ stage' = IF \E pc \in DOMAIN insns : table'[pc].panic THEN "panic" ELSE "compiled"
    /\ UNCHANGED <<fn, vectorize, insns, merged, visited, worklist, regs, row, next>>

(* All values of the registers, as one number.                             *)
Below(r) == SumFunctionOnSet(regs, 1..(r - 1))
RowState(k) == [r \in DOMAIN regs |-> (k \div 2^Below(r)) % 2^regs[r]] @@ <<>>
PcWidth == BitLen(1 + Len(insns))

(* Where the jumps that a row takes lead.                                  *)
Targets(prev, cur) ==
    {l.code.target : l \in {l \in UNION {Range(table[pc].locals) : pc \in {pc \in DOMAIN table : Guard(pc, cur)}} :
                                l.code.op = "jmp" /\ CondHolds(l.cond, prev, cur)}}

(* The prover: any row that satisfies the constraints and can be followed  *)
(* by another one.                                                         *)
FillRow(first, pcs) ==
    \E pc \in pcs, ret \in 0..(IF Atomic THEN 0 ELSE 1) :
        /\ Atomic \/ FramingHolds(first, row, NewRow(<<>>, pc, ret))
        /\ \E k \in 0..(2^SumFunctionOnSet(regs, DOMAIN regs) - 1) :
            LET cur == NewRow(RowState(k), pc, ret)
                to == Targets(row, cur)
            IN  /\ \E npc \in IF to = {} THEN {0} ELSE to : RowHolds(first, FALSE, row, cur, npc)
                /\ row' = cur /\ next' = to

(* The trace starts with a call or with padding, of which the values are   *)
(* not read by any row.                                                    *)
FirstRow ==
    /\ stage = "compiled" /\ fn \in Proving
    /\ \/ FillRow(TRUE, IF Atomic THEN {0} ELSE {1})
       \/ row' = PaddingRow /\ next' = {}
    /\ stage' = "proving"
    /\ UNCHANGED <<fn, vectorize, insns, merged, visited, worklist, regs, table>>
(* The rows of a function of one instruction do not depend on each other.  *)
NextRow ==
    /\ stage = "proving" /\ ~Atomic
    /\ FillRow(FALSE, IF next = {} THEN 1..(2^PcWidth - 1) ELSE next)
    /\ UNCHANGED <<fn, vectorize, stage, insns, merged, visited, worklist, regs, table>>

CompileNext == Lowering \/ CompileFunction \/ FirstRow \/ NextRow
CompileSpec == CompileInit /\ [][CompileNext]_<<vars, compiled>>
-----------------------------------------------------------------------------
CompileTypeOK ==
    /\ stage \in {"macro", "vectorize", "lowered", "micro", "split", "compiled", "proving", "panic"}
    /\ stage = "proving" => row.ret \in {0, 1} /\ row.pc \in 0..Len(insns)

(* The rows that Assignment.trace records for two calls, after padding or  *)
(* not, satisfy every constraint that compileFunction makes of the same    *)
(* code.                                                                   *)
Complete ==
    stage = "compiled" =>
        \A v, w \in Returning :
            LET Hold(calls) == TraceHolds(calls) /\ TraceHolds(<<PaddingRow>> \o calls) IN Hold(Trace(v) \o Trace(w))

(* Whatever fills the rows, a row with the return line high (any row, for  *)
(* a function without one) holds arguments and the results that executing  *)
(* the function gives for them: the lookups of callers rely on it.         *)
Sound ==
    (stage = "proving" /\ (Atomic \/ row.ret = 1)) =>
        LET st == JoinState(fn, row.st)
            Returned(end) == end.pc = RETURN /\ Outputs(fn, end.st) = Outputs(fn, st)
        IN  Returned(RunMacro(fn, 1, InitialState(fn, [r \in RegsOf(fn, "in") |-> st[r]]), MaxSteps))

(* A padded row of a function of one instruction is a call like any other: *)
(* InferPadding constructs a witness for it.                               *)
PaddingIsWitness == (stage = "compiled" /\ Atomic) => TraceHolds(<<PaddingRow>>)
=============================================================================
