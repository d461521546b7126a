-------------------------- MODULE AssignmentChunks --------------------------
(***************************************************************************)
(* Cutting an assignment x, y, ... := polynomial over limbs into           *)
(* assignments that can be evaluated within the bandwidth of a field       *)
(* (pkg/schema/agnostic/assignment.go), and what assignments compute.      *)
(* Widths are the registers of the program; w, as an argument, the widths  *)
(* of the limbs and of the fresh registers allocated so far.               *)
(***************************************************************************)
EXTENDS Polynomials, Limbs

CONSTANTS BandWidth, RegisterWidth,
          Modulus,      \* of the field
          Widths        \* of the registers of the program
-----------------------------------------------------------------------------
(* Registers and their limbs.                                              *)

LimbWidthsOf(r) == IF Widths[r] <= RegisterWidth THEN <<Widths[r]>>
                   ELSE LimbWidths(RegisterWidth, Widths[r])
LimbsBefore(r) == SumFunctionOnSet([q \in DOMAIN Widths |-> Len(LimbWidthsOf(q))], 1..(r - 1))
LimbIds(r) == [i \in DOMAIN LimbWidthsOf(r) |-> LimbsBefore(r) + i]
AllLimbs == FoldLeft(LAMBDA acc, r : acc \o LimbWidthsOf(r), <<>>, [r \in DOMAIN Widths |-> r])

ApplyLimbsMap(rids) == FoldLeft(LAMBDA acc, r : acc \o LimbIds(r), <<>>, rids)

SplitPolynomial(p) ==
    Substitute(p, [r \in RegistersRead(p) |-> LimbPolynomial(LimbIds(r), LimbWidthsOf(r))])

NewAssignment(lhs, rhs) == [lhs |-> lhs, rhs |-> rhs]

CombinedWidth(rids, w) == FoldLeft(LAMBDA acc, r : acc + w[r], 0, rids)

(* The width of an assignment: of its wider side.                          *)
AssignmentWidth(a, w) ==
    LET rhs == WidthOfPolynomial(a.rhs, w)
    IN  [rhs EXCEPT !.bits = Max({rhs.bits, CombinedWidth(a.lhs, w)})]
-----------------------------------------------------------------------------
(* Chunks of the left-hand side: [bitwidth, contents].                     *)

ChunkWidth == RegisterWidth + 1

(* Registers are taken while they fit, and a last sign bit always is.      *)
InitialiseLhsChunks(rids, signed, w) ==
    FoldLeft(LAMBDA chunks, i :
        LET r == rids[i]
            n == Len(chunks)
            signBit == i = Len(rids) /\ w[r] = 1 /\ signed
        IN  IF n > 0 /\ (chunks[n].bitwidth + w[r] <= ChunkWidth \/ signBit)
            THEN [chunks EXCEPT ![n] = [bitwidth |-> @.bitwidth + w[r], contents |-> Append(@.contents, r)]]
            ELSE Append(chunks, [bitwidth |-> w[r], contents |-> <<r>>]),
        <<>>, [i \in DOMAIN rids |-> i])

(* The overflow is an unsigned difference: where the chunk is wider than   *)
(* its right-hand side it wraps around, and two to that power is one.      *)
Pow2(n) == IF n <= 0 THEN 1 ELSE 2^n

(* A fresh register takes the bits beyond the chunk.                       *)
PropagateCarry(s, chunk, overflow) ==
    LET c == Len(s.regs) + 1
    IN  [s EXCEPT !.regs = Append(s.regs, overflow),
                  !.poly = PolyAdd(s.poly, Variable(c)),
                  !.chunk = Append(chunk, c)]

(* A faulty borrow that takes no account of the carry below it.            *)
PropagateBorrowUnit(s, chunk, overflow) ==
    LET b == Len(s.regs) + 1
    IN  [s EXCEPT !.regs = Append(s.regs, 1),
                  !.poly = PolyAdd(s.poly, Term(-1, b :> 1)),
                  !.chunk = Append(chunk, b)]

(* A fresh sign bit goes after the carry.                                  *)
PropagateBorrow(s, chunk, overflow) ==
    LET b == Len(s.regs) + 1
    IN  [s EXCEPT !.regs = Append(s.regs, 1),
                  !.poly = PolyAdd(s.poly, Term(-Pow2(overflow), b :> 1)),
                  !.chunk = Append(chunk, b)]

FitsBandWidth(bits) == bits <= BandWidth

(* Shifts the right-hand side down by one chunk.                           *)
ChunkOfWidth(s, chunk, isLast, sh, width) ==
    LET overflow == width.bits - chunk.bitwidth
        Divided == [s EXCEPT !.poly = sh.quot, !.signed = s.signed \/ width.signed, !.chunk = chunk.contents,
                             !.reads = IF FitsBandWidth(width.bits) THEN @ ELSE @ \cup RegistersRead(sh.rem)]
        Carried(st) == IF FitsBandWidth(width.bits) /\ ~isLast /\ overflow > 0
                       THEN PropagateCarry(st, st.chunk, overflow) ELSE st
        Borrowed(st) == IF st.signed /\ ~isLast THEN PropagateBorrow(st, st.chunk, overflow) ELSE st
        Assigned(st) == [st EXCEPT !.out = Append(@, NewAssignment(st.chunk, sh.rem))]
    IN  Assigned(Borrowed(Carried(Divided)))

NextRhsChunk(s, chunk, isLast) ==
    LET Remaining(sh) == ChunkOfWidth(s, chunk, isLast, sh, RawWidthOfPolynomial(sh.rem, s.regs))
    IN  Remaining(Shr(s.poly, chunk.bitwidth))

(* The chunks of both sides, and the registers that must be split.         *)
DetermineRhsChunks(p, chunks, w) ==
    FoldLeft(LAMBDA s, i : NextRhsChunk(s, chunks[i], i = Len(chunks)),
             [poly |-> p, signed |-> FALSE, regs |-> w, chunk |-> <<>>, reads |-> {}, out |-> <<>>],
             [i \in DOMAIN chunks |-> i])
-----------------------------------------------------------------------------
(* Splitting the registers that are read: [regs, parents, codes, sub].     *)

SplitVariable(s, r, div) ==
    LET width == s.regs[r]
        widths == LimbWidths((width + div - 1) \div div, width)
        limbs == [i \in DOMAIN widths |-> Len(s.regs) + i]
    IN  [regs |-> s.regs \o widths,
         parents |-> [l \in Range(limbs) |-> r] @@ s.parents,
         codes |-> Append(s.codes, NewAssignment(limbs, Variable(r))),
         sub |-> (r :> LimbPolynomial(limbs, widths)) @@ s.sub]

(* Every register that is to be divided is, whether or not it is read; a   *)
(* register of one bit is not.                                             *)
SplitRegisters(divs, w) ==
    FoldLeft(LAMBDA s, r : IF divs[r] # 1 /\ w[r] > 1 THEN SplitVariable(s, r, divs[r]) ELSE s,
             [regs |-> w, parents |-> <<>>, codes |-> <<>>, sub |-> <<>>], [r \in DOMAIN divs |-> r])

ParentOf(s, r) == IF r \in DOMAIN s.parents THEN s.parents[r] ELSE r

Subdivide(divs, s, reads) ==
    [r \in DOMAIN divs |-> IF r \in {ParentOf(s, q) : q \in reads} THEN 2 * divs[r] ELSE divs[r]]
-----------------------------------------------------------------------------
(* What assignments compute.                                               *)

(* Bits offset..offset+width-1 of a value; above its top bit those of a    *)
(* value that was negative are ones.                                       *)
ReadBitSlice(offset, width, value, sign) ==
    LET top == BitLen(value)
        ones == IF sign \/ offset + width <= top THEN 0 ELSE 2^(offset + width) - 2^top
    IN  ((value + ones) \div 2^offset) % 2^width

StoreAcross(st, value, rids, w) ==
    LET norm == IF value < 0 THEN value + 2^CombinedWidth(rids, w) ELSE value
    IN  [r \in DOMAIN st |->
            IF \E i \in DOMAIN rids : rids[i] = r
            THEN LET i == CHOOSE i \in DOMAIN rids : rids[i] = r
                 IN  ReadBitSlice(CombinedWidth(SubSeq(rids, 1, i - 1), w), w[r], norm, value >= 0)
            ELSE st[r]] @@ <<>>

MicroExecute(a, st, w) == StoreAcross(st, Eval(a.rhs, st), a.lhs, w)

HasSignBit(rids, w) == Len(rids) > 1 /\ w[rids[Len(rids)]] = 1

(* The constraint of an assignment in the field, when its targets together *)
(* hold sum and its right-hand side is value: the sign bit of a difference *)
(* moves to the right-hand side.                                           *)
TranslateAssign(a, sum, value, w) ==
    LET top == 2^(CombinedWidth(a.lhs, w) - 1)
        sign == (sum \div top) * top
    IN  IF WidthOfPolynomial(a.rhs, w).signed
        THEN (sum - sign - (value + sign)) % Modulus = 0
        ELSE (sum - value) % Modulus = 0
=============================================================================
