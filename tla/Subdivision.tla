---------------------------- MODULE Subdivision -----------------------------
(***************************************************************************)
(* Splitting an equation between polynomials into equations that can be    *)
(* evaluated within the bandwidth of a field                               *)
(* (pkg/schema/agnostic/equation.go).  Both sides are cut into chunks; a   *)
(* chunk that may overflow gives the excess to the next chunk through a    *)
(* fresh carry register.  Where one term alone exceeds the bandwidth, the  *)
(* registers it multiplies are split into fresh limbs, tied to them by     *)
(* context equations.                                                      *)
(*                                                                         *)
(* A variable of a polynomial is an access [reg, shift, mask].  An         *)
(* allocator is a record [regs, fills]: the widths of all registers, the   *)
(* fresh ones last, and how the fresh ones are computed, each a record     *)
(* [targets, rshift, poly].                                                *)
(***************************************************************************)
EXTENDS Polynomials, Limbs

CONSTANTS BandWidth, RegisterWidth,
          Modulus       \* of the field

(* Every configuration has a prime that needs one bit more than the        *)
(* bandwidth, and registers below the bandwidth.                           *)
ASSUME BandWidthAssumption ==
    /\ RegisterWidth \in Nat \ {0} /\ BandWidth > RegisterWidth
    /\ Modulus \in (2^BandWidth + 1)..(2^(BandWidth + 1) - 1)

Access(r, shift, mask) == [reg |-> r, shift |-> shift, mask |-> mask]

MaskWidths(p) == [x \in RegistersRead(p) |-> x.mask]
BitsOfPolynomial(p) == WidthOfPolynomial(p, MaskWidths(p)).bits
BitsOfMonomial(v, c) == WidthOfMonomial(v, c, [x \in DOMAIN v |-> x.mask]).bits
-----------------------------------------------------------------------------
(* The register allocator.                                                 *)

Allocator(regs) == [regs |-> regs, fills |-> <<>>]

FreshIds(alloc, widths) == [i \in DOMAIN widths |-> Len(alloc.regs) + i]

(* AllocateWith and AllocateWithN: one computation fills all of them.      *)
AllocateWith(alloc, widths, rshift, p) ==
    [regs |-> alloc.regs \o widths,
     fills |-> Append(alloc.fills, [targets |-> FreshIds(alloc, widths), rshift |-> rshift, poly |-> p])]

(* Gives up all registers but the first n.                                 *)
Reset(alloc, n) ==
    [regs |-> SubSeq(alloc.regs, 1, n), fills |-> SelectSeq(alloc.fills, LAMBDA f : f.targets[1] <= n)]
-----------------------------------------------------------------------------
(* Equations.                                                              *)

NewEquation(lhs, rhs) == [lhs |-> lhs, rhs |-> rhs]

(* The terms of p that are negative, negated, and the others.              *)
BalancePolynomial(p) ==
    [pos |-> Terms(p, [v \in DOMAIN p |-> IF p[v] < 0 THEN 0 ELSE p[v]]),
     neg |-> Terms(p, [v \in DOMAIN p |-> IF p[v] < 0 THEN -p[v] ELSE 0])]


(* Negative terms move to the other side.                                  *)
Balance(eq) ==
    LET Moved(l, r) == NewEquation(PolyAdd(l.pos, r.neg), PolyAdd(r.pos, l.neg))
    IN  IF ~Signed(eq.lhs) /\ ~Signed(eq.rhs) THEN eq
        ELSE Moved(BalancePolynomial(eq.lhs), BalancePolynomial(eq.rhs))

EquationWidth(eq) == Max({BitsOfPolynomial(eq.lhs), BitsOfPolynomial(eq.rhs)})

DetermineChunkBitwidths(eq, max) ==
    LET Chunks(bits) == [i \in 1..((bits + max - 1) \div max) |-> Min({max, bits - (i - 1) * max})]
    IN  Chunks(EquationWidth(eq))
-----------------------------------------------------------------------------
(* Splitting the registers of terms that exceed the bandwidth.             *)

AccessOfLimbs(ids, widths, bits, shift) ==
    LET masks == LimbMasks(bits, widths)
    IN  LimbPolynomial([i \in DOMAIN ids |-> Access(ids[i], shift, masks[i])], masks)

(* Registers above the width in terms above the bandwidth.                 *)
VarsToSplit(p, width, alloc) ==
    {x.reg : x \in {y \in UNION {DOMAIN v : v \in {u \in DOMAIN p : BitsOfMonomial(u, p[u]) > BandWidth}} :
                        alloc.regs[y.reg] > width}}

(* The splitter of variables: [alloc, eqs, limbs], limbs a function from   *)
(* the registers it has split.                                             *)
SplitVariable(sp, r, width) ==
    LET bits == sp.alloc.regs[r]
        widths == LimbWidths(width, bits)
        ids == FreshIds(sp.alloc, widths)
        whole == Variable(Access(r, 0, bits))
    IN  [alloc |-> AllocateWith(sp.alloc, widths, 0, whole),
         eqs |-> Append(sp.eqs, NewEquation(whole, AccessOfLimbs(ids, widths, bits, 0))),
         limbs |-> (r :> [ids |-> ids, widths |-> widths]) @@ sp.limbs]

SplitVariables(alloc, regs, width) ==
    FoldLeft(LAMBDA sp, r : IF r \in regs THEN SplitVariable(sp, r, width) ELSE sp,
             [alloc |-> alloc, eqs |-> <<>>, limbs |-> <<>>], [r \in DOMAIN alloc.regs |-> r])

(* Every access to a split register becomes one to its limbs.              *)
ApplySplit(p, limbs) ==
    Substitute(p, [x \in {y \in RegistersRead(p) : y.reg \in DOMAIN limbs} |->
                      AccessOfLimbs(limbs[x.reg].ids, limbs[x.reg].widths, x.mask, x.shift)])

SplitNonLinearTerms(width, p, alloc) ==
    LET Applied(sp) == [poly |-> ApplySplit(p, sp.limbs), eqs |-> sp.eqs, alloc |-> sp.alloc]
    IN  Applied(SplitVariables(alloc, VarsToSplit(p, width, alloc), width))
-----------------------------------------------------------------------------
(* Chunks.                                                                 *)

(* The polynomials shifted down by each width in turn, least first: the    *)
(* remainders are the chunks, without those where nothing is left.         *)
ChunkEquation(lhs, rhs, widths) ==
    LET Chunk(st, l, r) ==
            LET empty == {l.quot, l.rem, r.quot, r.rem} = {ZeroPoly}
            IN  [lhs |-> l.quot, rhs |-> r.quot,
                 left |-> IF empty THEN st.left ELSE Append(st.left, l.rem),
                 right |-> IF empty THEN st.right ELSE Append(st.right, r.rem)]
    IN  FoldLeft(LAMBDA st, w : Chunk(st, Shr(st.lhs, w), Shr(st.rhs, w)),
        [lhs |-> lhs, rhs |-> rhs, left |-> <<>>, right |-> <<>>], widths)

(* A faulty carry that is not added to the next chunk.                     *)
AddCarryDropped(st, i, width, bits) ==
    LET carry == Access(Len(st.alloc.regs) + 1, 0, bits - width)
    IN  [ok |-> TRUE,
         alloc |-> AllocateWith(st.alloc, <<bits - width>>, width, st.chunks[i]),
         chunks |-> [st.chunks EXCEPT ![i] = PolySub(@, Term(2^width, carry :> 1))]]

(* The excess of chunk i, bits above its width, goes to the next.          *)
AddCarry(st, i, width, bits) ==
    LET carry == Access(Len(st.alloc.regs) + 1, 0, bits - width)
    IN  [ok |-> TRUE,
         alloc |-> AllocateWith(st.alloc, <<bits - width>>, width, st.chunks[i]),
         chunks |-> [st.chunks EXCEPT ![i] = PolySub(@, Term(2^width, carry :> 1)),
                                      ![i + 1] = PolyAdd(@, Variable(carry))]]

(* From the least chunk up; gives up on one that exceeds the bandwidth.    *)
AddCarryLines(chunks, widths, alloc) ==
    LET Line(st, i, bits) ==
            CASE ~st.ok -> st
              [] st.ok /\ bits > BandWidth -> [st EXCEPT !.ok = FALSE]
              [] st.ok /\ bits <= BandWidth /\ i < Len(chunks) /\ bits > widths[i] ->
                   AddCarry(st, i, widths[i], bits)
              [] OTHER -> st
    IN  FoldLeft(LAMBDA st, i : Line(st, i, BitsOfPolynomial(st.chunks[i])),
        [ok |-> TRUE, alloc |-> alloc, chunks |-> chunks], [i \in DOMAIN chunks |-> i])

(* The outcome of an attempt: the chunks of both sides, with their carries.*)
Chunked(context, lhs, rhs) ==
    LET eqs == [i \in DOMAIN rhs.chunks |-> NewEquation(lhs.chunks[i], rhs.chunks[i])]
    IN  [ok |-> lhs.ok /\ rhs.ok, alloc |-> rhs.alloc, context |-> context,
         targets |-> SelectSeq(eqs, LAMBDA e : e.lhs # ZeroPoly \/ e.rhs # ZeroPoly)]

(* Carries are added to the chunks of the left side, then of the right.    *)
CarriedRight(context, chunks, widths, lhs) == Chunked(context, lhs, AddCarryLines(chunks.right, widths, lhs.alloc))
CarriedLeft(context, chunks, widths, alloc) ==
    CarriedRight(context, chunks, widths, AddCarryLines(chunks.left, widths, alloc))

(* One attempt, with chunks of a given width: the left side is split, then *)
(* the right one, then both are cut up.                                    *)
AttemptSplit(left, right, widths) ==
    CarriedLeft(left.eqs \o right.eqs, ChunkEquation(left.poly, right.poly, widths), widths, right.alloc)
AttemptRight(eq, width, left) ==
    AttemptSplit(left, SplitNonLinearTerms(width, eq.rhs, left.alloc), DetermineChunkBitwidths(eq, width))
ChunkAttempt(eq, width, alloc) == AttemptRight(eq, width, SplitNonLinearTerms(width, eq.lhs, alloc))

(* Attempts with chunks ever smaller, until one fits; with chunks of no    *)
(* width the attempts never end.                                           *)
RECURSIVE ChunkUp(_, _, _)
ChunkUp(eq, width, alloc) ==
    LET Tried(try) ==
            IF try.ok THEN [targets |-> try.targets, context |-> try.context, alloc |-> try.alloc, ends |-> TRUE]
            ELSE ChunkUp(eq, width \div 2, Reset(try.alloc, Len(alloc.regs)))
    IN  IF width = 0 THEN [targets |-> <<>>, context |-> <<>>, alloc |-> alloc, ends |-> FALSE]
        ELSE Tried(ChunkAttempt(eq, width, alloc))

(* What fits within the bandwidth stays as it is.                          *)
SplitBalanced(eq, balanced, alloc) ==
    IF EquationWidth(balanced) > BandWidth THEN ChunkUp(balanced, RegisterWidth, alloc)
    ELSE [targets |-> <<eq>>, context |-> <<>>, alloc |-> alloc, ends |-> TRUE]
SplitEquation(eq, alloc) == SplitBalanced(eq, Balance(eq), alloc)
-----------------------------------------------------------------------------
(* Subdividing the modules of a schema so that they fit a field            *)
(* (pkg/ir/mir/subdivide*.go): every register becomes its limbs, and every *)
(* assignment and constraint is rewritten over limbs.  Vanishing           *)
(* constraints are split into equations within the bandwidth, for which    *)
(* fresh computed registers are added to the module, each with a range     *)
(* constraint.  Afterwards a trace of the original registers is split into *)
(* limbs and the assignments compute the rest.                             *)
(*                                                                         *)
(* Terms, constraints and traces are those of Constraints; registers are   *)
(* numbered from 1 in each module.  A subdivided vanishing constraint has  *)
(* kind "split" and a formula over equations of polynomials.               *)

CONSTANTS WideModulus,\* of a field in which no register needs limbs
          FieldWidth,
          Programs    \* records [widths, inputs, heights, items]

VARIABLES program,
          pending,    \* the assignments and constraints still to subdivide
          regs,       \* per module: the widths of its registers
          zero,       \* per module: its constant register, or 0
          fills,      \* the assignments of the subdivided schema, in order
          done,       \* its constraints
          status,     \* "subdividing", "ready", "traced", "panic" or "diverges"
          original,   \* a trace of the program
          expanded    \* it, over limbs and fresh registers
vars == <<program, pending, regs, zero, fills, done, status, original, expanded>>

Wide == INSTANCE Constraints WITH P <- WideModulus
Field == INSTANCE Constraints WITH P <- Modulus

Node(op, args) == [op |-> op, args |-> args]
-----------------------------------------------------------------------------
(* Registers and their limbs.                                              *)

Registers(m) == DOMAIN program.widths[m]
LimbWidthsOf(m, r) ==
    LET w == program.widths[m][r] IN IF w <= RegisterWidth THEN <<w>> ELSE LimbWidths(RegisterWidth, w)
LimbsBefore(m, r) == MapThenSumSet(LAMBDA q : Len(LimbWidthsOf(m, q)), 1..(r - 1))
LimbIds(m, r) == [i \in DOMAIN LimbWidthsOf(m, r) |-> LimbsBefore(m, r) + i]

LimbsOfModule(p, m) ==
    FoldLeft(LAMBDA acc, w : acc \o (IF w <= RegisterWidth THEN <<w>> ELSE LimbWidths(RegisterWidth, w)),
             <<>>, p.widths[m])

ApplyLimbsMap(m, rids) == FoldLeft(LAMBDA acc, r : acc \o LimbIds(m, r), <<>>, rids)

(* The limbs an access uses; the first is never left out.                  *)
SubdivideRawRegisterAccess(t, m) ==
    LET ids == LimbIds(m, t.reg)
        widths == LimbWidthsOf(m, t.reg)
        masks == LimbMasks(t.mask, widths)
    IN  [i \in 1..Max({1} \union {j \in DOMAIN ids : masks[j] > 0}) |->
            Field!Mask(Field!RawRegisterAccess(ids[i], widths[i], t.shift), masks[i])]

SubdivideVectorAccess(t, m) ==
    Node("vec", FoldLeft(LAMBDA acc, v : acc \o SubdivideRawRegisterAccess(v, m), <<>>, t.args))

SubdivideRegisterAccess(t, m) ==
    LET ts == SubdivideRawRegisterAccess(t, m)
    IN  IF Len(ts) = 1 THEN ts[1] ELSE Node("vec", ts)

RECURSIVE SubdivideTerm(_, _)
SubdivideTerm(t, m) ==
    CASE t.op = "const" -> t
      [] t.op = "reg" -> SubdivideRegisterAccess(t, m)
      [] t.op = "vec" -> SubdivideVectorAccess(t, m)
      [] OTHER -> Node(t.op, [i \in DOMAIN t.args |-> SubdivideTerm(t.args[i], m)])
-----------------------------------------------------------------------------
(* Terms as polynomials.                                                   *)

TermRegAccessToPolynomial(t) == Variable(Access(t.reg, t.shift, t.mask))

TermVecAccessToPolynomial(t) ==
    FoldSet(LAMBDA i, acc :
                LET below == SumFunctionOnSet([j \in DOMAIN t.args |-> t.args[j].mask], 1..(i - 1))
                IN  PolyAdd(acc, PolyMul(Const(2^below), TermRegAccessToPolynomial(t.args[i]))),
            ZeroPoly, DOMAIN t.args)

RECURSIVE TermToPolynomial(_)
TermToPolynomial(t) ==
    LET args == [i \in DOMAIN t.args |-> TermToPolynomial(t.args[i])]
        over(Op(_, _)) == FoldLeft(Op, args[1], Tail(args))
    IN  CASE t.op = "const" -> Const(t.val)
          [] t.op = "reg" -> TermRegAccessToPolynomial(t)
          [] t.op = "vec" -> TermVecAccessToPolynomial(t)
          [] t.op = "add" -> over(PolyAdd)
          [] t.op = "sub" -> over(PolySub)
          [] t.op = "mul" -> over(PolyMul)

(* A term made from a polynomial again: what it evaluates to, the sum of   *)
(* its positive terms less that of its negative ones.                      *)
EvalMonomialTerm(v, c, env) == FoldSet(LAMBDA x, acc : (acc * env[x]^v[x]) % Modulus, AbsVal(c) % Modulus, DOMAIN v)

EvalPolynomialTerm(p, env) ==
    FoldSet(LAMBDA v, acc : acc + (IF p[v] < 0 THEN -1 ELSE 1) * EvalMonomialTerm(v, p[v], env),
            0, DOMAIN p) % Modulus
-----------------------------------------------------------------------------
(* Vanishing constraints.  A result is [target, context, alloc, ends].     *)

Truth == Node("and", <<>>)
Conjunction(fs) == Node("and", fs)
Equals(eq) == [op |-> "eq", lhs |-> eq.lhs, rhs |-> eq.rhs]
NotEquals(eq) == [op |-> "ne", lhs |-> eq.lhs, rhs |-> eq.rhs]
Select(s, Op(_)) == [i \in DOMAIN s |-> Op(s[i])]

(* An equation holds if all its chunks do, a disequality if one does.  One *)
(* of a single chunk keeps the terms it had.                               *)
ChunkedEquality(op, path, s) ==
    [target |-> IF op = "eq" THEN Node("and", Select(s.targets, Equals)) ELSE Node("or", Select(s.targets, NotEquals)),
     context |-> Node("ite", <<path, Conjunction(Select(s.context, Equals)), Truth>>),
     alloc |-> s.alloc, ends |-> s.ends]
UnsplitEquality(op, eq, s) ==
    [target |-> IF op = "eq" THEN Equals(eq) ELSE NotEquals(eq), context |-> Truth, alloc |-> s.alloc, ends |-> s.ends]

SplitEquality(t, path, m, alloc) ==
    LET eq == NewEquation(TermToPolynomial(SubdivideTerm(t.args[1], m)), TermToPolynomial(SubdivideTerm(t.args[2], m)))
        Combined(s) == IF Len(s.targets) = 1 /\ s.context = <<>> THEN UnsplitEquality(t.op, eq, s)
                       ELSE ChunkedEquality(t.op, path, s)
    IN  Combined(SplitEquation(eq, alloc))

(* The parts of a formula are split from left to right with one allocator. *)
RECURSIVE SplitLogicalTerm(_, _, _, _)
SplitLogicalTerms(ts, path, m, alloc) ==
    FoldLeft(LAMBDA acc, t :
                LET s == SplitLogicalTerm(t, path, m, acc.alloc)
                IN  [targets |-> Append(acc.targets, s.target), contexts |-> Append(acc.contexts, s.context),
                     alloc |-> s.alloc, ends |-> acc.ends /\ s.ends],
             [targets |-> <<>>, contexts |-> <<>>, alloc |-> alloc, ends |-> TRUE], ts)

(* The branches of a conditional are split under the path to them.         *)
SplitIte(t, path, m, alloc) ==
    LET cond == SplitLogicalTerm(t.args[1], path, m, alloc)
        yes == SplitLogicalTerm(t.args[2], Conjunction(<<cond.target, path>>), m, cond.alloc)
        no == SplitLogicalTerm(t.args[3], Conjunction(<<Node("not", <<cond.target>>), path>>), m, yes.alloc)
    IN  [target |-> Node("ite", <<cond.target, yes.target, no.target>>),
         context |-> Conjunction(<<cond.context, yes.context, no.context>>),
         alloc |-> no.alloc, ends |-> cond.ends /\ yes.ends /\ no.ends]

SplitLogicalTerm(t, path, m, alloc) ==
    CASE t.op \in {"and", "or", "not"} ->
           LET s == SplitLogicalTerms(t.args, path, m, alloc)
           IN  [target |-> Node(t.op, s.targets), context |-> Conjunction(s.contexts),
                alloc |-> s.alloc, ends |-> s.ends]
      [] t.op \in {"eq", "ne"} -> SplitEquality(t, path, m, alloc)
      [] t.op = "ite" -> SplitIte(t, path, m, alloc)
      [] t.op = "nil" -> [target |-> Truth, context |-> Truth, alloc |-> alloc, ends |-> TRUE]
-----------------------------------------------------------------------------
(* The other kinds of constraint.                                          *)

SubdivideLogical(t, m) ==
    Wide!Subdivide(t, [r \in Registers(m) |->
        [i \in DOMAIN LimbIds(m, r) |-> [reg |-> LimbIds(m, r)[i], width |-> LimbWidthsOf(m, r)[i]]]])

SubdivideAssertion(c) == [c EXCEPT !.term = SubdivideLogical(c.term, c.module)]

SubdivideInterleaving(c) ==
    [c EXCEPT !.target = SubdivideVectorAccess(c.target, c.module),
              !.terms = [i \in DOMAIN c.terms |-> SubdivideVectorAccess(c.terms[i], c.source)]]

IrregularPermutation(m, n, sources, targets) ==
    \E i \in DOMAIN sources : Len(LimbIds(m, sources[i])) # Len(LimbIds(n, targets[i]))

SubdividePermutation(c) ==
    [c EXCEPT !.sources = ApplyLimbsMap(c.module, c.sources), !.targets = ApplyLimbsMap(c.module, c.targets)]

(* The width is spread over the limbs, the least first.                    *)
SubdivideRange(c) ==
    LET split == [i \in DOMAIN c.terms |-> SubdivideRawRegisterAccess(c.terms[i], c.module)]
    IN  [c EXCEPT !.terms = FoldLeft(LAMBDA acc, ts : acc \o ts, <<>>, split),
                  !.widths = FoldLeft(LAMBDA acc, i :
                                 acc \o LimbMasks(c.widths[i], [j \in DOMAIN split[i] |-> split[i][j].mask]),
                                 <<>>, [i \in DOMAIN split |-> i])]

(* The most significant limb of each source first.                         *)
SortedLimbs(m, ts) ==
    [i \in DOMAIN ts |-> Reverse(SubdivideRawRegisterAccess(ts[i], m))]

(* Every limb has the sign of its source.                                  *)
LimbSigns(limbs, signs) ==
    FoldLeft(LAMBDA acc, i : acc \o [j \in DOMAIN limbs[i] |-> signs[i]], <<>>, [i \in DOMAIN signs |-> i])

IrregularSelector(t, m) == t.op = "reg" /\ Len(SubdivideRawRegisterAccess(t, m)) # 1
SubdivideSelector(t, m) == IF t.op = "reg" THEN SubdivideRawRegisterAccess(t, m)[1] ELSE t

SubdivideSorted(c) ==
    LET limbs == SortedLimbs(c.module, c.terms)
        all == FoldLeft(LAMBDA acc, ts : acc \o ts, <<>>, limbs)
    IN  [c EXCEPT !.terms = all, !.signs = LimbSigns(limbs, c.signs),
                  !.selector = SubdivideSelector(c.selector, c.module),
                  !.width = Max({Min({t.width, t.mask}) : t \in Range(all)})]
-----------------------------------------------------------------------------
(* Lookups.  The geometry is, for each column, the widest of its terms.    *)

Geometry(c) ==
    [i \in DOMAIN c.sources[1].terms |-> Max({v.terms[i].mask : v \in Range(c.sources) \union Range(c.targets)})]

GeometryLimbs(c, i) == IF Geometry(c)[i] = 0 THEN <<>> ELSE LimbWidths(RegisterWidth, Geometry(c)[i])

(* All limbs but the last have exactly the width of the geometry; a last   *)
(* one just beyond the geometry is not noticed.                            *)
IrregularLimbs(limbs, widths) ==
    \E i \in DOMAIN limbs :
        IF i <= Len(widths) THEN limbs[i].mask > widths[i] \/ (i # Len(limbs) /\ limbs[i].mask # widths[i])
        ELSE ~(i = Len(widths) + 1 /\ i = Len(limbs))

IrregularLookup(c) ==
    \E v \in Range(c.sources) \union Range(c.targets) :
        \/ IrregularSelector(v.selector, v.module)
        \/ \E i \in DOMAIN v.terms : IrregularLimbs(SubdivideRawRegisterAccess(v.terms[i], v.module), GeometryLimbs(c, i))

(* Missing limbs are zero.                                                 *)
PadLookupLimb(limbs, widths, pad) == limbs \o [i \in 1..(Len(widths) - Len(limbs)) |-> pad]

NeedsZero(c, m) ==
    \E v \in Range(c.sources) \union Range(c.targets) :
        /\ v.module = m
        /\ \E i \in DOMAIN v.terms : Len(SubdivideRawRegisterAccess(v.terms[i], m)) < Len(GeometryLimbs(c, i))

SplitLookupVector(c, v, z) ==
    LET limbs(i) == PadLookupLimb(SubdivideRawRegisterAccess(v.terms[i], v.module), GeometryLimbs(c, i),
                                  Field!RawRegisterAccess(z[v.module], 0, 0))
    IN  [module |-> v.module, selector |-> SubdivideSelector(v.selector, v.module),
         terms |-> FoldLeft(LAMBDA acc, i : acc \o limbs(i), <<>>, [i \in DOMAIN v.terms |-> i])]

SubdivideLookup(c, z) ==
    [c EXCEPT !.sources = [i \in DOMAIN c.sources |-> SplitLookupVector(c, c.sources[i], z)],
              !.targets = [i \in DOMAIN c.targets |-> SplitLookupVector(c, c.targets[i], z)]]
-----------------------------------------------------------------------------
(* Assignments.  All fresh registers and the limbs of a computed register  *)
(* are filled row by row, the targets of a sorted permutation at once.     *)

SubdivideComputedRegister(a) ==
    [a EXCEPT !.targets = ApplyLimbsMap(a.module, a.targets), !.expr = SubdivideLogical(a.expr, a.module)]

PermutedLimbs(m, rids) == [i \in DOMAIN rids |-> Reverse(LimbIds(m, rids[i]))]

SubdivideSortedPermutation(a) ==
    LET sources == PermutedLimbs(a.source, a.sources)
        targets == PermutedLimbs(a.module, a.targets)
    IN  [a EXCEPT !.sources = FoldLeft(LAMBDA acc, ids : acc \o ids, <<>>, sources),
                  !.targets = FoldLeft(LAMBDA acc, ids : acc \o ids, <<>>, targets),
                  !.signs = LimbSigns(sources, a.signs)]
-----------------------------------------------------------------------------
(* The subdivision of a schema, one assignment or constraint at a time.    *)

Init ==
    /\ program \in Programs
    /\ pending = program.items
    /\ regs = [m \in DOMAIN program.widths |-> LimbsOfModule(program, m)]
    /\ zero = [m \in DOMAIN program.widths |-> 0]
    /\ fills = <<>> /\ done = <<>>
    /\ status = "subdividing"
    /\ original = <<>> /\ expanded = <<>>

Item(kinds) == status = "subdividing" /\ pending # <<>> /\ Head(pending).kind \in kinds

Adds(c) == /\ done' = Append(done, c)
           /\ pending' = Tail(pending)
           /\ UNCHANGED <<program, regs, zero, fills, status, original, expanded>>

Panics == /\ status' = "panic"
          /\ UNCHANGED <<program, pending, regs, zero, fills, done, original, expanded>>

(* Every fresh register is constrained to its width.                       *)
FlushRanges(m, alloc) ==
    [i \in 1..(Len(alloc.regs) - Len(regs[m])) |->
        LET r == Len(regs[m]) + i
        IN  [kind |-> "range", module |-> m, widths |-> <<alloc.regs[r]>>,
             terms |-> <<Field!RawRegisterAccess(r, alloc.regs[r], 0)>>]]

FlushFills(m, alloc) ==
    [i \in DOMAIN alloc.fills |-> [kind |-> "poly", module |-> m] @@ alloc.fills[i]]

(* The allocator starts from the registers the module has by now; those it *)
(* allocates are added to the module with their assignments.               *)
SubdivideVanishing ==
    /\ Item({"vanishing"})
    /\ LET c == Head(pending)
       IN  \E s \in {SplitLogicalTerm(c.term, Truth, c.module, Allocator(regs[c.module]))} :
             IF ~s.ends
             THEN /\ status' = "diverges"
                  /\ UNCHANGED <<program, pending, regs, zero, fills, done, original, expanded>>
             ELSE /\ regs' = [regs EXCEPT ![c.module] = s.alloc.regs]
                  /\ fills' = fills \o FlushFills(c.module, s.alloc)
                  /\ done' = Append(done \o FlushRanges(c.module, s.alloc),
                                    [kind |-> "split", module |-> c.module, domain |-> c.domain,
                                     formula |-> Conjunction(<<s.context, s.target>>)])
                  /\ pending' = Tail(pending)
                  /\ UNCHANGED <<program, zero, status, original, expanded>>

SubdivideOther ==
    LET c == Head(pending)
    IN  \/ Item({"assertion"}) /\ Adds(SubdivideAssertion(c))
        \/ Item({"interleaving"}) /\ Adds(SubdivideInterleaving(c))
        \/ Item({"range"}) /\ Adds(SubdivideRange(c))
        \/ /\ Item({"permutation"})
           /\ IF IrregularPermutation(c.module, c.module, c.sources, c.targets) THEN Panics
              ELSE Adds(SubdividePermutation(c))
        \/ /\ Item({"sorted"})
           /\ IF IrregularSelector(c.selector, c.module) THEN Panics ELSE Adds(SubdivideSorted(c))

(* The constant register of a module is made when first needed.            *)
SubdivideLookups ==
    /\ Item({"lookup"})
    /\ LET c == Head(pending)
           makes(m) == zero[m] = 0 /\ NeedsZero(c, m)
       IN  IF IrregularLookup(c) THEN Panics
           ELSE /\ zero' = [m \in DOMAIN zero |-> IF makes(m) THEN Len(regs[m]) + 1 ELSE zero[m]]
                /\ regs' = [m \in DOMAIN regs |-> IF makes(m) THEN Append(regs[m], 0) ELSE regs[m]]
                /\ done' = Append(done, SubdivideLookup(c, zero'))
                /\ pending' = Tail(pending)
                /\ UNCHANGED <<program, fills, status, original, expanded>>

SubdivideAssignment ==
    /\ Item({"computed", "sortperm"})
    /\ LET a == Head(pending)
       IN  IF a.kind = "sortperm" /\ IrregularPermutation(a.source, a.module, a.sources, a.targets) THEN Panics
           ELSE /\ fills' = Append(fills, IF a.kind = "computed" THEN SubdivideComputedRegister(a)
                                          ELSE SubdivideSortedPermutation(a))
                /\ pending' = Tail(pending)
                /\ UNCHANGED <<program, regs, zero, done, status, original, expanded>>

Finish ==
    /\ status = "subdividing" /\ pending = <<>>
    /\ status' = "ready"
    /\ UNCHANGED <<program, pending, regs, zero, fills, done, original, expanded>>
-----------------------------------------------------------------------------
(* Traces.                                                                 *)

Column(data) == [data |-> data, pad |-> 0]

(* A module's trace with the values of some columns replaced.              *)
WithColumns(mod, cols) == [mod EXCEPT !.cols = [r \in DOMAIN mod.cols |-> IF r \in DOMAIN cols THEN cols[r] ELSE mod.cols[r]]]

(* The columns of targets that together hold the values, least first.      *)
ColumnsOf(values, targets, widths) ==
    LET w == [i \in DOMAIN targets |-> widths[targets[i]]]
    IN  [r \in Range(targets) |->
            LET i == CHOOSE j \in DOMAIN targets : targets[j] = r
            IN  Column([k \in DOMAIN values |-> SplitWord(values[k], w)[i]])]

Env(p, cols, k) == [x \in RegistersRead(p) |-> Field!Get(cols[x.reg], k + x.shift)]

(* PolyFil: evaluated over words, and shifted down.                        *)
PolyFill(f, mod, k) == Eval(f.poly, Env(f.poly, mod.cols, k)) \div 2^f.rshift

LexBefore(signs, a, b) ==
    \E i \in DOMAIN signs : /\ a[i] # b[i] /\ (a[i] < b[i]) = signs[i]
                            /\ \A j \in 1..(i - 1) : a[j] = b[j]

SortedRowsOf(f, mod) ==
    SortSeq([k \in 1..mod.height |-> [i \in DOMAIN f.sources |-> mod.cols[f.sources[i]].data[k]]],
            LAMBDA a, b : LexBefore(f.signs, a, b))

Fill(tr, f, widths) ==
    LET mod == tr[f.module]
        values == [k \in 1..mod.height |->
                      IF f.kind = "poly" THEN PolyFill(f, mod, k) ELSE Wide!EvalAt(f.expr, k - 1, mod).val]
        rows == SortedRowsOf(f, tr[f.source])
        cols == IF f.kind = "sortperm"
                THEN [r \in Range(f.targets) |->
                        Column([k \in 1..mod.height |-> rows[k][CHOOSE i \in DOMAIN f.targets : f.targets[i] = r]])]
                ELSE ColumnsOf(values, f.targets, widths[f.module])
    IN  [m \in DOMAIN tr |-> IF m = f.module THEN WithColumns(mod, cols) ELSE tr[m]]

FillAll(tr, fs, widths) == FoldLeft(LAMBDA acc, f : Fill(acc, f, widths), tr, fs)

IsAssignment(i) == i.kind \in {"computed", "sortperm"}
AssignmentsOf(p) == SelectSeq(p.items, IsAssignment)
ConstraintsOf(p) == SelectSeq(p.items, LAMBDA i : ~IsAssignment(i))

(* The traces of the program: inputs of any values, the rest computed.     *)
InputColumns(p, m, h) ==
    LET max == Max({0} \union {2^p.widths[m][r] - 1 : r \in p.inputs[m]})
    IN  {f \in [p.inputs[m] -> [1..h -> 0..max]] : \A r \in p.inputs[m], k \in 1..h : f[r][k] < 2^p.widths[m][r]}

TraceOf(p, inputs) ==
    FillAll([m \in DOMAIN p.widths |->
                [height |-> p.heights[m],
                 cols |-> [r \in DOMAIN p.widths[m] |->
                              Column(IF r \in p.inputs[m] THEN inputs[m][r] ELSE [k \in 1..p.heights[m] |-> 0])]]],
            AssignmentsOf(p), p.widths)

LimbColumns(m, col, r) ==
    [i \in DOMAIN LimbIds(m, r) |-> Column([k \in DOMAIN col.data |-> SplitWord(col.data[k], LimbWidthsOf(m, r))[i]])]

(* The trace over limbs, with zeros in all registers that follow.          *)
SplitTrace(tr) ==
    [m \in DOMAIN tr |->
        [height |-> tr[m].height,
         cols |-> FoldLeft(LAMBDA acc, r : acc \o LimbColumns(m, tr[m].cols[r], r), <<>>, [r \in Registers(m) |-> r])
                  \o [i \in 1..(Len(regs[m]) - Len(LimbsOfModule(program, m))) |->
                         Column([k \in 1..tr[m].height |-> 0])]]]

(* Input limbs come with the trace, the assignments fill everything else.  *)
ExpandTrace ==
    /\ status = "ready"
    /\ \E inputs \in [DOMAIN program.widths -> UNION {InputColumns(program, m, program.heights[m]) : m \in DOMAIN program.widths}] :
         /\ \A m \in DOMAIN program.widths : inputs[m] \in InputColumns(program, m, program.heights[m])
         /\ original' = TraceOf(program, inputs)
         /\ expanded' = FillAll(SplitTrace(original'), fills, regs)
    /\ status' = "traced"
    /\ UNCHANGED <<program, pending, regs, zero, fills, done>>

Next == SubdivideVanishing \/ SubdivideOther \/ SubdivideLookups \/ SubdivideAssignment \/ Finish \/ ExpandTrace

Spec == Init /\ [][Next]_vars
-----------------------------------------------------------------------------
(* What the subdivided schema accepts.                                     *)

RECURSIVE Holds(_, _, _)
Holds(f, k, cols) ==
    CASE f.op = "eq" -> EvalPolynomialTerm(f.lhs, Env(f.lhs, cols, k)) = EvalPolynomialTerm(f.rhs, Env(f.rhs, cols, k))
      [] f.op = "ne" -> EvalPolynomialTerm(f.lhs, Env(f.lhs, cols, k)) # EvalPolynomialTerm(f.rhs, Env(f.rhs, cols, k))
      [] f.op = "and" -> \A i \in DOMAIN f.args : Holds(f.args[i], k, cols)
      [] f.op = "or" -> \E i \in DOMAIN f.args : Holds(f.args[i], k, cols)
      [] f.op = "not" -> ~Holds(f.args[1], k, cols)
      [] f.op = "ite" -> IF Holds(f.args[1], k, cols) THEN Holds(f.args[2], k, cols) ELSE Holds(f.args[3], k, cols)

RECURSIVE ShiftsOf(_)
ShiftsOf(f) ==
    IF f.op \in {"eq", "ne"} THEN {x.shift : x \in RegistersRead(f.lhs) \union RegistersRead(f.rhs)}
    ELSE UNION {ShiftsOf(f.args[i]) : i \in DOMAIN f.args}

RowsOfSplit(c, height) ==
    LET shifts == ShiftsOf(c.formula) \union {0}
    IN  IF c.domain = Field!None
        THEN Field!InBounds([start |-> -Min(shifts), end |-> Max(shifts)], height)
        ELSE {IF c.domain < 0 THEN height + c.domain ELSE c.domain}

SplitAccepts(c, tr) ==
    CASE c.kind = "split" ->
           \A k \in RowsOfSplit(c, tr[c.module].height) : Holds(c.formula, k + 1, tr[c.module].cols)
      [] c.kind = "assertion" -> Wide!AcceptsConstraint(c, tr).fail = "none"
      [] OTHER -> Field!AcceptsConstraint(c, tr).fail = "none"

AcceptsOriginal(p, tr) == \A c \in Range(ConstraintsOf(p)) : Wide!AcceptsConstraint(c, tr).fail = "none"
AcceptsSubdivided(tr) == \A c \in Range(done) : SplitAccepts(c, tr)

(* The traces that differ from the expanded one in the fresh registers of  *)
(* module m only, with any values their range constraints leave.           *)
FreshRegisters(m) ==
    SelectSeq([r \in DOMAIN regs[m] |-> r], LAMBDA r : r > Len(LimbsOfModule(program, m)) /\ r # zero[m])
ValuesLeft(m, r) ==
    IF \E c \in Range(done) : c.kind = "range" /\ c.module = m /\ c.terms[1].reg = r /\ c.widths[1] = regs[m][r]
    THEN 2^regs[m][r] ELSE Modulus
Alternatives(m) ==
    LET fresh == FreshRegisters(m)
        n == Len(fresh)
        h == expanded[m].height
        left == [c \in 1..(h * n) |-> ValuesLeft(m, fresh[((c - 1) % n) + 1])] \o <<>>
        below == [c \in 1..(h * n + 1) |-> FoldLeft(LAMBDA x, y : x * y, 1, SubSeq(left, 1, c - 1))] \o <<>>
        cell(k, r) == (k - 1) * n + (CHOOSE j \in DOMAIN fresh : fresh[j] = r)
        at(v, c) == (v \div below[c]) % left[c]
    IN  {[expanded EXCEPT ![m] = WithColumns(@, [r \in Range(fresh) |-> Column([k \in 1..h |-> at(v, cell(k, r))])])]
            : v \in 0..(below[h * n + 1] - 1)}
-----------------------------------------------------------------------------
TypeOK ==
    /\ status \in {"subdividing", "ready", "traced", "panic", "diverges"}
    /\ \A m \in DOMAIN regs : regs[m] \in Seq(Nat) /\ zero[m] \in 0..Len(regs[m])
    /\ \A f \in Range(fills) : \A t \in Range(f.targets) : t \in DOMAIN regs[f.module]

(* Whatever the original schema accepts, the subdivided one accepts once   *)
(* its computed registers are filled: carries fit in their registers and   *)
(* every chunk balances.                                                   *)
Complete == status = "traced" /\ AcceptsOriginal(program, original) => AcceptsSubdivided(expanded)

RECURSIVE EquationsOf(_, _)
EquationsOf(f, ops) ==
    IF f.op \in {"eq", "ne"} THEN IF f.op \in ops THEN {NewEquation(f.lhs, f.rhs)} ELSE {}
    ELSE UNION {EquationsOf(f.args[i], ops) : i \in DOMAIN f.args}
SplitEquations(ops) == UNION {EquationsOf(c.formula, ops) : c \in {d \in Range(done) : d.kind = "split"}}

(* The largest value of a polynomial with no negative terms.               *)
Largest(p) == Eval(p, [a \in RegistersRead(p) |-> 2^a.mask - 1])

(* Both sides of a chunk hand a carry on, and are then so far apart that   *)
(* their difference may be the prime: different values are equal.          *)
WrapsAround ==
    \E eq \in SplitEquations({"eq"}) :
        LET l == BalancePolynomial(eq.lhs)
            r == BalancePolynomial(eq.rhs)
        IN  /\ Signed(eq.lhs) /\ Signed(eq.rhs)
            /\ Largest(l.pos) + Largest(r.neg) >= Modulus \/ Largest(r.pos) + Largest(l.neg) >= Modulus

(* A chunk of a disequality hands a carry on, which need not be right.     *)
FreeCarry == \E eq \in SplitEquations({"ne"}) : Signed(eq.lhs) \/ Signed(eq.rhs)

(* What the original schema rejects, the subdivided one rejects whatever   *)
(* the fresh registers hold: no choice of carries makes it pass.           *)
Sound ==
    status = "traced" /\ ~AcceptsOriginal(program, original) =>
        \A m \in DOMAIN regs : \A tr \in Alternatives(m) : ~AcceptsSubdivided(tr)

(* No side of a split equation, taken without its negative terms, needs    *)
(* more bits than the field holds, but for a power of two that the terms   *)
(* of both sides have in common.                                           *)
CommonShift(eq) == Max({k \in 0..EquationWidth(Balance(eq)) : {Shr(eq.lhs, k).rem, Shr(eq.rhs, k).rem} = {ZeroPoly}})
WithinBandwidth ==
    \A eq \in SplitEquations({"eq", "ne"}) : \A p \in {eq.lhs, eq.rhs} :
        BitsOfPolynomial(BalancePolynomial(p).pos) - CommonShift(eq) <= BandWidth

(* Chunks get smaller until something fits: the attempts end.              *)
SomethingFits == status # "diverges"

(* Every computed register of the original schema is the value of its      *)
(* limbs: sorting limb by limb is sorting.                                 *)
LimbsAgree ==
    status = "traced" =>
        \A m \in DOMAIN regs : \A r \in Registers(m), k \in 1..original[m].height :
            original[m].cols[r].data[k] =
                Recomposed([i \in DOMAIN LimbIds(m, r) |-> expanded[m].cols[LimbIds(m, r)[i]].data[k]], LimbWidthsOf(m, r))
=============================================================================
