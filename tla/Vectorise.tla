----------------------------- MODULE Vectorise ------------------------------
(***************************************************************************)
(* The vectoriser merges the vectors of a function: a jump is replaced by  *)
(* the codes of its target, or by a skip to them, as long as no register   *)
(* is written twice or read where it is written on some paths only.  The   *)
(* write map is a forward data flow analysis over the codes of one vector. *)
(***************************************************************************)
EXTENDS ZkAst

-----------------------------------------------------------------------------
(* The write map: for every code the registers that may be, and that are   *)
(* definitely, written before it, or NONE when no path leads to it.        *)

NONE == [reached |-> FALSE, maybe |-> {}, definitely |-> {}]

Write(st, regs) == [st EXCEPT !.maybe = @ \cup regs, !.definitely = @ \cup regs]

(* A faulty join: written on one path counts as written.                   *)
JoinUnion(st, other) ==
    IF ~other.reached THEN st
    ELSE [reached |-> TRUE, maybe |-> st.maybe \cup other.maybe, definitely |-> st.definitely \cup other.definitely]
Join(st, other) ==
    IF ~other.reached THEN st
    ELSE [reached |-> TRUE, maybe |-> st.maybe \cup other.maybe, definitely |-> st.definitely \cap other.definitely]

(* The arcs out of a code: pairs of an offset and the state carried there. *)
Transfers(i, code, st) ==
    LET next == <<i + 1, Write(st, Range(code.t))>>
    IN  CASE code.op \in Terminators -> <<>>
          [] code.op = "skip" -> <<<<i + code.c + 1, st>>>>
          [] code.op = "skip_if" -> <<<<i + code.c + 1, st>>, next>>
          [] OTHER -> <<next>>

JoinInto(states, arc) == [states EXCEPT ![arc[1]] = Join(arc[2], @)]

WriteMap(codes) ==
    FoldLeft(LAMBDA states, i : FoldLeft(JoinInto, states, Transfers(i, codes[i], states[i])),
             [i \in DOMAIN codes |-> IF i = 1 THEN [NONE EXCEPT !.reached = TRUE] ELSE NONE],
             [i \in DOMAIN codes |-> i])

(* Validate and validateConflicts.                                         *)
ConflictFree(codes) ==
    LET writes == WriteMap(codes)
    IN  \A i \in DOMAIN codes :
          /\ Range(codes[i].s) \cap writes[i].maybe \subseteq writes[i].definitely
          /\ Range(codes[i].t) \cap writes[i].maybe = {}

-----------------------------------------------------------------------------
(* Merging.                                                                *)

EndsInTerminator(codes) == codes /= <<>> /\ Last(codes).op \in Terminators

PrepareCode(code) ==
    [pc \in DOMAIN code |->
        IF ~EndsInTerminator(code[pc]) /\ pc < Len(code) THEN Append(code[pc], Jump(pc + 1)) ELSE code[pc]]

JumpsOf(codes) == {i \in DOMAIN codes : codes[i].op = "jump"}

(* The codes with the target spliced in at j; skips that cross j grow.     *)
InlineJump(codes, j, target) ==
    LET grown == Len(target) - 1
        Stretch(i) == IF codes[i].op \in {"skip", "skip_if"} /\ i < j /\ i + codes[i].c + 1 > j
                      THEN [codes[i] EXCEPT !.c = @ + grown] ELSE codes[i]
        stretched == [i \in DOMAIN codes |-> Stretch(i)]
    IN  SubSeq(stretched, 1, j - 1) \o target \o SubSeq(stretched, j + 1, Len(codes))

ReplaceJump(codes, j, offset) == [codes EXCEPT ![j] = Skip(offset - j - 1)]

ABSENT == 0

UpdateMicroMap(externs, j, target, n) ==
    [pc \in DOMAIN externs |->
        CASE pc = target -> j
          [] pc /= target /\ externs[pc] > j -> externs[pc] + n - 1
          [] OTHER -> externs[pc]]

(* externs[pc] is where the vector of pc was spliced in, if it was.        *)
MayAbsorb(pc, codes, externs, j) ==
    codes[j].c /= pc /\ (externs[codes[j].c] = ABSENT \/ externs[codes[j].c] > j)
Absorbed(code, codes, externs, j) ==
    LET target == codes[j].c
    IN  IF externs[target] /= ABSENT THEN ReplaceJump(codes, j, externs[target])
        ELSE InlineJump(codes, j, code[target])

RECURSIVE Merge(_, _, _, _)
(* The right-most jump that can be absorbed without a conflict is, until   *)
(* there is none.                                                          *)
Merge(pc, code, codes, externs) ==
    LET able == {j \in JumpsOf(codes) : MayAbsorb(pc, codes, externs, j)
                                         /\ ConflictFree(Absorbed(code, codes, externs, j))}
        j == Max(able)
        target == codes[j].c
    IN  IF able = {} THEN codes
        ELSE Merge(pc, code, Absorbed(code, codes, externs, j),
                   IF externs[target] /= ABSENT THEN externs
                   ELSE UpdateMicroMap(externs, j, target, Len(code[target])))

VectoriseInstruction(pc, code) == Merge(pc, code, code[pc], [i \in DOMAIN code |-> ABSENT])

RECURSIVE Reach(_, _, _)
(* The vectors made from the entry and from every jump that is left.       *)
Reach(code, insns, todo) ==
    IF todo = {} THEN insns
    ELSE LET pc == CHOOSE p \in todo : TRUE
             Targets(codes) == {codes[j].c : j \in JumpsOf(codes)}
             On(made) == Reach(code, made, (todo \cup {t \in Targets(made[pc]) : made[t] = <<>>}) \ {pc})
         IN  On([insns EXCEPT ![pc] = VectoriseInstruction(pc, code)])

(* Vectors nothing jumps to are dropped and jumps rebound.                 *)
PruneUnreachable(insns) ==
    LET Position(pc) == Cardinality({p \in 1..pc : insns[p] /= <<>>})
        Rebound(codes) == [i \in DOMAIN codes |->
                              IF codes[i].op = "jump" THEN Jump(Position(codes[i].c)) ELSE codes[i]]
        kept == [pc \in DOMAIN insns |-> Rebound(insns[pc])]
    IN  SelectSeq(kept, LAMBDA codes : codes /= <<>>)

VectoriseFunction(f) ==
    LET Vectors(prepared) == PruneUnreachable(Reach(prepared, [pc \in DOMAIN prepared |-> <<>>], {1}))
    IN  [f EXCEPT !.code = Vectors(PrepareCode(f.code))]
-----------------------------------------------------------------------------
(* Instructions that the proof system has no constraint for are replaced   *)
(* by arithmetic: chains of bitwise instructions become binary ones,       *)
(* bitwise instructions and shifts become calls of helper functions that   *)
(* split their arguments down to single bits or shift one bit at a time,   *)
(* and relational skips test the sign of a biased difference.              *)

Bitwises == {"and", "or", "xor", "not", "shl", "shr"}
Relational == {"lt", "gt", "lteq", "gteq"}

(* Widths with a register added, whose number is the new length.           *)
Alloc(w, width) == Append(w, width)
AllocAll(w, widths) == w \o widths

(* Every vector of a function is rewritten code by code; Rewrite maps a    *)
(* code and the state [w, ...] to a state whose field out is its codes.    *)
RewriteVector(Rewrite(_, _), codes, state) ==
    FoldLeft(LAMBDA st, code :
                 LET Extended(r) == [r EXCEPT !.out = st.out \o r.out] IN Extended(Rewrite(code, st)),
             [state EXCEPT !.out = <<>>], codes)
RewriteFunction(Rewrite(_, _), f, state) ==
    FoldLeft(LAMBDA st, codes :
                 LET Extended(r) == [r EXCEPT !.code = Append(st.code, r.out)]
                 IN  Extended(RewriteVector(Rewrite, codes, st)),
             [state EXCEPT !.w = f.w, !.code = <<>>], f.code)

Start(helpers) == [w |-> <<>>, out |-> <<>>, code |-> <<>>, helpers |-> helpers]

-----------------------------------------------------------------------------
(* BinarizeBitwise.                                                        *)

IdentityOf(op, width) == IF op = "and" THEN Mask(width) ELSE 0

(* The chain of binary instructions over sources, through temporaries.     *)
RECURSIVE BinaryChain(_, _, _, _, _)
BinaryChain(op, target, sources, identity, w) ==
    LET acc == Len(w) + 1
        width == w[target]
    IN  IF Len(sources) = 2 THEN [w |-> w, out |-> <<Insn(op, <<target>>, sources, identity)>>]
        ELSE LET rest == BinaryChain(op, target, <<acc>> \o SubSeq(sources, 3, Len(sources)), identity, Alloc(w, width))
             IN  [rest EXCEPT !.out =
                    <<Insn(op, <<acc>>, SubSeq(sources, 1, 2), identity)>> \o rest.out]

PANIC == Insn("panic", <<>>, <<>>, 0)

BinarizeCode(code, st) ==
    LET target == code.t[1]
        width == st.w[target]
        identity == IdentityOf(code.op, width)
        material == code.c /= identity
        constant == Len(st.w) + 1
        w == IF material THEN Alloc(st.w, width) ELSE st.w
        sources == IF material THEN Append(code.s, constant) ELSE code.s
        load == IF material THEN <<Load(constant, code.c)>> ELSE <<>>
        chain == BinaryChain(code.op, target, sources, identity, w)
    IN  IF code.op \notin {"and", "or", "xor"} THEN [st EXCEPT !.out = <<code>>]
        ELSE CASE Len(sources) = 0 -> [st EXCEPT !.out = <<PANIC>>]
               [] Len(sources) = 1 -> [st EXCEPT !.w = w, !.out = Append(load, Copy(target, sources[1]))]
               [] OTHER -> [st EXCEPT !.w = chain.w, !.out = load \o chain.out]

BinarizeBitwise(prog) ==
    [i \in DOMAIN prog |->
        LET r == RewriteFunction(BinarizeCode, prog[i], Start(<<>>))
        IN  [prog[i] EXCEPT !.w = r.w, !.code = r.code]]

-----------------------------------------------------------------------------
(* LowerBitwise.  helpers is [base, widths, items]: the number of modules  *)
(* before the first helper, the widths of shift amounts, and the helpers   *)
(* made so far, each with the key that makes it unique.                    *)

NextPowerOfTwo(width) == Min({p \in {2^k : k \in 0..width} : p >= width})

ShiftsOf(prog) ==
    UNION {UNION {{[op |-> code.op, width |-> f.w[code.t[1]], amount |-> f.w[code.s[2]]] :
                        code \in {c \in Range(codes) : c.op \in {"shl", "shr"}}} : codes \in Range(f.code)}
              : f \in Range(prog)}
(* A helper takes the widest amount any of its callers has.                *)
ScanShiftAmountWidths(prog) ==
    [key \in {<<s.op, s.width>> : s \in ShiftsOf(prog)} |->
        Max({s.amount : s \in {x \in ShiftsOf(prog) : <<x.op, x.width>> = key}})]

IdOf(helpers, key) == helpers.base + (CHOOSE i \in DOMAIN helpers.items : helpers.items[i].key = key)
Known(helpers, key) == \E i \in DOMAIN helpers.items : helpers.items[i].key = key
AddHelper(helpers, key, f) == [helpers EXCEPT !.items = Append(@, [key |-> key, f |-> f])]

(* One bit of an operation, as arithmetic that cannot overflow: the codes  *)
(* and the number of temporaries, the last of which is the result.         *)
CombineBit(op, lhs, rhs, n) ==
    CASE op = "and" -> <<1, <<Insn("mul", <<n + 1>>, <<lhs, rhs>>, 1)>>>>
      [] op = "or" -> <<4, <<Load(n + 1, 1), Insn("sub", <<n + 2>>, <<n + 1, lhs>>, 0),
                             Insn("mul", <<n + 3>>, <<n + 2, rhs>>, 1), Insn("add", <<n + 4>>, <<lhs, n + 3>>, 0)>>>>
      [] op = "xor" -> <<6, <<Load(n + 1, 1), Insn("sub", <<n + 2>>, <<n + 1, rhs>>, 0),
                              Insn("sub", <<n + 3>>, <<n + 1, lhs>>, 0), Insn("mul", <<n + 4>>, <<lhs, n + 2>>, 1),
                              Insn("mul", <<n + 5>>, <<n + 3, rhs>>, 1), Insn("add", <<n + 6>>, <<n + 4, n + 5>>, 0)>>>>

BitHelper(op, arity, constant) ==
    LET out == arity + 1
        seed == [n |-> arity + 2, code |-> <<Load(arity + 2, constant % 2)>>]
        folded == FoldLeft(LAMBDA b, i : LET c == CombineBit(op, b.n, i, b.n)
                                         IN  [n |-> b.n + c[1], code |-> b.code \o c[2]],
                           seed, [i \in 1..arity |-> i])
    IN  [nin |-> arity, nout |-> 1, w |-> [i \in 1..folded.n |-> 1],
         code |-> <<folded.code \o <<Copy(out, folded.n), Return>>>>]

(* A helper that splits its arguments in halves and calls low and high.    *)
SplitHelper(op, width, arity, low, high) ==
    LET half == width \div 2
        lows == [i \in 1..arity |-> arity + 2 * i]
        highs == [i \in 1..arity |-> arity + 2 * i + 1]
        res == 3 * arity + 2
    IN  [nin |-> arity, nout |-> 1,
         w |-> [i \in 1..(res + 1) |-> IF i <= arity + 1 THEN width ELSE half],
         code |-> <<[i \in 1..arity |-> Insn("destruct", <<lows[i], highs[i]>>, <<i>>, 0)]
                    \o <<Insn("call", <<res>>, lows, low), Insn("call", <<res + 1>>, highs, high),
                         Insn("concat", <<arity + 1>>, <<res, res + 1>>, 0), Return>>>>]

RECURSIVE EnsureNary(_, _, _, _, _)
(* The helpers with one for the key: its callees come before it.           *)
EnsureNary(helpers, op, width, arity, constant) ==
    LET key == <<op, width, arity, constant>>
        half == width \div 2
        low == <<op, half, arity, constant % 2^half>>
        high == <<op, half, arity, constant \div 2^half>>
        subs == EnsureNary(EnsureNary(helpers, op, half, arity, low[4]), op, half, arity, high[4])
    IN  IF Known(helpers, key) THEN helpers
        ELSE IF width = 1 THEN AddHelper(helpers, key, BitHelper(op, arity, constant))
        ELSE AddHelper(subs, key, SplitHelper(op, width, arity, IdOf(subs, low), IdOf(subs, high)))

BitLen(n) == Min({k \in 0..n : n < 2^k})

(* newShlHelper and newShrHelper: zero and too large amounts return, every *)
(* other one shifts by one and calls itself with one less.                 *)
ShiftHelper(op, width, amount, self) ==
    LET wmax == Max({amount, BitLen(width - 1), 1})
        guards == <<Load(4, 0), Load(5, width - 1), SkipIf("neq", 2, 4, 2), Copy(3, 1), Return,
                    Copy(6, 2), SkipIf("lteq", 6, 5, 2), Load(3, 0), Return>>
        left == <<Insn("destruct", <<7>>, <<1>>, 0), Insn("add", <<8>>, <<7, 7>>, 0), Insn("sub", <<9>>, <<2>>, 1),
                  Insn("call", <<3>>, <<8, 9>>, self), Return>>
        right == <<Insn("destruct", <<7, 8>>, <<1>>, 0), Copy(9, 8), Insn("sub", <<10>>, <<2>>, 1),
                   Insn("call", <<3>>, <<9, 10>>, self), Return>>
        base == <<width, amount, width, amount, wmax, wmax>>
    IN  [nin |-> 2, nout |-> 1,
         w |-> base \o IF op = "shl" THEN <<width - 1, width, amount>> ELSE <<1, width - 1, width, amount>>,
         code |-> <<guards \o IF op = "shl" THEN left ELSE right>>]

EnsureShift(helpers, op, width) ==
    LET key == <<op, width, 2, 0>>
        self == helpers.base + Len(helpers.items) + 1
    IN  IF Known(helpers, key) THEN helpers
        ELSE AddHelper(helpers, key, ShiftHelper(op, width, helpers.widths[<<op, width>>], self))

(* A call of a helper, through casts where its width is not the target's.  *)
BitwiseCall(id, code, p, w) ==
    LET n == Len(w)
        k == Len(code.s)
    IN  IF w[code.t[1]] = p THEN [w |-> w, out |-> <<Insn("call", code.t, code.s, id)>>]
        ELSE [w |-> AllocAll(w, [i \in 1..(k + 1) |-> p]),
              out |-> [i \in 1..k |-> Insn("cast", <<n + i>>, <<code.s[i]>>, p)]
                      \o <<Insn("call", <<n + k + 1>>, [i \in 1..k |-> n + i], id),
                           Insn("cast", code.t, <<n + k + 1>>, w[code.t[1]])>>]
ShiftCall(id, code, amount, w) ==
    LET n == Len(w)
    IN  IF w[code.s[2]] = amount THEN [w |-> w, out |-> <<Insn("call", code.t, code.s, id)>>]
        ELSE [w |-> Alloc(w, amount),
              out |-> <<Insn("cast", <<n + 1>>, <<code.s[2]>>, amount),
                        Insn("call", code.t, <<code.s[1], n + 1>>, id)>>]
InlineNot(code, w) ==
    LET n == Len(w) + 1
        width == w[code.t[1]]
    IN  [w |-> Alloc(w, width),
         out |-> <<Load(n, Mask(width)), Insn("sub", code.t, <<n, code.s[1]>>, 0)>>]

LowerBitwiseCode(code, st) ==
    LET width == st.w[code.t[1]]
        p == NextPowerOfTwo(width)
        arity == Len(code.s)
        Emit(r, hs) == [st EXCEPT !.w = r.w, !.out = r.out, !.helpers = hs]
        Combine(hs) == Emit(BitwiseCall(IdOf(hs, <<code.op, p, arity, code.c>>), code, p, st.w), hs)
        Shift(hs) == Emit(ShiftCall(IdOf(hs, <<code.op, width, 2, 0>>), code,
                                    st.helpers.widths[<<code.op, width>>], st.w), hs)
    IN  CASE code.op \notin Bitwises -> [st EXCEPT !.out = <<code>>]
          [] code.op \in {"and", "or", "xor"} -> Combine(EnsureNary(st.helpers, code.op, p, arity, code.c))
          [] code.op = "not" -> Emit(InlineNot(code, st.w), st.helpers)
          [] code.op \in {"shl", "shr"} -> Shift(EnsureShift(st.helpers, code.op, width))

LowerBitwise(prog) ==
    LET helpers == [base |-> Len(prog), widths |-> ScanShiftAmountWidths(prog), items |-> <<>>]
        With(st, f, r) == [helpers |-> r.helpers, fs |-> Append(st.fs, [f EXCEPT !.w = r.w, !.code = r.code])]
        Next(st, f) == With(st, f, RewriteFunction(LowerBitwiseCode, f, Start(st.helpers)))
        All(lowered) == lowered.fs \o [i \in DOMAIN lowered.helpers.items |-> lowered.helpers.items[i].f]
    IN  All(FoldLeft(Next, [helpers |-> helpers, fs |-> <<>>], prog))

-----------------------------------------------------------------------------
(* LowerComparisons.                                                       *)

(* The operands, and the condition on the sign of 1::lhs - rhs, which is   *)
(* zero exactly when lhs < rhs.                                            *)
NormalizeRelational(code) ==
    CASE code.k = "lt" -> <<code.s[1], code.s[2], "eq">>
      [] code.k = "gteq" -> <<code.s[1], code.s[2], "neq">>
      [] code.k = "gt" -> <<code.s[2], code.s[1], "eq">>
      [] code.k = "lteq" -> <<code.s[2], code.s[1], "neq">>

LowerRelationalSkipIf(code, w) ==
    LET norm == NormalizeRelational(code)
        lhs == norm[1]
        rhs == norm[2]
        wide == Max({w[lhs], w[rhs]}) + 1
        n == Len(w)
        direct == w[lhs] = wide - 1
        \* bWide, one, biased, diff, lo, sign, zero and, where lhs must be widened, aBase
        low == IF direct THEN lhs ELSE n + 8
    IN  [w |-> AllocAll(w, <<wide, 1, wide, wide, wide - 1, 1, 1>> \o IF direct THEN <<>> ELSE <<wide - 1>>),
         out |-> <<Insn("cast", <<n + 1>>, <<rhs>>, wide), Load(n + 2, 1)>>
                 \o (IF direct THEN <<>> ELSE <<Insn("cast", <<n + 8>>, <<lhs>>, wide - 1)>>)
                 \o <<Insn("concat", <<n + 3>>, <<low, n + 2>>, 0), Insn("sub", <<n + 4>>, <<n + 3, n + 1>>, 0),
                      Insn("destruct", <<n + 5, n + 6>>, <<n + 4>>, 0), Load(n + 7, 0),
                      SkipIf(norm[3], n + 6, n + 7, code.c)>>]

LowerComparisonCode(code, st) ==
    LET r == LowerRelationalSkipIf(code, st.w)
    IN  IF code.op = "skip_if" /\ code.k \in Relational
        THEN [st EXCEPT !.w = r.w, !.out = r.out] ELSE [st EXCEPT !.out = <<code>>]

LowerComparisons(prog) ==
    [i \in DOMAIN prog |->
        LET r == RewriteFunction(LowerComparisonCode, prog[i], Start(<<>>))
        IN  [prog[i] EXCEPT !.w = r.w, !.code = r.code]]

(* The order of the passes: shifts introduce relational skips.             *)
LowerNatives(prog) == LowerComparisons(LowerBitwise(BinarizeBitwise(prog)))
=============================================================================
