---------------------------- MODULE MCSubdivision ----------------------------
(***************************************************************************)
(* Splitting for a small field, on small inputs:                           *)
(*  - schemas over modules m and n are subdivided.  Registers of module m: *)
(*    X is the first, Y the second and Z the third;                        *)
(*  - assignments over registers of four bits, x and y, into targets z, h, *)
(*    s and the bit b, are split for limbs of two bits;                    *)
(*  - words of up to MaxWidth bits are split into limbs, for all maximal   *)
(*    widths of a limb.                                                    *)
(***************************************************************************)
EXTENDS Subdivision

CONSTANTS Parts,        \* which of "schema", "assignment" and "word" to split
          MaxWidth      \* of a word

ASSUME WidthAssumption == MaxWidth \in Nat \ {0}

VARIABLES part,
          source, target, limbs, divisions, last, iteration, codes, phase,
          word          \* [limit, width, pair, limbs]: two words and their limbs

splitVars == <<source, target, limbs, divisions, last, iteration, codes, phase>>
allVars == <<part, vars, splitVars, word>>

Idle == <<>>
-----------------------------------------------------------------------------
(* Schemas.                                                                *)

Reg(w, r, s) == Field!RawRegisterAccess(r, w[r], s)
Num(n) == Field!Const(n)
Plus(a, b) == Node("add", <<a, b>>)
Minus(a, b) == Node("sub", <<a, b>>)
Times(a, b) == Node("mul", <<a, b>>)
Eq(a, b) == Node("eq", <<a, b>>)
Ne(a, b) == Node("ne", <<a, b>>)
If(c, a, b) == Node("ite", <<c, a, b>>)

Vanishing(t) == [kind |-> "vanishing", module |-> "m", domain |-> Field!None, term |-> t]
Program(w, h, inputs, items) ==
    [widths |-> [m |-> w], inputs |-> [m |-> inputs], heights |-> [m |-> h], items |-> items]

W44 == <<4, 4>>
W224 == <<2, 2, 4>>
W31 == <<3, 3, 1>>
W33 == <<3, 3, 3>>

Arithmetic ==
    {Program(W44, 1, {1, 2}, <<Vanishing(Eq(Reg(W44, 1, 0), Plus(Reg(W44, 2, 0), Num(1))))>>),
     Program(W44, 1, {1, 2}, <<Vanishing(Eq(Minus(Reg(W44, 1, 0), Reg(W44, 2, 0)), Num(5)))>>),
     Program(W44, 1, {1, 2}, <<Vanishing(Eq(Minus(Num(9), Reg(W44, 1, 0)), Minus(Num(3), Reg(W44, 2, 0))))>>),
     Program(W224, 1, {1, 2, 3}, <<Vanishing(Eq(Times(Reg(W224, 1, 0), Reg(W224, 2, 0)), Reg(W224, 3, 0)))>>),
     Program(W224, 1, {1, 2}, <<Vanishing(Eq(Times(Num(4), Reg(W224, 1, 0)), Times(Num(4), Reg(W224, 2, 0))))>>)}

(* Sums on both sides: each hands a carry on from its first chunk.  In     *)
(* X + Y = 2Z + 1 the first chunks may be 11 apart, in X + Y = Z + 3 only  *)
(* ten.                                                                    *)
XPlusY == Plus(Reg(W33, 1, 0), Reg(W33, 2, 0))
BothSides == {Program(W33, 1, {1, 2, 3}, <<Vanishing(Eq(XPlusY, Plus(Times(Num(2), Reg(W33, 3, 0)), Num(1))))>>)}
CloseSides == {Program(W33, 1, {1, 2, 3}, <<Vanishing(Eq(XPlusY, Plus(Reg(W33, 3, 0), Num(3))))>>)}

Logic ==
    {Program(W44, 1, {1, 2}, <<Vanishing(Ne(Reg(W44, 1, 0), Reg(W44, 2, 0)))>>),
     Program(W31, 1, {1, 2, 3},
         <<Vanishing(If(Eq(Reg(W31, 3, 0), Num(0)), Eq(Reg(W31, 1, 0), Plus(Reg(W31, 2, 0), Num(1))), Field!Nil)),
           Vanishing(If(Eq(Reg(W31, 3, 0), Num(1)), Eq(Plus(Reg(W31, 1, 0), Num(3)), Reg(W31, 2, 0)), Field!Nil))>>),
     Program(W31, 1, {1, 2, 3},
         <<Vanishing(Node("or", <<Ne(Reg(W31, 3, 0), Num(0)), Eq(Plus(Reg(W31, 1, 0), Num(3)), Reg(W31, 2, 0))>>))>>)}

Shifts ==
    {Program(<<3>>, 3, {1}, <<Vanishing(Eq(Reg(<<3>>, 1, 1), Plus(Reg(<<3>>, 1, 0), Num(1))))>>),
     Program(<<3>>, 2, {1}, <<[Vanishing(Eq(Reg(<<3>>, 1, 0), Plus(Reg(<<3>>, 1, -1), Num(3)))) EXCEPT !.domain = 0]>>)}

-----------------------------------------------------------------------------
(* Constraints and assignments of every other kind.                        *)

W43 == <<4, 3>>
OneModule ==
    {Program(W43, 1, {1, 2}, <<[kind |-> "assertion", module |-> "m", domain |-> Field!None,
                                term |-> Eq(Times(Reg(W43, 1, 0), Num(2)), Plus(Reg(W43, 2, 0), Num(6)))]>>),
     Program(W43, 1, {1, 2}, <<[kind |-> "range", module |-> "m", widths |-> <<3, 1>>,
                                terms |-> <<Reg(W43, 1, 0), Reg(W43, 2, 0)>>]>>),
     Program(<<3, 3>>, 2, {1, 2}, <<[kind |-> "permutation", module |-> "m", sources |-> <<1>>, targets |-> <<2>>]>>)}
    \union
    {Program(<<3, 1>>, 2, {1, 2},
         <<[kind |-> "sorted", module |-> "m", strict |-> strict, signs |-> <<sign>>, width |-> 3,
            terms |-> <<Reg(<<3, 1>>, 1, 0)>>, selector |-> Reg(<<3, 1>>, 2, 0)]>>) : strict, sign \in BOOLEAN}
    \union
    {Program(<<3, 3>>, 3, {1},
         <<[kind |-> "sortperm", source |-> "m", module |-> "m", sources |-> <<1>>, targets |-> <<2>>, signs |-> <<sign>>],
           [kind |-> "sorted", module |-> "m", strict |-> FALSE, signs |-> <<sign>>, width |-> 3,
            terms |-> <<Reg(<<3, 3>>, 2, 0)>>, selector |-> Field!Nil]>>) : sign \in BOOLEAN}
    \union
    {Program(<<3, 4>>, 1, {1},
         <<[kind |-> "computed", module |-> "m", targets |-> <<2>>, expr |-> Plus(Reg(<<3, 4>>, 1, 0), Num(3))],
           Vanishing(Eq(Reg(<<3, 4>>, 2, 0), Plus(Reg(<<3, 4>>, 1, 0), Num(3))))>>)}

TwoModules(w, v, hm, hn, items) ==
    [widths |-> [m |-> w, n |-> v], inputs |-> [m |-> DOMAIN w, n |-> DOMAIN v],
     heights |-> [m |-> hm, n |-> hn], items |-> items]
Vector(m, selector, ts) == [module |-> m, selector |-> selector, terms |-> ts]
Lookup(w, v, selector) ==
    [kind |-> "lookup", targets |-> <<Vector("n", Field!Nil, <<Reg(v, 1, 0)>>)>>,
     sources |-> <<Vector("m", selector, <<Reg(w, 1, 0)>>)>>]
Across ==
    {TwoModules(<<3, 1>>, <<2>>, 2, 1, <<Lookup(<<3, 1>>, <<2>>, Reg(<<3, 1>>, 2, 0)), Lookup(<<3, 1>>, <<2>>, Field!Nil)>>),
     TwoModules(<<2>>, <<3>>, 1, 2, <<Lookup(<<2>>, <<3>>, Field!Nil)>>),
     TwoModules(<<3>>, <<3>>, 2, 1,
         <<[kind |-> "interleaving", module |-> "m", source |-> "n", target |-> Node("vec", <<Reg(<<3>>, 1, 0)>>),
            terms |-> <<Node("vec", <<Reg(<<3>>, 1, 0)>>), Node("vec", <<Reg(<<3>>, 1, 0)>>)>>]>>)}

(* Registers whose limbs do not line up.                                   *)
Irregular ==
    {Program(<<4, 2>>, 1, {1, 2}, <<[kind |-> "permutation", module |-> "m", sources |-> <<1>>, targets |-> <<2>>]>>),
     Program(<<2, 3>>, 1, {1, 2}, <<[kind |-> "sorted", module |-> "m", strict |-> FALSE, signs |-> <<TRUE>>, width |-> 2,
                                     terms |-> <<Reg(<<2, 3>>, 1, 0)>>, selector |-> Reg(<<2, 3>>, 2, 0)]>>),
     TwoModules(<<2, 3>>, <<2>>, 1, 1, <<Lookup(<<2, 3>>, <<2>>, Reg(<<2, 3>>, 2, 0))>>),
     Program(<<4, 2>>, 1, {1},
         <<[kind |-> "sortperm", source |-> "m", module |-> "m", sources |-> <<1>>, targets |-> <<2>>, signs |-> <<TRUE>>]>>)}

(* X # Y + 1 needs a carry.                                                *)
Disequality == {Program(W44, 1, {1, 2}, <<Vanishing(Ne(Reg(W44, 1, 0), Plus(Reg(W44, 2, 0), Num(1))))>>)}

AllPrograms == Arithmetic \union BothSides \union CloseSides \union Logic \union Disequality \union Shifts
               \union OneModule \union Across \union Irregular
-----------------------------------------------------------------------------
(* Assignments.                                                            *)

x == 1
y == 2
z == 3
h == 4
s == 5
b == 6
SplitWidths == <<4, 4, 4, 4, 3, 1>>

Assignment(lhs, rhs) == [lhs |-> lhs, rhs |-> rhs]
Scaled(c, p) == PolyMul(Const(c), p)
LinearIn(cx, cy, ck) == {PolyAdd(PolyAdd(Scaled(i, Variable(x)), Scaled(j, Variable(y))), Const(k)) :
                        i \in cx, j \in cy, k \in ck}

LinearSums == LinearIn({0, 1, 6}, {0, 1, 9}, {0, 5})
Products == {PolyMul(Variable(x), Variable(y)), PolyMul(Variable(x), Variable(x)), PolyAdd(PolyMul(Variable(x), Variable(y)), Scaled(5, Variable(y)))}
Differences == LinearIn({-1, 1}, {-1, 0, 1}, {-1, 0, 3})
                \cup {PolySub(Variable(x), Scaled(4, Variable(y)))}

(* What validation accepts: the targets hold every value of the right-hand *)
(* side, and a difference has a sign bit.                                  *)
Acceptable(a) ==
    LET rhs == WidthOfPolynomial(a.rhs, SplitWidths)
        room == FoldLeft(LAMBDA acc, r : acc + SplitWidths[r], 0, a.lhs)
    IN  rhs.bits <= room /\ (rhs.signed => Len(a.lhs) > 1 /\ SplitWidths[Last(a.lhs)] = 1)

(* Assignments that update a register in place: some are kept whole, some  *)
(* are cut into chunks that read only limbs that are still to be written,  *)
(* and some into chunks that read what an earlier chunk wrote.             *)
InPlace ==
    {a \in [lhs : {<<x, b>>, <<b, x>>, <<x, h>>, <<x, s, b>>},
            rhs : LinearIn({1}, {0, 1, -1}, {1}) \cup {Scaled(5, Variable(x)), PolyMul(Variable(x), Variable(y))}] : Acceptable(a)}

SplitAssignments ==
    {a \in [lhs : {<<z>>, <<z, b>>, <<z, h>>, <<z, h, b>>, <<s, z, b>>, <<b, z, s>>},
            rhs : LinearSums \cup Products] : Acceptable(a)}
      \cup {a \in [lhs : {<<z, b>>, <<z, s, b>>, <<z, h, b>>}, rhs : Differences] : Acceptable(a)}
      \cup InPlace

S == INSTANCE AssignmentSplit WITH BandWidth <- 5, Modulus <- 37, Widths <- SplitWidths, Assignments <- SplitAssignments,
                                   regs <- limbs

ASSUME SplitAssumption == S!FieldAssumption
-----------------------------------------------------------------------------
(* A word, and the boundary values to compare it with.                     *)
Words ==
    UNION {{[limit |-> limit, width |-> w, pair |-> p, limbs |-> <<>>] :
               limit \in 1..MaxWidth, p \in (0..(2^w - 1)) \X {0, 1, 2^(w - 1), 2^w - 1}} : w \in 1..MaxWidth}

(* Both words are split, as the rows of a trace file are.                  *)
SplitWords ==
    /\ word.limbs = <<>>
    /\ word' = [word EXCEPT !.limbs = [i \in 1..2 |-> SplitWord(word.pair[i], LimbWidths(word.limit, word.width))]]
-----------------------------------------------------------------------------
NoSchema == /\ program = Idle /\ pending = Idle /\ regs = Idle /\ zero = Idle /\ fills = Idle
            /\ done = Idle /\ status = "idle" /\ original = Idle /\ expanded = Idle
NoSplit == /\ source = Idle /\ target = Idle /\ limbs = Idle /\ divisions = Idle
           /\ last = Idle /\ iteration = 0 /\ codes = Idle /\ phase = "idle"

MCInit ==
    /\ part \in Parts
    /\ \/ part = "schema" /\ Init /\ NoSplit /\ word = Idle
       \/ part = "assignment" /\ NoSchema /\ S!Init /\ word = Idle
       \/ part = "word" /\ NoSchema /\ NoSplit /\ word \in Words

MCNext ==
    \/ part = "schema" /\ Next /\ UNCHANGED <<part, splitVars, word>>
    \/ part = "assignment" /\ S!Next /\ UNCHANGED <<part, vars, word>>
    \/ part = "word" /\ SplitWords /\ UNCHANGED <<part, vars, splitVars>>

MCSpec == MCInit /\ [][MCNext]_allVars
-----------------------------------------------------------------------------
(* Whatever a schema accepts, the subdivided schema accepts over limbs     *)
(* once its computed registers are filled: carries fit in their registers, *)
(* every chunk balances within the bandwidth, sorting limb by limb is      *)
(* sorting, and the attempts at a split end (subdivide.go, equation.go).   *)
SubdivisionComplete ==
    part = "schema" => TypeOK /\ Complete /\ WithinBandwidth /\ SomethingFits /\ LimbsAgree

(* What a schema rejects, the subdivided schema rejects whatever its fresh *)
(* registers hold: the split equations implement the original one          *)
(* (equation.go:116).                                                      *)
NoFalseAcceptance == part = "schema" => Sound


(* Limbs are no wider than the limit, together exactly as wide as the      *)
(* word, and hold it; words are ordered as their rows of limbs are.        *)
LimbsExact ==
    LET widths == LimbWidths(word.limit, word.width)
    IN  /\ TotalWidth(widths) = word.width
        /\ \A i \in DOMAIN widths : widths[i] \in 1..word.limit
        /\ word.limbs # <<>> =>
              /\ \A i \in 1..2 : /\ Recomposed(word.limbs[i], widths) = word.pair[i]
                                 /\ \A k \in DOMAIN widths : word.limbs[i][k] < 2^widths[k]
              /\ LimbsLessEq(word.limbs[1], word.limbs[2]) <=> word.pair[1] <= word.pair[2]

(* An assignment reads a target that an earlier one has already written.   *)
ReadsBack ==
    \E i, j \in DOMAIN codes : i < j /\ Range(codes[i].lhs) \cap Range(target.lhs) \cap RegistersRead(codes[j].rhs) # {}

(* Splitting changes no value: run one after the other, the assignments    *)
(* that an assignment is split into leave in its targets what it would     *)
(* have, and their constraints have no other solution in the field; the    *)
(* limbs of a word hold it and keep its order (assignment.go, limbs.go).   *)
(* Left out are the assignments in place of which a chunk reads a limb     *)
(* that an earlier chunk wrote: nothing keeps the old value for it         *)
(* (assignment.go:238).                                                    *)
SplitExact ==
    /\ part = "assignment" => /\ S!TypeOK /\ S!SplittingGetsOn /\ S!SignBitsKept
                              /\ ReadsBack \/ (S!Implements /\ S!FieldSound)
    /\ part = "word" => LimbsExact
=============================================================================
