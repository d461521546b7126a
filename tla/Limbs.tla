-------------------------------- MODULE Limbs --------------------------------
(***************************************************************************)
(* Registers wider than the field allows are split into limbs, the least   *)
(* significant first: the widths of the limbs, the limbs of a value, and   *)
(* the order of values that are stored as limbs.                           *)
(*                                                                         *)
(* A register is a record [name, width, io, native, padding]; a limb is    *)
(* one as well, its name that of the register followed by its index.      *)
(***************************************************************************)
EXTENDS Integers, Sequences, SequencesExt, FiniteSetsExt

MinNumberOfLimbs(max, width) == (width + max - 1) \div max

(* The smallest power of two that covers the register with the fewest      *)
(* limbs or, where the maximum stops the search before, the largest one    *)
(* that respects the maximum.                                              *)
CommonLimbWidth(max, width) ==
    LET n == MinNumberOfLimbs(max, width)
    IN  Min({w \in {2^k : k \in 0..width} : w * n >= width \/ w * 2 > max})

(* Every limb has the common width but the last, which takes what is left. *)
LimbWidths(max, width) ==
    LET w == CommonLimbWidth(max, width)
        n == MinNumberOfLimbs(w, width)
    IN  [i \in 1..n |-> IF i < n THEN w ELSE width - (n - 1) * w]

BitsBelow(widths, i) == SumFunctionOnSet(widths, 1..(i - 1))
TotalWidth(widths) == BitsBelow(widths, Len(widths) + 1)

Fits(v, widths) == v < 2^TotalWidth(widths)

(* SplitWord and SplitConstant, for a value that fits.                     *)
SplitWord(v, widths) ==
    [i \in DOMAIN widths |-> (v \div 2^BitsBelow(widths, i)) % 2^widths[i]]

(* A register that needs no splitting is its own limb.                     *)
SplitIntoLimbs(max, r) ==
    LET widths == LimbWidths(max, r.width)
        padding == SplitWord(r.padding, widths)
    IN  IF Len(widths) <= 1 THEN <<r>>
        ELSE [i \in DOMAIN widths |->
                [r EXCEPT !.name = Append(r.name, i), !.width = widths[i], !.padding = padding[i]]]

(* The value that limbs stand for.                                         *)
Recomposed(limbs, widths) ==
    MapThenSumSet(LAMBDA i : limbs[i] * 2^BitsBelow(widths, i), DOMAIN limbs)

(* rowLessThanEquals and ComponentInstance.Cmp: rows of limbs are compared *)
(* from right to left, since the last limb is the most significant one.    *)
LimbsLessEq(a, b) ==
    \/ a = b
    \/ \E k \in DOMAIN a : a[k] < b[k] /\ \A j \in DOMAIN a : j > k => a[j] = b[j]
=============================================================================
