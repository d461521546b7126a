---------------------------- MODULE MCSharedPool ----------------------------
(* SharedPool on small instances.                                          *)
EXTENDS SharedPool, SequencesExt

(* Words that collide in small tables, one the prefix of another.          *)
MCWords == {<<>>, <<1>>, <<2>>, <<1, 2>>}

(* An xor-multiply hash in miniature.                                      *)
MCHash(w) == FoldLeft(LAMBDA acc, c : (3 * (acc + c)) % 11, 7, w)

=============================================================================
