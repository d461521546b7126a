--------------------------- MODULE MCTraceBuilder ---------------------------
(* A schema of two modules over a field of five elements: m holds a split  *)
(* register, a narrow one with padding 2 and a computed one; n has height  *)
(* multiplier 2, takes no padding and holds another split register.        *)
EXTENDS TraceBuilder

Reg(n, w, io, p) == [name |-> n, width |-> w, io |-> io, native |-> FALSE, padding |-> p]

MCSchema ==
    <<[name |-> "m", mult |-> 1, pads |-> TRUE, spill |-> 1, defend |-> 2,
       regs |-> <<Reg(<<"X">>, 3, TRUE, 5), Reg(<<"Y">>, 2, TRUE, 2), Reg(<<"C">>, 2, FALSE, 0)>>],
      [name |-> "n", mult |-> 2, pads |-> FALSE, spill |-> 0, defend |-> 0,
       regs |-> <<Reg(<<"Z">>, 3, TRUE, 1),
                  [Reg(<<"I">>, 2, FALSE, 0) EXCEPT !.native = TRUE]>>]>>

Col(n, b, d) == [name |-> n, bits |-> b, data |-> d]
Mod(n, c) == [name |-> n, cols |-> c]

XCols == {Col(<<"X">>, 4, <<6>>), Col(<<"X">>, 4, <<9>>), Col(<<"X">>, 4, <<>>)}
YCols == {Col(<<"Y">>, 4, <<1>>), Col(<<"Y">>, 1, <<1>>), Col(<<"Y">>, 4, <<4>>), Col(<<"Y">>, 4, <<7>>),
          Col(<<"Y">>, 4, <<>>), Col(<<"Y">>, 4, NoData)}
ZCols == {Col(<<"Z">>, 4, <<3, 0>>), Col(<<"Z">>, 4, <<4, 1>>), Col(<<"Z">>, 2, <<>>), Col(<<"Z">>, 2, <<1>>)}

(* Files with a column of each register, in either order of modules.       *)
WholeFiles ==
    {<<Mod("m", <<x, y>>), Mod("n", <<z>>)>> : x \in XCols, y \in YCols, z \in ZCols}
    \cup {<<Mod("n", <<z>>), Mod("m", <<y, x>>)>> : x \in XCols, y \in YCols, z \in ZCols}

(* Files with two bad columns, duplicates, and one that is fully expanded. *)
OtherFiles ==
    LET x == Col(<<"X">>, 4, <<6>>) y == Col(<<"Y">>, 4, <<1>>) z == Col(<<"Z">>, 4, <<3, 0>>)
    IN  {<<Mod("m", <<x, x, y>>), Mod("n", <<z>>)>>,
         <<Mod("m", <<Col(<<"X">>, 4, <<9>>), y>>), Mod("n", <<Col(<<"Z">>, 4, <<8, 0>>)>>)>>,
         <<Mod("m", <<Col(<<"X", 1>>, 2, <<2>>), Col(<<"X", 2>>, 1, <<1>>), y, Col(<<"C">>, 2, <<3>>)>>),
           Mod("n", <<Col(<<"Z", 1>>, 2, <<3, 0>>), Col(<<"Z", 2>>, 1, <<0, 0>>), Col(<<"I">>, 4, <<0, 1>>)>>)>>,
         <<Mod("m", <<x, y>>), Mod("n", <<Col(<<"Z">>, 4, <<1, 1>>)>>), Mod("n", <<z>>)>>}

(* Files that lack a module, or hold a module or a column that the schema  *)
(* does not know.                                                          *)
OddFiles ==
    LET x == Col(<<"X">>, 4, <<6>>) y == Col(<<"Y">>, 4, <<1>>) z == Col(<<"Z">>, 4, <<3, 0>>)
    IN  {<<Mod("n", <<z>>)>>, <<Mod("m", <<x, y>>)>>, <<>>,
         <<Mod("m", <<x, y, Col(<<"U">>, 4, <<0>>)>>), Mod("n", <<z>>)>>,
         <<Mod("m", <<x, y>>), Mod("u", <<Col(<<"U">>, 4, <<0>>)>>)>>}

MCFiles == WholeFiles \cup OtherFiles \cup OddFiles

Cfg(e, p, d, v, n) ==
    [expand |-> e, parallel |-> p, defensive |-> d, validate |-> v, padding |-> n]
MCConfigs == {Cfg(TRUE, p, d, v, n) : p, v \in BOOLEAN, d \in {TRUE}, n \in 0..1}
             \cup {Cfg(FALSE, p, FALSE, TRUE, 1) : p \in BOOLEAN}
             \cup {Cfg(TRUE, TRUE, FALSE, TRUE, 0)}
=============================================================================
